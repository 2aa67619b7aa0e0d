------------------------ MODULE ReconciliationProofs ------------------------
(***************************************************************************)
(* Proofs about Reconciliation for any number of payments and workers, any *)
(* lease time, stale period, step time and budget.                         *)
(***************************************************************************)
EXTENDS Reconciliation, TLAPS

RowType ==
  [status : Statuses, attempts : 0..MaxAttempts, manual_review : BOOLEAN,
   lease_token : Tokens \cup {None},
   lease_until : (0..(MaxTime + LeaseTime)) \cup {None}, updated_at : Times]

WorkType ==
  [step : Steps, since : Times, token : Tokens \cup {None},
   todo : SUBSET Payments, target : Payments \cup {None}, known : BOOLEAN]

LEMMA Product ==
  ASSUME NEW a \in Nat, NEW s \in Nat
  PROVE  a * s \in Nat /\ (a + 1) * s = a * s + s
OBVIOUS

LEMMA RowFields ==
  ASSUME TypeOK, NEW p \in Payments
  PROVE  /\ row[p] \in RowType
         /\ row[p].status \in Statuses /\ row[p].attempts \in 0..MaxAttempts
         /\ row[p].manual_review \in BOOLEAN
         /\ row[p].lease_token \in Tokens \cup {None}
         /\ row[p].lease_until \in (0..(MaxTime + LeaseTime)) \cup {None}
         /\ row[p].updated_at \in Times
         /\ row[p].lease_token = None <=> row[p].lease_until = None
<1>1. row[p] \in RowType
  BY DEF TypeOK, RowType
<1>2. row[p].lease_token = None <=> row[p].lease_until = None
  BY DEF TypeOK
<1>3. QED
  BY <1>1, <1>2 DEF RowType

LEMMA WorkFields ==
  ASSUME TypeOK, NEW w \in Workers
  PROVE  /\ work[w] \in WorkType
         /\ work[w].step \in Steps /\ work[w].since \in Times
         /\ work[w].token \in Tokens \cup {None}
         /\ work[w].todo \subseteq Payments
         /\ work[w].target \in Payments \cup {None}
<1>1. work[w] \in WorkType
  BY DEF TypeOK, WorkType
<1>2. QED
  BY <1>1 DEF WorkType

-----------------------------------------------------------------------------
(* The invariant.                                                          *)

WorkInv(w) ==
  /\ IF work[w].step = "claim" THEN work[w].token = None
                              ELSE work[w].token \in Tokens
  /\ work[w].step \in {"lookup", "persist"} => work[w].target \in Payments
  /\ work[w].since <= now
  /\ work[w].step # "claim" => now <= work[w].since + StepTime

TokensDiffer ==
  \A v, w \in Workers :
    v # w /\ work[v].token # None => work[v].token # work[w].token

\* Every attempt has its StaleAfter, and so has the lease of the next one.
RowInv(p) ==
  /\ row[p].updated_at <= now
  /\ row[p].status = "pending" =>
       /\ row[p].lease_token = None
       /\ row[p].attempts = 0 /\ ~row[p].manual_review
  /\ row[p].status # "pending" =>
       /\ unknown_since[p] \in Nat
       /\ unknown_since[p] + row[p].attempts * StaleAfter <= row[p].updated_at
  /\ Open(p) => row[p].attempts < MaxAttempts
  /\ Open(p) /\ row[p].lease_token # None =>
       unknown_since[p] + row[p].attempts * StaleAfter + StaleAfter
         <= row[p].updated_at
  /\ row[p].manual_review => row[p].attempts = MaxAttempts

\* Whoever holds a row has written it before its present step.
HoldInv(w, p) ==
  work[w].token # None /\ row[p].lease_token = work[w].token =>
    row[p].updated_at <= work[w].since

\* Where leases are long enough, that of a lookup lasts.
LookupInv(w) ==
  LeaseTime > 2 * StepTime /\ work[w].step = "lookup" =>
    /\ row[work[w].target].lease_token = work[w].token
    /\ row[work[w].target].lease_until # None
    /\ row[work[w].target].lease_until + StepTime >= work[w].since + LeaseTime

IInv ==
  /\ \A w \in Workers : WorkInv(w) /\ LookupInv(w)
  /\ TokensDiffer
  /\ \A p \in Payments : RowInv(p)
  /\ \A w \in Workers, p \in Payments : HoldInv(w, p)

LEMMA InitInv == Init => TypeOK /\ IInv
<1> SUFFICES ASSUME Init PROVE TypeOK /\ IInv
  OBVIOUS
<1> USE NoneAssumption, SettingsAssumption
<1>1. TypeOK
  BY DEF Init, TypeOK, Times, Statuses, Steps
<1>2. ASSUME NEW w \in Workers
      PROVE  /\ work[w].step = "claim" /\ work[w].since = 0 /\ work[w].token = None
             /\ WorkInv(w) /\ LookupInv(w)
  BY DEF Init, WorkInv, LookupInv
<1>3. TokensDiffer
  BY <1>2 DEF TokensDiffer
<1>4. ASSUME NEW p \in Payments PROVE RowInv(p)
  BY DEF Init, RowInv, Open
<1>5. QED
  BY <1>1, <1>2, <1>3, <1>4 DEF IInv, HoldInv

-----------------------------------------------------------------------------
(* The steps of a worker.                                                  *)

\* Worker w goes on to `new`, under its token or without one.
Moves(w, new) ==
  /\ work' = [work EXCEPT ![w] = new]
  /\ now' = now /\ unknown_since' = unknown_since
  /\ new \in WorkType
  /\ new.since = now
  /\ IF new.step = "claim" THEN new.token = None ELSE new.token \in Tokens
  /\ new.step \in {"lookup", "persist"} => new.target \in Payments

GoesOn(w, new) ==
  /\ Moves(w, new)
  /\ work[w].step # "claim"
  /\ new.token \in {work[w].token, None}

\* It writes row p, at s, which it holds at t.
Writes(w, p, t, s) ==
  /\ Held(w, p, t)
  /\ t \in Recent(work[w].since) /\ s \in t..now
  /\ row' = [row EXCEPT ![p] = row'[p]]
  /\ row'[p] \in RowType
  /\ row'[p].updated_at = s

Renews(w, p, t, s) ==
  /\ Writes(w, p, t, s)
  /\ row'[p].status = row[p].status /\ row'[p].attempts = row[p].attempts
  /\ row'[p].manual_review = row[p].manual_review
  /\ row'[p].lease_token = row[p].lease_token
  /\ row'[p].lease_until = t + LeaseTime

Settles(w, p, t, s) ==
  /\ Writes(w, p, t, s)
  /\ row'[p].status = "settled" /\ row'[p].attempts = row[p].attempts
  /\ row'[p].manual_review = row[p].manual_review
  /\ row'[p].lease_token = None /\ row'[p].lease_until = None

Spends(w, p, t, s) ==
  /\ Writes(w, p, t, s)
  /\ row'[p].status = row[p].status /\ row'[p].attempts = row[p].attempts + 1
  /\ row'[p].manual_review = (row[p].attempts + 1 >= MaxAttempts)
  /\ row'[p].lease_token = None /\ row'[p].lease_until = None

\* The ways in which a step that is no claim treats the rows.
Silent(w, new) == row' = row /\ new.step # "lookup"

Renewal(w, new) ==
  /\ work[w].step = "renew" /\ new.step = "lookup" /\ new.token = work[w].token
  /\ \E t, s \in Times : Renews(w, new.target, t, s)

Resolution(w, new) ==
  /\ work[w].step = "persist" /\ new.step \in {"claim", "renew"}
  /\ \E t, s \in Times :
       \/ Settles(w, work[w].target, t, s)
       \/ Spends(w, work[w].target, t, s)

LEMMA RecentTimes ==
  ASSUME TypeOK, NEW w \in Workers, NEW t \in Recent(work[w].since)
  PROVE  /\ t \in Times /\ work[w].since <= t /\ t <= now /\ now <= t + StepTime
         /\ \A s \in t..now : s \in Times /\ t <= s /\ s <= now
         /\ t + LeaseTime \in 0..(MaxTime + LeaseTime)
<1>1. work[w].since \in Times /\ now \in Times
  BY WorkFields DEF TypeOK
<1>2. QED
  BY <1>1, SettingsAssumption DEF Recent, Times

LEMMA NextPaymentGoesOn ==
  ASSUME TypeOK, IInv, NEW w \in Workers, NEW todo \in SUBSET Payments,
         NextPayment(w, todo), work[w].step # "claim",
         now' = now, unknown_since' = unknown_since
  PROVE  \E new \in WorkType : GoesOn(w, new) /\ new.step \in {"claim", "renew"}
<1>1. work[w].token \in Tokens /\ now \in Times
  BY DEF IInv, WorkInv, TypeOK
<1>2. ASSUME NEW new, work' = [work EXCEPT ![w] = new], new \in WorkType,
             new.since = now, new.step \in {"claim", "renew"},
             new.token \in {work[w].token, None},
             IF new.step = "claim" THEN new.token = None ELSE new.token \in Tokens
      PROVE  \E n \in WorkType : GoesOn(w, n) /\ n.step \in {"claim", "renew"}
  <2>1. GoesOn(w, new)
    BY <1>2 DEF GoesOn, Moves
  <2>2. QED
    BY <1>2, <2>1
<1>3. CASE todo = {}
  <2>1. work' = [work EXCEPT ![w] = Resting]
    BY <1>3 DEF NextPayment
  <2>2. Resting \in WorkType /\ Resting.since = now /\ Resting.step = "claim"
        /\ Resting.token = None
    BY <1>1 DEF Resting, WorkType, Steps
  <2>3. QED
    BY <1>2, <2>1, <2>2
<1>4. CASE todo # {}
  <2> DEFINE new == [Resting EXCEPT !.step = "renew", !.token = work[w].token,
                                    !.todo = todo]
  <2>1. work' = [work EXCEPT ![w] = new]
    BY <1>4 DEF NextPayment
  <2>2. Resting \in WorkType /\ Resting.since = now
    BY <1>1 DEF Resting, WorkType, Steps
  <2>3. new \in WorkType /\ new.since = now /\ new.step = "renew"
        /\ new.token = work[w].token
    BY <1>1, <2>2 DEF WorkType, Steps
  <2> HIDE DEF new
  <2>4. QED
    BY <1>1, <1>2, <2>1, <2>3
<1>5. QED
  BY <1>3, <1>4

LEMMA WorkerKinds ==
  ASSUME TypeOK, IInv, NEW w \in Workers,
         \/ RenewClaim(w) \/ LookupProvider(w) \/ PersistResolution(w)
         \/ StepFails(w)
  PROVE  \E new \in WorkType :
           /\ GoesOn(w, new)
           /\ Silent(w, new) \/ Renewal(w, new) \/ Resolution(w, new)
<1>1. now \in Times /\ work[w] \in WorkType
  BY WorkFields DEF TypeOK
<1>2. CASE LookupProvider(w)
  <2>1. PICK known \in BOOLEAN :
          work' = [work EXCEPT ![w] = [work[w] EXCEPT !.step = "persist",
                                                      !.since = now, !.known = known]]
    BY <1>2 DEF LookupProvider
  <2> DEFINE new == [work[w] EXCEPT !.step = "persist", !.since = now, !.known = known]
  <2>2. new \in WorkType /\ new.step = "persist" /\ new.since = now
        /\ new.token = work[w].token /\ new.target = work[w].target
    BY <1>1 DEF WorkType, Steps
  <2>3. work[w].step = "lookup" /\ work[w].token \in Tokens
        /\ work[w].target \in Payments
    BY <1>2 DEF LookupProvider, IInv, WorkInv
  <2>4. GoesOn(w, new) /\ Silent(w, new)
    BY <1>2, <2>1, <2>2, <2>3 DEF LookupProvider, GoesOn, Moves, Silent
  <2>5. QED
    BY <2>2, <2>4
<1>3. CASE StepFails(w)
  <2>1. work[w].todo \subseteq Payments
    BY WorkFields
  <2>2. PICK todo \in SUBSET Payments : NextPayment(w, todo)
    <3>1. \/ \E p \in work[w].todo : NextPayment(w, work[w].todo \ {p})
          \/ NextPayment(w, work[w].todo) \/ NextPayment(w, {})
      BY <1>3 DEF StepFails
    <3>2. QED
      BY <2>1, <3>1
  <2>3. work[w].step # "claim" /\ now' = now /\ unknown_since' = unknown_since
        /\ row' = row
    BY <1>3 DEF StepFails
  <2>4. QED
    BY <2>2, <2>3, NextPaymentGoesOn DEF Silent
<1>4. CASE RenewClaim(w)
  <2>1. work[w].step = "renew" /\ now' = now /\ unknown_since' = unknown_since
        /\ work[w].todo \subseteq Payments /\ work[w].token \in Tokens
    BY <1>4, WorkFields DEF RenewClaim, IInv, WorkInv
  <2>2. PICK p \in work[w].todo, t \in Recent(work[w].since) :
          \/ /\ Held(w, p, t)
             /\ \E s \in t..now :
                  row' = [row EXCEPT ![p].lease_until = t + LeaseTime,
                                     ![p].updated_at = s]
             /\ work' = [work EXCEPT ![w] =
                  [work[w] EXCEPT !.step = "lookup", !.since = now,
                                  !.todo = work[w].todo \ {p}, !.target = p]]
          \/ /\ ~Held(w, p, t)
             /\ NextPayment(w, work[w].todo \ {p})
             /\ UNCHANGED row
    BY <1>4 DEF RenewClaim
  <2>3. CASE ~Held(w, p, t)
    <3>1. work[w].todo \ {p} \in SUBSET Payments
      BY <2>1
    <3>2. QED
      BY <2>1, <2>2, <2>3, <3>1, NextPaymentGoesOn DEF Silent
  <2>4. CASE Held(w, p, t)
    <3>1. PICK s \in t..now :
            row' = [row EXCEPT ![p].lease_until = t + LeaseTime, ![p].updated_at = s]
      BY <2>2, <2>4
    <3> DEFINE new == [work[w] EXCEPT !.step = "lookup", !.since = now,
                                      !.todo = work[w].todo \ {p}, !.target = p]
    <3>2. new \in WorkType /\ new.step = "lookup" /\ new.since = now
          /\ new.token = work[w].token /\ new.target = p
      BY <1>1, <2>1 DEF WorkType, Steps
    <3>3. GoesOn(w, new)
      BY <2>1, <2>2, <2>4, <3>2 DEF GoesOn, Moves
    <3>4. t \in Times /\ s \in Times /\ t + LeaseTime \in 0..(MaxTime + LeaseTime)
      BY RecentTimes
    <3>5. Renews(w, p, t, s)
      <4> DEFINE until == t + LeaseTime
      <4>1. row[p] \in RowType /\ p \in Payments
        BY <2>1, RowFields
      <4>2. until \in 0..(MaxTime + LeaseTime)
        BY <3>4
      <4>3. row' = [row EXCEPT ![p].lease_until = until, ![p].updated_at = s]
        BY <3>1
      <4> HIDE DEF until
      <4>4. /\ row'[p] = [row[p] EXCEPT !.lease_until = until, !.updated_at = s]
            /\ row' = [row EXCEPT ![p] = row'[p]]
        BY <4>1, <4>3 DEF TypeOK
      <4>5. row'[p] \in RowType
        BY <3>4, <4>1, <4>2, <4>4 DEF RowType
      <4>6. /\ row'[p].status = row[p].status /\ row'[p].attempts = row[p].attempts
            /\ row'[p].manual_review = row[p].manual_review
            /\ row'[p].lease_token = row[p].lease_token
            /\ row'[p].lease_until = until /\ row'[p].updated_at = s
        BY <4>1, <4>4 DEF RowType
      <4>7. QED
        BY <2>4, <4>4, <4>5, <4>6 DEF Renews, Writes, until
    <3> HIDE DEF new
    <3>6. Renewal(w, new)
      BY <2>1, <3>2, <3>4, <3>5 DEF Renewal
    <3>7. QED
      BY <3>2, <3>3, <3>6
  <2>5. QED
    BY <2>3, <2>4
<1>5. CASE PersistResolution(w)
  <2> DEFINE p == work[w].target
  <2>1. work[w].step = "persist" /\ now' = now /\ unknown_since' = unknown_since
        /\ p \in Payments /\ work[w].todo \in SUBSET Payments
    BY <1>5, WorkFields DEF PersistResolution, IInv, WorkInv
  <2>2. PICK new \in WorkType : GoesOn(w, new) /\ new.step \in {"claim", "renew"}
    BY <1>5, <2>1, NextPaymentGoesOn DEF PersistResolution
  <2>3. CASE row' = row
    BY <2>2, <2>3 DEF Silent
  <2>4. CASE row' # row
    <3>1. PICK t \in Recent(work[w].since) :
            /\ Held(w, p, t)
            /\ \E s \in t..now :
                 row' = [row EXCEPT ![p] = Persisted(row[p], work[w].known, s)]
      BY <1>5, <2>4 DEF PersistResolution
    <3>2. PICK s \in t..now :
            row' = [row EXCEPT ![p] = Persisted(row[p], work[w].known, s)]
      BY <3>1
    <3>3. t \in Times /\ s \in Times
      BY RecentTimes
    <3>4. row[p] \in RowType /\ Open(p) /\ row[p].attempts \in Nat
          /\ row[p].attempts + 1 \in 0..MaxAttempts
      <4>1. row[p].attempts < MaxAttempts /\ row[p].attempts \in 0..MaxAttempts
            /\ Open(p)
        BY <2>1, <3>1, RowFields DEF Held, IInv, RowInv
      <4>2. QED
        BY <2>1, <4>1, RowFields, SettingsAssumption
    <3>5. row'[p] = Persisted(row[p], work[w].known, s)
          /\ row' = [row EXCEPT ![p] = row'[p]]
      BY <2>1, <3>2 DEF TypeOK
    <3> DEFINE n == row[p].attempts + 1
               review == n >= MaxAttempts
    <3>6. CASE work[w].known
      <4>1. row'[p] = [row[p] EXCEPT !.status = "settled", !.lease_token = None,
                                     !.lease_until = None, !.updated_at = s]
        BY <3>5, <3>6 DEF Persisted
      <4>2. row'[p] \in RowType
        BY <3>3, <3>4, <4>1 DEF RowType, Statuses
      <4>3. Settles(w, p, t, s)
        BY <3>1, <3>4, <3>5, <4>1, <4>2 DEF Settles, Writes, RowType
      <4>4. QED
        BY <2>1, <2>2, <3>3, <4>3 DEF Resolution
    <3>7. CASE ~work[w].known
      <4>1. n \in 0..MaxAttempts /\ review \in BOOLEAN
        BY <3>4
      <4>2. row'[p] = [row[p] EXCEPT !.attempts = n, !.manual_review = review,
                         !.lease_token = None, !.lease_until = None, !.updated_at = s]
        BY <3>5, <3>7 DEF Persisted
      <4>3. n = row[p].attempts + 1 /\ review = (row[p].attempts + 1 >= MaxAttempts)
        OBVIOUS
      <4> HIDE DEF n, review
      <4>4. row'[p] \in RowType
        BY <3>3, <3>4, <4>1, <4>2 DEF RowType
      <4>5. /\ row'[p].status = row[p].status /\ row'[p].attempts = n
            /\ row'[p].manual_review = review /\ row'[p].updated_at = s
            /\ row'[p].lease_token = None /\ row'[p].lease_until = None
        BY <3>4, <4>2 DEF RowType
      <4>6. Spends(w, p, t, s)
        BY <3>1, <3>5, <4>3, <4>4, <4>5 DEF Spends, Writes
      <4>7. QED
        BY <2>1, <2>2, <3>3, <4>6 DEF Resolution
    <3>8. QED
      BY <3>6, <3>7
  <2>5. QED
    BY <2>3, <2>4
<1>6. QED
  BY <1>2, <1>3, <1>4, <1>5

-----------------------------------------------------------------------------
(* What the steps leave of the invariant.                                  *)

\* The token of w, once it is another worker's neither, is w's alone.
LEMMA MovesKeeps ==
  ASSUME TypeOK, IInv, NEW w \in Workers, NEW new \in WorkType, GoesOn(w, new)
  PROVE  /\ \A v \in Workers : WorkInv(v)'
         /\ TokensDiffer'
         /\ work' \in [Workers -> WorkType]
         /\ work'[w] = new /\ \A v \in Workers \ {w} : work'[v] = work[v]
<1>1. work' \in [Workers -> WorkType] /\ work'[w] = new
      /\ \A v \in Workers \ {w} : work'[v] = work[v]
  BY DEF GoesOn, Moves, TypeOK, WorkType
<1>2. ASSUME NEW v \in Workers PROVE WorkInv(v)'
  <2>1. WorkInv(v) /\ now' = now
    BY DEF IInv, GoesOn, Moves
  <2>2. now <= now /\ now <= now + StepTime
    BY SettingsAssumption DEF TypeOK, Times
  <2>3. CASE v = w
    BY <1>1, <2>1, <2>2, <2>3 DEF GoesOn, Moves, WorkInv
  <2>4. CASE v # w
    BY <1>1, <2>1, <2>4 DEF WorkInv
  <2>5. QED
    BY <2>3, <2>4
<1>3. TokensDiffer'
  BY <1>1 DEF TokensDiffer, IInv, GoesOn
<1>4. QED
  BY <1>1, <1>2, <1>3

\* Nothing is written.
LEMMA SilentKeeps ==
  ASSUME TypeOK, IInv, NEW w \in Workers, NEW new \in WorkType,
         GoesOn(w, new), Silent(w, new)
  PROVE  TypeOK' /\ IInv'
<1>1. row' = row /\ now' = now /\ unknown_since' = unknown_since
  BY DEF Silent, GoesOn, Moves
<1>2. TypeOK'
  BY <1>1, MovesKeeps DEF TypeOK, WorkType
<1>3. ASSUME NEW p \in Payments PROVE RowInv(p)'
  BY <1>1 DEF IInv, RowInv, Open
<1>4. ASSUME NEW v \in Workers, NEW p \in Payments PROVE HoldInv(v, p)'
  <2>1. HoldInv(v, p) /\ RowInv(p)
    BY DEF IInv
  <2>2. CASE v = w
    BY <1>1, <2>1, <2>2, MovesKeeps DEF HoldInv, RowInv, GoesOn, Moves
  <2>3. CASE v # w
    BY <1>1, <2>1, <2>3, MovesKeeps DEF HoldInv
  <2>4. QED
    BY <2>2, <2>3
<1>5. ASSUME NEW v \in Workers PROVE LookupInv(v)'
  <2>1. LookupInv(v)
    BY DEF IInv
  <2>2. CASE v = w
    BY <2>2, MovesKeeps DEF LookupInv, Silent
  <2>3. CASE v # w
    BY <1>1, <2>1, <2>3, MovesKeeps DEF LookupInv
  <2>4. QED
    BY <2>2, <2>3
<1>6. QED
  BY <1>2, <1>3, <1>4, <1>5, MovesKeeps DEF IInv

\* What is common to the steps that write a row.
LEMMA WritesKeeps ==
  ASSUME TypeOK, IInv, NEW w \in Workers, NEW new \in WorkType, GoesOn(w, new),
         NEW p \in Payments, NEW t \in Times, NEW s \in Times, Writes(w, p, t, s),
         (row'[p].lease_token = None) <=> (row'[p].lease_until = None)
  PROVE  /\ TypeOK'
         /\ \A q \in Payments \ {p} : row'[q] = row[q] /\ RowInv(q)'
         /\ Open(p) /\ row[p].lease_token = work[w].token /\ work[w].token \in Tokens
         /\ row[p].updated_at <= s /\ s <= now' /\ s \in Nat
         /\ unknown_since' = unknown_since
         /\ \A v \in Workers, q \in Payments : HoldInv(v, q)' \/
              (v # w /\ q = p /\ row'[p].lease_token = work[v].token)
<1>1. now' = now /\ unknown_since' = unknown_since /\ work[w].step # "claim"
  BY DEF GoesOn, Moves
<1>2. row'[p] \in RowType /\ row' \in [Payments -> RowType]
      /\ \A q \in Payments \ {p} : row'[q] = row[q]
  BY DEF Writes, TypeOK, RowType
<1>3. TypeOK'
  BY <1>1, <1>2, MovesKeeps DEF TypeOK, RowType, WorkType
<1>4. Open(p) /\ row[p].lease_token = work[w].token /\ work[w].token \in Tokens
  BY <1>1 DEF Writes, Held, IInv, WorkInv
<1>5. work[w].since <= s /\ s <= now /\ s \in Nat /\ row[p].updated_at <= s
  <2>1. work[w].since <= t /\ t <= s /\ s <= now
    BY RecentTimes DEF Writes
  <2>2. row[p].updated_at <= work[w].since
    BY <1>4, NoneAssumption DEF IInv, HoldInv
  <2>3. QED
    BY <2>1, <2>2, WorkFields, RowFields DEF Times
<1>6. ASSUME NEW q \in Payments \ {p} PROVE RowInv(q)'
  <2>1. RowInv(q) /\ row'[q] = row[q]
    BY <1>2 DEF IInv
  <2>2. QED
    BY <1>1, <2>1 DEF RowInv, Open
<1>7. ASSUME NEW v \in Workers, NEW q \in Payments
      PROVE  HoldInv(v, q)' \/ (v # w /\ q = p /\ row'[p].lease_token = work[v].token)
  <2>1. HoldInv(v, q) /\ RowInv(q)
    BY DEF IInv
  <2>2. CASE q # p /\ v # w
    BY <1>2, <2>1, <2>2, MovesKeeps DEF HoldInv
  <2>3. CASE q # p /\ v = w
    <3>1. work'[w].since = now /\ row'[q] = row[q] /\ row[q].updated_at <= now
      BY <1>2, <2>1, <2>3, MovesKeeps DEF RowInv, GoesOn, Moves
    <3>2. QED
      BY <2>3, <3>1 DEF HoldInv
  <2>4. CASE q = p /\ v = w
    <3>1. work'[w].since = now /\ row'[p].updated_at <= now
      BY <1>5, MovesKeeps DEF GoesOn, Moves, Writes
    <3>2. QED
      BY <2>4, <3>1 DEF HoldInv
  <2>5. CASE q = p /\ v # w
    BY <2>5, MovesKeeps DEF HoldInv
  <2>6. QED
    BY <2>2, <2>3, <2>4, <2>5
<1>8. QED
  BY <1>1, <1>2, <1>3, <1>4, <1>5, <1>6, <1>7

LEMMA RenewalKeeps ==
  ASSUME TypeOK, IInv, NEW w \in Workers, NEW new \in WorkType,
         GoesOn(w, new), Renewal(w, new)
  PROVE  TypeOK' /\ IInv'
<1> DEFINE p == new.target
<1>1. PICK t \in Times, s \in Times : Renews(w, p, t, s)
  BY DEF Renewal
<1>2. p \in Payments /\ new.step = "lookup" /\ new.token = work[w].token
      /\ new.since = now /\ now' = now
  BY DEF Renewal, GoesOn, Moves
<1> HIDE DEF p
<1>3. /\ Writes(w, p, t, s)
      /\ row'[p].lease_token = row[p].lease_token
      /\ row'[p].lease_until = t + LeaseTime /\ t + LeaseTime \in Nat
  BY <1>1, SettingsAssumption DEF Renews, Times
<1>4. row[p].lease_token \in Tokens
  BY <1>3 DEF Writes, Held, IInv, WorkInv, GoesOn
<1>5. row'[p].lease_token # None /\ row'[p].lease_until # None
  BY <1>3, <1>4, NoneAssumption
<1>6. /\ TypeOK'
      /\ \A q \in Payments \ {p} : row'[q] = row[q] /\ RowInv(q)'
      /\ Open(p) /\ row[p].lease_token = work[w].token /\ work[w].token \in Tokens
      /\ row[p].updated_at <= s /\ s <= now' /\ s \in Nat
      /\ unknown_since' = unknown_since
      /\ \A v \in Workers, q \in Payments : HoldInv(v, q)' \/
           (v # w /\ q = p /\ row'[p].lease_token = work[v].token)
  BY <1>2, <1>3, <1>5, WritesKeeps
<1>7. RowInv(p)'
  <2>1. RowInv(p) /\ row'[p].updated_at = s
    BY <1>2, <1>3 DEF IInv, Writes
  <2>2. /\ unknown_since[p] \in Nat /\ row[p].attempts \in Nat
        /\ row[p].updated_at \in Nat
        /\ row[p].attempts * StaleAfter \in Nat
    BY <1>2, <1>6, <2>1, RowFields, SettingsAssumption, Product DEF RowInv, Open, Times
  <2>3. unknown_since[p] + row[p].attempts * StaleAfter + StaleAfter <= s
        /\ unknown_since[p] + row[p].attempts * StaleAfter <= s
    <3>1. unknown_since[p] + row[p].attempts * StaleAfter + StaleAfter
            <= row[p].updated_at
      BY <1>4, <1>6, <2>1, NoneAssumption DEF RowInv
    <3>2. QED
      BY <1>6, <2>2, <3>1, SettingsAssumption
  <2>4. QED
    BY <1>1, <1>6, <2>1, <2>2, <2>3 DEF Renews, RowInv, Open
<1>8. ASSUME NEW v \in Workers, v # w PROVE work[v].token # work[w].token
  BY <1>6, <1>8, NoneAssumption DEF IInv, TokensDiffer
<1>9. ASSUME NEW v \in Workers PROVE LookupInv(v)'
  <2>1. CASE v = w
    <3>1. t \in Nat /\ now \in Nat /\ now <= t + StepTime
      BY <1>3, RecentTimes DEF Writes, TypeOK, Times
    <3>2. t + LeaseTime + StepTime >= now + LeaseTime
      BY <3>1, SettingsAssumption
    <3>3. work'[w] = new
      BY MovesKeeps
    <3>4. QED
      BY <1>2, <1>3, <1>5, <1>6, <2>1, <3>2, <3>3 DEF LookupInv, p
  <2>2. CASE v # w
    <3>1. LookupInv(v) /\ work'[v] = work[v] /\ WorkInv(v)
      BY <2>2, MovesKeeps DEF IInv
    <3>2. CASE work[v].target = p
      <4>1. ~(LeaseTime > 2 * StepTime /\ work[v].step = "lookup")
        BY <1>6, <1>8, <2>2, <3>1, <3>2 DEF LookupInv
      <4>2. QED
        BY <3>1, <4>1 DEF LookupInv
    <3>3. CASE work[v].target # p
      <4>1. work[v].step = "lookup" => row'[work[v].target] = row[work[v].target]
        BY <1>6, <3>1, <3>3 DEF WorkInv
      <4>2. QED
        BY <3>1, <4>1 DEF LookupInv
    <3>4. QED
      BY <3>2, <3>3
  <2>3. QED
    BY <2>1, <2>2
<1>10. ASSUME NEW v \in Workers, NEW q \in Payments PROVE HoldInv(v, q)'
  BY <1>3, <1>6, <1>8
<1>11. ASSUME NEW q \in Payments PROVE RowInv(q)'
  BY <1>6, <1>7
<1>12. QED
  BY <1>6, <1>9, <1>10, <1>11, MovesKeeps DEF IInv

LEMMA ResolutionKeeps ==
  ASSUME TypeOK, IInv, NEW w \in Workers, NEW new \in WorkType,
         GoesOn(w, new), Resolution(w, new)
  PROVE  TypeOK' /\ IInv'
<1>0. PICK p : p = work[w].target
  OBVIOUS
<1>1. PICK t \in Times, s \in Times : Settles(w, p, t, s) \/ Spends(w, p, t, s)
  BY <1>0 DEF Resolution
<1>2. p \in Payments /\ new.step # "lookup" /\ work[w].step = "persist"
      /\ new.since = now /\ now' = now
  BY <1>0 DEF Resolution, GoesOn, Moves, IInv, WorkInv
<1>3. /\ Writes(w, p, t, s)
      /\ row'[p].lease_token = None /\ row'[p].lease_until = None
  BY <1>1 DEF Settles, Spends
<1>4. /\ TypeOK'
      /\ \A q \in Payments \ {p} : row'[q] = row[q] /\ RowInv(q)'
      /\ Open(p) /\ row[p].lease_token = work[w].token /\ work[w].token \in Tokens
      /\ row[p].updated_at <= s /\ s <= now' /\ s \in Nat
      /\ unknown_since' = unknown_since
      /\ \A v \in Workers, q \in Payments : HoldInv(v, q)' \/
           (v # w /\ q = p /\ row'[p].lease_token = work[v].token)
  BY <1>2, <1>3, WritesKeeps
<1>5. RowInv(p)'
  <2>1. RowInv(p) /\ row'[p].updated_at = s
    BY <1>2, <1>3 DEF IInv, Writes
  <2>2. /\ unknown_since[p] \in Nat /\ row[p].attempts \in Nat
        /\ row[p].updated_at \in Nat
        /\ row[p].attempts * StaleAfter \in Nat
        /\ row[p].attempts < MaxAttempts
        /\ (row[p].attempts + 1) * StaleAfter = row[p].attempts * StaleAfter + StaleAfter
        /\ row[p].status = "unknown" /\ ~row[p].manual_review
    BY <1>2, <1>4, <2>1, RowFields, SettingsAssumption, Product DEF RowInv, Open, Times
  <2>3. unknown_since[p] + row[p].attempts * StaleAfter + StaleAfter <= s
        /\ unknown_since[p] + row[p].attempts * StaleAfter <= s
    <3>1. unknown_since[p] + row[p].attempts * StaleAfter + StaleAfter
            <= row[p].updated_at
      BY <1>4, <2>1, NoneAssumption DEF RowInv
    <3>2. QED
      BY <1>4, <2>2, <3>1, SettingsAssumption
  <2>4. CASE Settles(w, p, t, s)
    BY <1>4, <2>1, <2>2, <2>3, <2>4 DEF Settles, RowInv, Open
  <2>5. CASE Spends(w, p, t, s)
    <3> DEFINE n == row[p].attempts + 1
               spent == n * StaleAfter
    <3>1. n \in Nat /\ n <= MaxAttempts /\ (n >= MaxAttempts <=> n = MaxAttempts)
          /\ (n < MaxAttempts <=> ~(n >= MaxAttempts))
      <4>1. row[p].attempts \in Nat /\ row[p].attempts < MaxAttempts
            /\ MaxAttempts \in Nat
        BY <2>2, SettingsAssumption
      <4>2. QED
        BY <4>1
    <3>2. unknown_since[p] + spent <= s
      BY <2>2, <2>3, SettingsAssumption
    <3>3. row'[p].status = "unknown" /\ row'[p].attempts = n
          /\ row'[p].manual_review = (n >= MaxAttempts)
      BY <2>2, <2>5 DEF Spends
    <3> HIDE DEF n
    <3>4. row'[p].attempts * StaleAfter = spent
      BY <3>3
    <3> HIDE DEF spent
    <3>5. QED
      BY <1>3, <1>4, <2>1, <2>2, <3>1, <3>2, <3>3, <3>4 DEF RowInv, Open
  <2>6. QED
    BY <1>1, <2>4, <2>5
<1>6. ASSUME NEW v \in Workers PROVE LookupInv(v)'
  <2>1. CASE v = w
    BY <1>2, <2>1, MovesKeeps DEF LookupInv
  <2>2. CASE v # w
    <3>1. LookupInv(v) /\ work'[v] = work[v] /\ WorkInv(v)
      BY <2>2, MovesKeeps DEF IInv
    <3>2. work[v].token # work[w].token
      BY <1>4, <2>2, NoneAssumption DEF IInv, TokensDiffer
    <3>3. CASE work[v].target = p
      <4>1. ~(LeaseTime > 2 * StepTime /\ work[v].step = "lookup")
        BY <1>4, <3>1, <3>2, <3>3 DEF LookupInv
      <4>2. QED
        BY <3>1, <4>1 DEF LookupInv
    <3>4. CASE work[v].target # p
      <4>1. work[v].step = "lookup" => row'[work[v].target] = row[work[v].target]
        BY <1>4, <3>1, <3>4 DEF WorkInv
      <4>2. QED
        BY <3>1, <4>1 DEF LookupInv
    <3>5. QED
      BY <3>3, <3>4
  <2>3. QED
    BY <2>1, <2>2
<1>7. ASSUME NEW v \in Workers, NEW q \in Payments PROVE HoldInv(v, q)'
  <2>1. CASE HoldInv(v, q)'
    BY <2>1
  <2>2. CASE q = p /\ v # w
    <3>1. work'[v] = work[v]
      BY <2>2, MovesKeeps
    <3>2. QED
      BY <1>3, <2>2, <3>1 DEF HoldInv
  <2>3. QED
    BY <1>4, <2>1, <2>2
<1>8. ASSUME NEW q \in Payments PROVE RowInv(q)'
  BY <1>4, <1>5
<1>9. QED
  BY <1>4, <1>6, <1>7, <1>8, MovesKeeps DEF IInv

LEMMA ClaimKeeps ==
  ASSUME TypeOK, IInv, NEW w \in Workers, ClaimBatch(w)
  PROVE  TypeOK' /\ IInv'
<1>0. PICK t \in Recent(work[w].since), k \in FreshTokens :
        \E s \in t..now, b \in SUBSET {p \in Payments : Claimable(p, t)} :
          /\ b # {}
          /\ Cardinality(b) <= BatchSize
          /\ row' = [p \in Payments |->
               IF p \in b THEN [row[p] EXCEPT !.lease_token = k,
                                              !.lease_until = t + LeaseTime,
                                              !.updated_at = s]
                          ELSE row[p]]
          /\ work' = [work EXCEPT ![w] =
               [step |-> "renew", since |-> now, token |-> k, todo |-> b,
                target |-> None, known |-> FALSE]]
  BY DEF ClaimBatch
<1>1. PICK s \in t..now, b \in SUBSET {p \in Payments : Claimable(p, t)} :
        /\ row' = [p \in Payments |->
             IF p \in b THEN [row[p] EXCEPT !.lease_token = k,
                                            !.lease_until = t + LeaseTime,
                                            !.updated_at = s]
                        ELSE row[p]]
        /\ work' = [work EXCEPT ![w] =
             [step |-> "renew", since |-> now, token |-> k, todo |-> b,
              target |-> None, known |-> FALSE]]
  BY <1>0
<1>2. now' = now /\ unknown_since' = unknown_since
  BY DEF ClaimBatch
<1>3. /\ t \in Times /\ s \in Times /\ now \in Times
      /\ t \in Nat /\ s \in Nat /\ now \in Nat
      /\ t <= s /\ s <= now /\ t <= now
      /\ t + LeaseTime \in 0..(MaxTime + LeaseTime)
  <2>1. /\ t \in Times /\ s \in Times /\ t <= now /\ t <= s /\ s <= now
        /\ t + LeaseTime \in 0..(MaxTime + LeaseTime)
    BY RecentTimes
  <2>2. now \in Times
    BY DEF TypeOK
  <2>3. QED
    BY <2>1, <2>2 DEF Times
<1>4. /\ k \in Tokens /\ k # None
      /\ \A p \in Payments : row[p].lease_token # k
      /\ \A v \in Workers : work[v].token # k
  BY NoneAssumption DEF FreshTokens
<1> DEFINE new == [step |-> "renew", since |-> now, token |-> k, todo |-> b,
                   target |-> None, known |-> FALSE]
<1>5. new \in WorkType /\ new.step = "renew" /\ new.since = now /\ new.token = k
  BY <1>3, <1>4 DEF WorkType, Steps
<1> HIDE DEF new
<1>6. /\ work' \in [Workers -> WorkType] /\ work'[w] = new
      /\ \A v \in Workers \ {w} : work'[v] = work[v]
  BY <1>1, <1>5 DEF TypeOK, WorkType, new
<1> DEFINE until == t + LeaseTime
<1>7. ASSUME NEW q \in b
      PROVE  /\ Claimable(q, t) /\ q \in Payments /\ row'[q] \in RowType
             /\ row'[q].status = row[q].status /\ row'[q].attempts = row[q].attempts
             /\ row'[q].manual_review = row[q].manual_review
             /\ row'[q].lease_token = k /\ row'[q].lease_until = until
             /\ row'[q].updated_at = s
  <2>1. Claimable(q, t) /\ q \in Payments
    BY <1>1
  <2>4. row[q] \in RowType /\ until \in 0..(MaxTime + LeaseTime)
    BY <1>3, <2>1, RowFields
  <2>2. row'[q] = [row[q] EXCEPT !.lease_token = k, !.lease_until = until,
                                 !.updated_at = s]
    BY <1>1, <2>1
  <2> HIDE DEF until
  <2>3. QED
    BY <1>3, <1>4, <2>1, <2>2, <2>4 DEF RowType
<1>8. ASSUME NEW q \in Payments \ b PROVE row'[q] = row[q]
  BY <1>1
<1>9. until \in Nat
  BY <1>3, SettingsAssumption
<1> HIDE DEF until
<1>10. TypeOK'
  <2>1. row' \in [Payments -> RowType]
    <3>1. ASSUME NEW q \in Payments PROVE row'[q] \in RowType
      BY <1>7, <1>8, RowFields
    <3>2. row' = [q \in Payments |-> row'[q]]
      BY <1>1
    <3>3. QED
      BY <3>1, <3>2
  <2>2. ASSUME NEW q \in Payments
        PROVE  (row'[q].lease_token = None) <=> (row'[q].lease_until = None)
    BY <1>4, <1>7, <1>8, <1>9, NoneAssumption, RowFields
  <2>3. QED
    BY <1>2, <1>6, <2>1, <2>2 DEF TypeOK, RowType, WorkType
<1>11. ASSUME NEW v \in Workers PROVE WorkInv(v)'
  <2>1. WorkInv(v)
    BY DEF IInv
  <2>2. now <= now + StepTime
    BY <1>3, SettingsAssumption
  <2>3. CASE v = w
    BY <1>2, <1>3, <1>4, <1>5, <1>6, <2>2, <2>3 DEF WorkInv
  <2>4. CASE v # w
    BY <1>2, <1>6, <2>1, <2>4 DEF WorkInv
  <2>5. QED
    BY <2>3, <2>4
<1>12. TokensDiffer'
  BY <1>4, <1>5, <1>6 DEF TokensDiffer, IInv
<1>13. ASSUME NEW q \in Payments PROVE RowInv(q)'
  <2>1. RowInv(q)
    BY DEF IInv
  <2>2. CASE q \in b
    <3>1. /\ Open(q) /\ row[q].updated_at + StaleAfter <= t
          /\ row[q].status = "unknown" /\ ~row[q].manual_review
          /\ row[q].attempts < MaxAttempts
      BY <1>7, <2>1, <2>2 DEF Claimable, Open, RowInv
    <3> DEFINE spent == row[q].attempts * StaleAfter
    <3>2. /\ unknown_since[q] \in Nat /\ row[q].updated_at \in Nat
          /\ spent \in Nat /\ StaleAfter \in Nat
          /\ unknown_since[q] + spent <= row[q].updated_at
      BY <2>1, <3>1, RowFields, SettingsAssumption, Product DEF RowInv, Times
    <3>3. row'[q].attempts * StaleAfter = spent
      BY <1>7, <2>2
    <3> HIDE DEF spent
    <3>4. unknown_since[q] + spent <= s /\ unknown_since[q] + spent + StaleAfter <= s
      BY <1>3, <3>1, <3>2
    <3>5. QED
      BY <1>2, <1>3, <1>7, <2>2, <3>1, <3>2, <3>3, <3>4 DEF RowInv, Open
  <2>3. CASE q \notin b
    BY <1>2, <1>8, <2>1, <2>3 DEF RowInv, Open
  <2>4. QED
    BY <2>2, <2>3
<1>14. ASSUME NEW v \in Workers, NEW q \in Payments PROVE HoldInv(v, q)'
  <2>1. HoldInv(v, q) /\ RowInv(q)
    BY DEF IInv
  <2>2. CASE v = w
    <3>1. row'[q].updated_at <= now
      BY <1>3, <1>7, <1>8, <2>1 DEF RowInv
    <3>2. QED
      BY <1>5, <1>6, <2>2, <3>1 DEF HoldInv
  <2>3. CASE v # w
    BY <1>4, <1>6, <1>7, <1>8, <2>1, <2>3 DEF HoldInv
  <2>4. QED
    BY <2>2, <2>3
<1>15. ASSUME NEW v \in Workers PROVE LookupInv(v)'
  <2>1. CASE v = w
    BY <1>5, <1>6, <2>1 DEF LookupInv
  <2>2. CASE v # w
    <3>1. LookupInv(v) /\ WorkInv(v) /\ work'[v] = work[v]
      BY <1>6, <2>2 DEF IInv
    <3>2. SUFFICES ASSUME LeaseTime > 2 * StepTime, work[v].step = "lookup"
                   PROVE  row'[work[v].target] = row[work[v].target]
      BY <3>1 DEF LookupInv
    <3> DEFINE p == work[v].target
    <3>3. p \in Payments /\ now <= work[v].since + StepTime
      BY <3>1, <3>2 DEF WorkInv
    <3>4. row[p].lease_until # None
          /\ row[p].lease_until + StepTime >= work[v].since + LeaseTime
      BY <3>1, <3>2 DEF LookupInv
    <3>5. row[p].lease_until \in Nat /\ work[v].since \in Nat
      BY <3>3, <3>4, RowFields, WorkFields, SettingsAssumption DEF Times
    <3>6. ~(row[p].lease_until <= t)
      BY <1>3, <3>2, <3>3, <3>4, <3>5, SettingsAssumption
    <3>7. p \notin b
      BY <1>7, <3>4, <3>6 DEF Claimable
    <3>8. QED
      BY <1>8, <3>3, <3>7
  <2>3. QED
    BY <2>1, <2>2
<1>16. QED
  BY <1>10, <1>11, <1>12, <1>13, <1>14, <1>15 DEF IInv

LEMMA UnknownKeeps ==
  ASSUME TypeOK, IInv, NEW p \in Payments, BecomesUnknown(p)
  PROVE  TypeOK' /\ IInv'
<1>1. PICK s \in Recent(0) :
        /\ row' = [row EXCEPT ![p].status = "unknown", ![p].updated_at = s]
        /\ unknown_since' = [unknown_since EXCEPT ![p] = s]
  BY DEF BecomesUnknown
<1>2. now' = now /\ work' = work /\ row[p].status = "pending"
  BY DEF BecomesUnknown
<1>3. s \in Times /\ s \in Nat /\ s <= now
  BY SettingsAssumption DEF Recent, TypeOK, Times
<1>4. /\ row'[p] = [row[p] EXCEPT !.status = "unknown", !.updated_at = s]
      /\ \A q \in Payments \ {p} : row'[q] = row[q]
      /\ unknown_since'[p] = s
      /\ \A q \in Payments \ {p} : unknown_since'[q] = unknown_since[q]
  BY <1>1 DEF TypeOK
<1>5. /\ row'[p] \in RowType
      /\ row'[p].status = "unknown" /\ row'[p].updated_at = s
      /\ row'[p].attempts = row[p].attempts
      /\ row'[p].manual_review = row[p].manual_review
      /\ row'[p].lease_token = row[p].lease_token
      /\ row'[p].lease_until = row[p].lease_until
  BY <1>3, <1>4, RowFields DEF RowType, Statuses
<1>6. TypeOK'
  <2>1. row' \in [Payments -> RowType]
        /\ unknown_since' \in [Payments -> Times \cup {None}]
    BY <1>1, <1>3, <1>5 DEF TypeOK, RowType
  <2>2. ASSUME NEW q \in Payments
        PROVE  (row'[q].lease_token = None) <=> (row'[q].lease_until = None)
    <3>1. (row[q].lease_token = None) <=> (row[q].lease_until = None)
      BY DEF TypeOK
    <3>2. CASE q = p
      BY <1>5, <3>1, <3>2
    <3>3. CASE q # p
      BY <1>4, <3>1, <3>3
    <3>4. QED
      BY <3>2, <3>3
  <2>3. QED
    BY <1>2, <2>1, <2>2 DEF TypeOK, RowType
<1>7. RowInv(p) /\ RowInv(p)'
  <2>1. RowInv(p)
    BY DEF IInv
  <2>2. row[p].attempts = 0 /\ ~row[p].manual_review /\ row[p].lease_token = None
    BY <1>2, <2>1 DEF RowInv
  <2>3. 0 * StaleAfter = 0 /\ s + 0 <= s /\ 0 < MaxAttempts
    BY <1>3, SettingsAssumption
  <2>4. QED
    BY <1>2, <1>3, <1>4, <1>5, <2>1, <2>2, <2>3 DEF RowInv, Open
<1>8. ASSUME NEW q \in Payments PROVE RowInv(q)'
  <2>1. CASE q # p
    BY <1>2, <1>4, <2>1 DEF IInv, RowInv, Open
  <2>2. QED
    BY <1>7, <2>1
<1>9. ASSUME NEW v \in Workers PROVE WorkInv(v)' /\ LookupInv(v)'
  <2>1. WorkInv(v) /\ LookupInv(v)
    BY DEF IInv
  <2>2. \A q \in Payments : /\ row'[q].lease_token = row[q].lease_token
                            /\ row'[q].lease_until = row[q].lease_until
    BY <1>4, <1>5
  <2>3. QED
    BY <1>2, <2>1, <2>2 DEF WorkInv, LookupInv
<1>10. ASSUME NEW v \in Workers, NEW q \in Payments PROVE HoldInv(v, q)'
  <2>1. HoldInv(v, q)
    BY DEF IInv
  <2>2. CASE q = p
    BY <1>2, <1>5, <1>7, <2>2 DEF HoldInv, RowInv
  <2>3. CASE q # p
    BY <1>2, <1>4, <2>1, <2>3 DEF HoldInv
  <2>4. QED
    BY <2>2, <2>3
<1>11. TokensDiffer'
  BY <1>2 DEF IInv, TokensDiffer
<1>12. QED
  BY <1>6, <1>8, <1>9, <1>10, <1>11 DEF IInv

LEMMA TickKeeps ==
  ASSUME TypeOK, IInv, Tick
  PROVE  TypeOK' /\ IInv'
<1>1. /\ row' = row /\ work' = work /\ unknown_since' = unknown_since
      /\ now' = now + 1 /\ now < MaxTime /\ now \in Nat
      /\ \A w \in Workers :
           work[w].step # "claim" => now < work[w].since + StepTime
  BY DEF Tick, TypeOK, Times
<1>2. now' \in Times
  BY <1>1, SettingsAssumption DEF Times
<1>3. TypeOK'
  BY <1>1, <1>2 DEF TypeOK
<1>4. ASSUME NEW w \in Workers PROVE WorkInv(w)' /\ LookupInv(w)'
  <2>1. WorkInv(w) /\ LookupInv(w) /\ work[w].since \in Nat
    BY WorkFields DEF IInv, Times
  <2>2. work[w].since <= now + 1
        /\ (work[w].step # "claim" => now + 1 <= work[w].since + StepTime)
    <3>1. work[w].since <= now
      BY <2>1 DEF WorkInv
    <3>2. QED
      BY <1>1, <2>1, <3>1, SettingsAssumption
  <2>3. QED
    BY <1>1, <2>1, <2>2 DEF WorkInv, LookupInv
<1>5. ASSUME NEW p \in Payments PROVE RowInv(p)'
  <2>1. RowInv(p) /\ row[p].updated_at \in Nat
    BY RowFields DEF IInv, Times
  <2>2. row[p].updated_at <= now + 1
    <3>1. row[p].updated_at <= now
      BY <2>1 DEF RowInv
    <3>2. QED
      BY <1>1, <2>1, <3>1
  <2>3. QED
    BY <1>1, <2>1, <2>2 DEF RowInv, Open
<1>6. ASSUME NEW w \in Workers, NEW p \in Payments PROVE HoldInv(w, p)'
  BY <1>1 DEF IInv, HoldInv
<1>7. TokensDiffer'
  BY <1>1 DEF IInv, TokensDiffer
<1>8. QED
  BY <1>3, <1>4, <1>5, <1>6, <1>7 DEF IInv

LEMMA NextKeeps ==
  ASSUME TypeOK, IInv, [Next]_vars
  PROVE  TypeOK' /\ IInv'
<1>1. CASE UNCHANGED vars
  BY <1>1 DEF vars, TypeOK, IInv, WorkInv, LookupInv, TokensDiffer, RowInv, Open,
     HoldInv
<1>2. ASSUME NEW w \in Workers,
             \/ RenewClaim(w) \/ LookupProvider(w) \/ PersistResolution(w)
             \/ StepFails(w)
      PROVE  TypeOK' /\ IInv'
  BY <1>2, WorkerKinds, SilentKeeps, RenewalKeeps, ResolutionKeeps
<1>3. CASE Next
  BY <1>2, <1>3, TickKeeps, UnknownKeeps, ClaimKeeps DEF Next
<1>4. QED
  BY <1>1, <1>3

-----------------------------------------------------------------------------
\* The types and the invariant hold, for all settings.
THEOREM Invariant == Spec => [](TypeOK /\ IInv)
<1>1. Init => TypeOK /\ IInv
  BY InitInv
<1>2. TypeOK /\ IInv /\ [Next]_vars => (TypeOK /\ IInv)'
  BY NextKeeps
<1>3. QED
  BY <1>1, <1>2, PTL DEF Spec

\* PaymentReconciliationWorker: no payment gets more attempts than its budget
\* has, and a lease has a token and a time or neither.
THEOREM TypeCorrect == Spec => []TypeOK
BY Invariant, PTL

\* _persist_resolution: manual review comes StaleAfter after StaleAfter, for
\* every attempt of the budget, however many workers lose their leases.
THEOREM ReviewComesLate == Spec => []ReviewAfterGrace
<1>1. TypeOK /\ IInv => ReviewAfterGrace
  <2>1. SUFFICES ASSUME TypeOK, IInv, NEW p \in Payments, row[p].manual_review
                 PROVE  now >= unknown_since[p] + MaxAttempts * StaleAfter
    BY DEF ReviewAfterGrace
  <2>2. RowInv(p)
    BY <2>1 DEF IInv
  <2>3. row[p].attempts = MaxAttempts /\ row[p].status # "pending"
    BY <2>1, <2>2 DEF RowInv
  <2> DEFINE budget == MaxAttempts * StaleAfter
  <2>4. budget \in Nat
    BY SettingsAssumption, Product
  <2>5. /\ unknown_since[p] \in Nat /\ row[p].updated_at <= now
        /\ unknown_since[p] + budget <= row[p].updated_at
    BY <2>2, <2>3 DEF RowInv
  <2>6. row[p].updated_at \in Nat /\ now \in Nat
    BY <2>1, RowFields DEF TypeOK, Times
  <2> HIDE DEF budget
  <2>7. now >= unknown_since[p] + budget
    BY <2>4, <2>5, <2>6
  <2>8. QED
    BY <2>7 DEF budget
<1>2. QED
  BY <1>1, Invariant, PTL

\* renew_reconciliation_lease: leases longer than two steps keep workers from
\* looking up one payment at the same time.
THEOREM LongLeasesExclude ==
  ASSUME LeaseTime > 2 * StepTime
  PROVE  Spec => []OneWorkerPerPayment
<1>1. IInv => OneWorkerPerPayment
  <2>1. SUFFICES ASSUME IInv, NEW v \in Workers, NEW w \in Workers, v # w,
                        work[v].step = "lookup", work[w].step = "lookup",
                        work[v].target = work[w].target
                 PROVE  FALSE
    BY DEF OneWorkerPerPayment
  <2>2. work[v].token = work[w].token /\ work[v].token \in Tokens
    BY <2>1 DEF IInv, LookupInv, WorkInv
  <2>3. QED
    BY <2>1, <2>2, NoneAssumption DEF IInv, TokensDiffer
<1>2. QED
  BY <1>1, Invariant, PTL

LEMMA LeasesHold ==
  ASSUME TypeOK, IInv, [Next]_vars, NEW p \in Payments,
         row[p].lease_token # None, now < row[p].lease_until, row'[p] # row[p]
  PROVE  \E w \in Workers : /\ work[w].token = row[p].lease_token
                            /\ work'[w] # work[w]
<1>1. row[p].lease_until \in Nat /\ row[p].lease_until # None /\ now \in Nat
      /\ row[p].status # "pending"
  BY RowFields, SettingsAssumption, NoneAssumption DEF IInv, RowInv, TypeOK, Times
<1>2. ASSUME NEW w \in Workers, ClaimBatch(w) PROVE FALSE
  <2>1. PICK t \in Recent(work[w].since), b \in SUBSET Payments :
          (\A q \in b : Claimable(q, t)) /\ (p \notin b => row'[p] = row[p])
    BY <1>2 DEF ClaimBatch
  <2>2. row[p].lease_until <= t
    BY <1>1, <2>1 DEF Claimable
  <2>3. t <= now /\ t \in Nat
    BY RecentTimes DEF Times
  <2>4. QED
    BY <1>1, <2>2, <2>3
<1>3. ASSUME NEW q \in Payments, BecomesUnknown(q) PROVE FALSE
  <2>1. q # p
    BY <1>1, <1>3 DEF BecomesUnknown
  <2>2. row'[p] = row[p]
    BY <1>3, <2>1 DEF BecomesUnknown, TypeOK
  <2>3. QED
    BY <2>2
<1>4. ASSUME NEW w \in Workers,
             \/ RenewClaim(w) \/ LookupProvider(w) \/ PersistResolution(w)
             \/ StepFails(w)
      PROVE  /\ work[w].token = row[p].lease_token
             /\ work'[w] # work[w]
  <2>1. PICK new \in WorkType :
          /\ GoesOn(w, new)
          /\ Silent(w, new) \/ Renewal(w, new) \/ Resolution(w, new)
    BY <1>4, WorkerKinds
  <2>2. ~Silent(w, new)
    BY DEF Silent
  <2>3. work'[w] # work[w]
    BY <2>1, <2>2, MovesKeeps DEF Renewal, Resolution
  <2>4. PICK q \in Payments, t \in Times, s \in Times : Writes(w, q, t, s)
    <3>1. CASE Renewal(w, new)
      BY <2>1, <3>1 DEF Renewal, Renews, GoesOn, Moves
    <3>2. CASE Resolution(w, new)
      BY <3>2 DEF Resolution, Settles, Spends, IInv, WorkInv
    <3>3. QED
      BY <2>1, <2>2, <3>1, <3>2
  <2>5. q = p
    BY <2>4 DEF Writes, TypeOK
  <2>6. QED
    BY <2>3, <2>4, <2>5 DEF Writes, Held
<1>5. ~UNCHANGED vars /\ ~Tick
  BY DEF vars, Tick
<1>6. QED
  BY <1>2, <1>3, <1>4, <1>5 DEF Next

\* get_claimed_payment_for_update fences the writes: while a lease runs, only
\* the worker with its token touches the row, however late others come.
THEOREM LeasesFence == Spec => LeaseKeepsOthersOut
<1>1. TypeOK /\ IInv /\ [Next]_vars =>
        [\A p \in Payments :
           (row[p].lease_token # None /\ now < row[p].lease_until
              /\ row'[p] # row[p])
           => \E w \in Workers : /\ work[w].token = row[p].lease_token
                                 /\ work'[w] # work[w]]_vars
  BY LeasesHold
<1>2. QED
  BY <1>1, Invariant, PTL DEF Spec, LeaseKeepsOthersOut

-----------------------------------------------------------------------------
(* The refinement: without the clocks, reconciliation is LeaseContract.    *)

\* The variables of the contract, as KeepsLeases gives them.
JobOf(p) == [stage |-> Stage(p), spent |-> row[p].attempts,
             holder |-> row[p].lease_token]

Jobs == [p \in Payments |-> JobOf(p)]

HeldTokens == [w \in Workers |-> work[w].token]

LEMMA OneJob ==
  ASSUME NEW p \in Payments, \A q \in Payments \ {p} : row'[q] = row[q]
  PROVE  Jobs' = [Jobs EXCEPT ![p] = JobOf(p)']
BY DEF Jobs, JobOf, Stage, Open

LEMMA OneToken ==
  ASSUME TypeOK, NEW w \in Workers, NEW new, work' = [work EXCEPT ![w] = new]
  PROVE  HeldTokens' = [HeldTokens EXCEPT ![w] = new.token]
BY DEF HeldTokens, TypeOK

LEMMA LeaseInitRefines == Init => Leases!LeaseInit
BY DEF Init, Leases!LeaseInit, Stage, Open

\* A worker's step concludes the job it holds, or leaves the jobs alone and
\* at most puts its token down.
LEMMA WorkerRefines ==
  ASSUME TypeOK, IInv, NEW w \in Workers,
         \/ RenewClaim(w) \/ LookupProvider(w) \/ PersistResolution(w)
         \/ StepFails(w)
  PROVE  [Leases!LeaseNext]_Leases!leaseVars
<1>1. PICK new \in WorkType :
        /\ GoesOn(w, new)
        /\ Silent(w, new) \/ Renewal(w, new) \/ Resolution(w, new)
  BY WorkerKinds
<1>2. HeldTokens' = HeldTokens \/ HeldTokens' = [HeldTokens EXCEPT ![w] = None]
  <2>1. HeldTokens' = [HeldTokens EXCEPT ![w] = new.token]
    BY <1>1, OneToken DEF GoesOn, Moves
  <2>2. new.token = None \/ new.token = HeldTokens[w]
    BY <1>1 DEF GoesOn, HeldTokens
  <2>3. QED
    BY <2>1, <2>2 DEF HeldTokens
<1>3. CASE Jobs' = Jobs
  BY <1>2, <1>3 DEF Leases!LeaseNext, Leases!GiveUp, Leases!PutDown,
     Leases!leaseVars, Jobs, JobOf, HeldTokens
<1>4. CASE Silent(w, new)
  BY <1>3, <1>4 DEF Silent, Jobs, JobOf, Stage, Open
<1>5. CASE Renewal(w, new)
  <2>1. PICK t, s \in Times : Renews(w, new.target, t, s)
    BY <1>5 DEF Renewal
  <2>2. new.target \in Payments
    BY <1>1, <1>5 DEF Renewal, GoesOn, Moves
  <2>3. JobOf(new.target)' = JobOf(new.target)
    BY <2>1 DEF Renews, JobOf, Stage, Open
  <2>4. \A q \in Payments \ {new.target} : row'[q] = row[q]
    BY <2>1, <2>2 DEF Renews, Writes, TypeOK
  <2>5. Jobs' = Jobs
    BY <2>2, <2>3, <2>4, OneJob DEF Jobs
  <2>6. QED
    BY <1>3, <2>5
<1>6. CASE Resolution(w, new)
  <2>0. PICK p \in Payments : p = work[w].target
    BY <1>6 DEF Resolution, IInv, WorkInv
  <2> DEFINE n == row[p].attempts + 1
             answered == [stage |-> "closed", spent |-> row[p].attempts,
                          holder |-> None]
             missed == [stage |-> IF n < MaxAttempts THEN "open" ELSE "closed",
                        spent |-> n, holder |-> None]
  <2>1. PICK t, s \in Times : Settles(w, p, t, s) \/ Spends(w, p, t, s)
    BY <1>6, <2>0 DEF Resolution
  <2>2. /\ p \in Payments /\ Open(p)
        /\ work[w].token \in Tokens /\ row[p].lease_token = work[w].token
    BY <1>6, <2>1 DEF Resolution, Settles, Spends, Writes, Held, IInv, WorkInv
  <2>3. /\ Stage(p) = "open" /\ work[w].token # None
        /\ Jobs[p].stage = "open" /\ Jobs[p].holder = HeldTokens[w]
        /\ Jobs[p].spent = row[p].attempts /\ HeldTokens[w] # None
    BY <2>2, NoneAssumption DEF Stage, Open, Jobs, JobOf, HeldTokens
  <2>4. \A q \in Payments \ {p} : row'[q] = row[q]
    BY <2>1, <2>2 DEF Settles, Spends, Writes, TypeOK
  <2>5. Jobs' = [Jobs EXCEPT ![p] = JobOf(p)']
    BY <2>2, <2>4, OneJob
  <2>6. JobOf(p)' = answered \/ JobOf(p)' = missed
    <3>1. CASE Settles(w, p, t, s)
      <4>1. /\ row'[p].status = "settled" /\ row'[p].attempts = row[p].attempts
            /\ row'[p].lease_token = None
        BY <3>1 DEF Settles
      <4>2. Stage(p)' = "closed"
        BY <4>1 DEF Stage, Open
      <4>3. QED
        BY <4>1, <4>2 DEF JobOf
    <3>2. CASE Spends(w, p, t, s)
      <4>1. n \in Nat /\ MaxAttempts \in Nat
        BY <2>2, RowFields, SettingsAssumption
      <4>2. n < MaxAttempts <=> ~(n >= MaxAttempts)
        BY <4>1
      <4>3. /\ row'[p].status = "unknown" /\ row'[p].attempts = n
            /\ row'[p].manual_review = (n >= MaxAttempts)
            /\ row'[p].lease_token = None
        BY <2>2, <3>2 DEF Spends, Open
      <4>4. Stage(p)' = IF n < MaxAttempts THEN "open" ELSE "closed"
        BY <4>2, <4>3 DEF Stage, Open
      <4>5. QED
        BY <4>3, <4>4 DEF JobOf
    <3>3. QED
      BY <2>1, <3>1, <3>2
  <2>7. answered = Leases!Settled(Jobs[p]) /\ missed = Leases!Spent(Jobs[p])
    BY <2>3 DEF Leases!Settled, Leases!Spent
  <2>8. Leases!Conclude(w, p)
    BY <1>2, <2>3, <2>5, <2>6, <2>7
    DEF Leases!Conclude, Leases!PutDown, Jobs, JobOf, HeldTokens
  <2>9. QED
    BY <2>2, <2>8 DEF Leases!LeaseNext
<1>7. QED
  BY <1>1, <1>4, <1>5, <1>6

LEMMA ClaimRefines ==
  ASSUME TypeOK, IInv, NEW w \in Workers, ClaimBatch(w)
  PROVE  Leases!TakeOn(w)
<1>1. PICK t \in Recent(work[w].since), k \in FreshTokens :
        \E s \in t..now, b \in SUBSET {p \in Payments : Claimable(p, t)} :
          /\ b # {}
          /\ Cardinality(b) <= BatchSize
          /\ row' = [p \in Payments |->
               IF p \in b THEN [row[p] EXCEPT !.lease_token = k,
                                              !.lease_until = t + LeaseTime,
                                              !.updated_at = s]
                          ELSE row[p]]
          /\ work' = [work EXCEPT ![w] =
               [step |-> "renew", since |-> now, token |-> k, todo |-> b,
                target |-> None, known |-> FALSE]]
  BY DEF ClaimBatch
<1>2. PICK s \in t..now, b \in SUBSET {p \in Payments : Claimable(p, t)} :
        /\ b # {}
        /\ row' = [p \in Payments |->
             IF p \in b THEN [row[p] EXCEPT !.lease_token = k,
                                            !.lease_until = t + LeaseTime,
                                            !.updated_at = s]
                        ELSE row[p]]
        /\ work' = [work EXCEPT ![w] =
             [step |-> "renew", since |-> now, token |-> k, todo |-> b,
              target |-> None, known |-> FALSE]]
  BY <1>1
<1>3. HeldTokens[w] = None
  BY DEF ClaimBatch, IInv, WorkInv, HeldTokens
<1>4. /\ k \in Tokens /\ \A p \in Payments : Jobs[p].holder # k
      /\ \A v \in Workers : HeldTokens[v] # k
  BY DEF FreshTokens, Jobs, JobOf, HeldTokens
<1>5. b \in SUBSET {p \in Payments : Jobs[p].stage = "open"}
  BY DEF Claimable, Open, Stage, Jobs, JobOf
<1>6. Jobs' = [p \in Payments |->
         IF p \in b THEN [Jobs[p] EXCEPT !.holder = k] ELSE Jobs[p]]
  <2>1. ASSUME NEW p \in Payments
        PROVE  JobOf(p)' = IF p \in b THEN [Jobs[p] EXCEPT !.holder = k]
                                      ELSE Jobs[p]
    <3>1. CASE p \in b
      <4>1. row[p] \in RowType
        BY RowFields
      <4>2. row'[p] = [row[p] EXCEPT !.lease_token = k,
                         !.lease_until = t + LeaseTime, !.updated_at = s]
        BY <1>2, <3>1
      <4>3. /\ row'[p].status = row[p].status /\ row'[p].attempts = row[p].attempts
            /\ row'[p].manual_review = row[p].manual_review
            /\ row'[p].lease_token = k
        BY <4>1, <4>2 DEF RowType
      <4>4. QED
        BY <3>1, <4>3 DEF Jobs, JobOf, Stage, Open
    <3>2. CASE p \notin b
      BY <1>2, <3>2 DEF Jobs, JobOf, Stage, Open
    <3>3. QED
      BY <3>1, <3>2
  <2>2. QED
    BY <2>1 DEF Jobs
<1> DEFINE new == [step |-> "renew", since |-> now, token |-> k, todo |-> b,
                   target |-> None, known |-> FALSE]
<1>7. HeldTokens' = [HeldTokens EXCEPT ![w] = k]
  <2>1. work' = [work EXCEPT ![w] = new] /\ new.token = k
    BY <1>2
  <2> HIDE DEF new
  <2>2. QED
    BY <2>1, OneToken
<1>8. QED
  BY <1>2, <1>3, <1>4, <1>5, <1>6, <1>7
  DEF Leases!TakeOn, Leases!Fresh, Jobs, JobOf, HeldTokens

LEMMA LeaseNextRefines ==
  TypeOK /\ IInv /\ [Next]_vars => [Leases!LeaseNext]_Leases!leaseVars
<1> SUFFICES ASSUME TypeOK, IInv, [Next]_vars
             PROVE  [Leases!LeaseNext]_Leases!leaseVars
  OBVIOUS
<1>1. CASE UNCHANGED <<row, work>>
  BY <1>1 DEF Leases!leaseVars, Stage, Open
<1>2. ASSUME NEW p \in Payments, BecomesUnknown(p)
      PROVE  Leases!Arise(p)
  <2>1. PICK s : row' = [row EXCEPT ![p].status = "unknown", ![p].updated_at = s]
    BY <1>2 DEF BecomesUnknown
  <2>2. /\ row[p] \in RowType /\ row[p].status = "pending"
        /\ ~row[p].manual_review
    BY <1>2, RowFields DEF BecomesUnknown, IInv, RowInv
  <2>3. /\ row'[p] = [row[p] EXCEPT !.status = "unknown", !.updated_at = s]
        /\ \A q \in Payments \ {p} : row'[q] = row[q]
    BY <2>1 DEF TypeOK
  <2>4. /\ row'[p].status = "unknown" /\ ~row'[p].manual_review
        /\ row'[p].attempts = row[p].attempts
        /\ row'[p].lease_token = row[p].lease_token
    BY <2>2, <2>3 DEF RowType
  <2>5. JobOf(p)' = [Jobs[p] EXCEPT !.stage = "open"] /\ Jobs[p].stage = "early"
    BY <2>2, <2>4 DEF Jobs, JobOf, Stage, Open
  <2>6. Jobs' = [Jobs EXCEPT ![p] = JobOf(p)']
    BY <2>3, OneJob
  <2>7. Jobs' = [Jobs EXCEPT ![p].stage = "open"]
    BY <2>5, <2>6 DEF Jobs
  <2>8. HeldTokens' = HeldTokens
    BY <1>2 DEF BecomesUnknown, HeldTokens
  <2>9. QED
    BY <2>5, <2>7, <2>8 DEF Leases!Arise, Jobs, JobOf, HeldTokens
<1>3. ASSUME NEW w \in Workers, ClaimBatch(w)
      PROVE  [Leases!LeaseNext]_Leases!leaseVars
  BY <1>3, ClaimRefines DEF Leases!LeaseNext
<1>4. Tick => UNCHANGED <<row, work>>
  BY DEF Tick
<1>5. QED
  BY <1>1, <1>2, <1>3, <1>4, WorkerRefines DEF Next, vars, Leases!LeaseNext

\* However late clocks are read and whichever workers are overtaken or die, an
\* attempt has a token of its own and is concluded, once, by nobody else.
THEOREM LeasesRefine == Spec => KeepsLeases
<1>1. Init => Leases!LeaseInit
  BY LeaseInitRefines
<1>2. TypeOK /\ IInv /\ [Next]_vars => [Leases!LeaseNext]_Leases!leaseVars
  BY LeaseNextRefines
<1>3. QED
  BY <1>1, <1>2, Invariant, PTL DEF Spec, KeepsLeases, Leases!LeaseSpec
=============================================================================
