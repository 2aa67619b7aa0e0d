------------------------ MODULE PaymentCreationProofs -----------------------
(***************************************************************************)
(* Proofs about PaymentCreation for any number of requests, keys and       *)
(* bodies: its invariants, and that it implements CreationContract.        *)
(***************************************************************************)
EXTENDS PaymentCreation, TLAPS

Active(r) == request[r].step \notin {"idle", "done"}

-----------------------------------------------------------------------------
(* Types, and what no step changes.                                        *)

LEMMA RowType ==
  ASSUME TypeOK, NEW r \in Requests, request[r].key \in Keys,
         request[r].body \in Bodies
  PROVE  Row(r) \in PaymentRows
<1> DEFINE body == request[r].body
<1>1. body.amount \in Nat \X (0..2) /\ body.rest \in Rests
  BY AmountsAssumption DEF Bodies
<1>2. body.amount[1] \in Nat /\ body.amount[2] \in {0, 1, 2}
  BY <1>1
<1>3. Cents(body.amount) \in Nat
  BY <1>2 DEF Cents
<1>4. Fingerprint(body) \in Fingerprints
  BY <1>1, <1>3 DEF Fingerprint, Fingerprints
<1>5. QED
  BY <1>4 DEF Row, PaymentRows

\* A request that is under way has a key, a body and no answer.
Wellformed ==
  \A r \in Requests :
    /\ Active(r) => request[r].key \in Keys
    /\ request[r].step # "done" => answer[r] = None
    /\ request[r].step # "idle" => request[r].body \in Bodies
    /\ request[r].step # "idle" => request[r].key \in Keys \cup {Blank}

\* How a step treats the requests: one moves on, all keep key and body.
Moves(r) ==
  /\ request' \in [Requests -> [step : Steps, key : Keys \cup {Blank, None},
                                body : Bodies \cup {None}]]
  /\ request'[r].step # "idle"
  /\ request[r].step # "idle" => /\ request'[r].key = request[r].key
                                 /\ request'[r].body = request[r].body
  /\ \A o \in Requests \ {r} : request'[o] = request[o]

\* Nor does it touch the event another transaction has inserted.
EventsKept(r) ==
  /\ stagedEvents' \in [Requests -> SUBSET Requests]
  /\ \A o \in Requests \ {r} : stagedEvents'[o] = stagedEvents[o]

LEMMA GotoMoves ==
  ASSUME TypeOK, NEW r \in Requests, NEW step \in Steps \ {"idle"},
         Goto(r, step)
  PROVE  Moves(r) /\ request'[r].step = step
BY DEF Goto, TypeOK, Moves

LEMMA FinishMoves ==
  ASSUME TypeOK, NEW r \in Requests, NEW a \in Answers, Finish(r, a)
  PROVE  /\ Moves(r) /\ request'[r].step = "done"
         /\ answer' \in [Requests -> Answers \cup {None}] /\ answer'[r] = a
         /\ \A o \in Requests \ {r} : answer'[o] = answer[o]
         /\ staged' \in [Requests -> SUBSET PaymentRows] /\ staged'[r] = {}
         /\ \A o \in Requests \ {r} : staged'[o] = staged[o]
         /\ EventsKept(r)
<1>1. Goto(r, "done")
  BY DEF Finish
<1>2. Moves(r) /\ request'[r].step = "done"
  BY <1>1, GotoMoves DEF Steps
<1>3. QED
  BY <1>2 DEF Finish, EndTransaction, EventsKept, TypeOK

-----------------------------------------------------------------------------
(* The kinds of steps.                                                     *)

Unended == <<payments, events, answer>>

\* The insert succeeds.
Inserts(r) ==
  /\ request[r].step = "insert"
  /\ KeyFree(r)
  /\ Rows(request[r].key) = {}
  /\ Goto(r, "add_event")
  /\ staged' = [staged EXCEPT ![r] = {Row(r)}]
  /\ UNCHANGED <<Unended, stagedEvents>>

\* Only the request's own step changes, what it does next is justified, and it
\* commits only with the event of its payment.
Proceeds(r) ==
  /\ \/ request[r].step = "read" /\ Goto(r, "insert")
     \/ /\ request[r].step = "insert"
        /\ Rows(request[r].key) # {}
        /\ Goto(r, "duplicate")
     \/ /\ request[r].step = "add_event"
        /\ stagedEvents'[r] = {r}
        /\ Goto(r, "commit")
     \/ /\ request[r].step \in {"insert", "add_event", "commit"}
        /\ Goto(r, "failed")
     \/ /\ request[r].step = "duplicate"
        /\ staged[r] = {}
        /\ Goto(r, "reread")
  /\ EventsKept(r)
  /\ UNCHANGED <<Unended, staged>>

\* What is handed out when a request ends: a row that is there, and in the
\* end never the IntegrityError.
Justified(r, a) ==
  \/ a \in {<<"error">>, <<"lost">>}
  \/ \E p \in Rows(request[r].key) :
       a = IF p.fingerprint = Fingerprint(request[r].body)
             THEN <<"accepted", p.id>> ELSE <<"conflict">>

Finishes(r) ==
  /\ Active(r)
  /\ \E a \in Answers : Justified(r, a) /\ Finish(r, a)
  /\ UNCHANGED <<payments, events>>

-----------------------------------------------------------------------------
(* The invariant.                                                          *)

\* A transaction holds the row of its request, its key alone, and before it
\* commits the event of that row.
StagedOK(r) ==
  /\ staged[r] = {} \/ /\ staged[r] = {Row(r)}
                       /\ request[r].step \in {"add_event", "commit", "failed"}
  /\ request[r].step \in {"add_event", "commit"} => staged[r] # {}
  /\ request[r].step = "commit" => stagedEvents[r] = {r}
  /\ staged[r] # {} =>
       /\ \A p \in payments : p.key # request[r].key
       /\ \A o \in Requests \ {r} :
            staged[o] # {} => request[o].key # request[r].key

\* Where a request relies on a committed row, the row is there.
RowsFound(r) ==
  /\ request[r].step = "refresh" => Row(r) \in payments
  /\ request[r].step \in {"duplicate", "reread"} =>
       \E p \in payments : p.key = request[r].key

\* A row is that of the request it is named after.
RowsOK == \A p \in payments : request[p.id].step # "idle" /\ p = Row(p.id)

Inv ==
  /\ TypeOK
  /\ Wellformed
  /\ EachPaymentItsEvent
  /\ LoserFindsWinner
  /\ \A r \in Requests : StagedOK(r) /\ RowsFound(r)
  /\ RowsOK

\* Given the invariant, that is all that a step can be.
LEMMA Kinds ==
  ASSUME Inv, NEW r \in Requests,
         Handle(r) \/ Fail(r) \/ Raise(r) \/ Crash(r)
  PROVE  Finishes(r) \/ Inserts(r) \/ Proceeds(r) \/ Commit(r)
<1> DEFINE key == request[r].key
<1>0. /\ \A p \in payments : p.id \in Requests
      /\ UNCHANGED stagedEvents => EventsKept(r)
  BY DEF Inv, TypeOK, PaymentRows, EventsKept
<1>1. ASSUME NEW p \in Rows(key), Resolve(r, p), Active(r) PROVE Finishes(r)
  <2>1. p.id \in Requests
    BY <1>1, <1>0 DEF Rows
  <2> DEFINE a == IF p.fingerprint = Fingerprint(request[r].body)
                    THEN <<"accepted", p.id>> ELSE <<"conflict">>
  <2>2. a \in Answers /\ Justified(r, a)
    BY <1>1, <2>1 DEF Answers, Justified
  <2>3. Finish(r, a) /\ UNCHANGED <<payments, events>>
    BY <1>1 DEF Resolve, tables
  <2>4. QED
    BY <1>1, <2>2, <2>3 DEF Finishes
<1>2. ASSUME NEW a \in {<<"error">>, <<"lost">>}, Active(r), Finish(r, a),
             UNCHANGED <<payments, events>>
      PROVE  Finishes(r)
  BY <1>2 DEF Finishes, Justified, Answers
<1>3. CASE Read(r)
  BY <1>0, <1>1, <1>3 DEF Read, Proceeds, Unended, Active, tables, transaction
<1>4. CASE Insert(r)
  BY <1>0, <1>4 DEF Insert, Inserts, Proceeds, Unended, tables
<1>5. CASE AddEvent(r)
  <2>1. staged[r] = {Row(r)}
    BY <1>5 DEF AddEvent, Inv, StagedOK
  <2>2. {p.id : p \in staged[r]} = {r}
    BY <2>1 DEF Row
  <2>3. EventsKept(r) /\ stagedEvents'[r] = {r}
    BY <1>5, <2>2 DEF AddEvent, EventsKept, Inv, TypeOK
  <2>4. QED
    BY <1>5, <2>3 DEF AddEvent, Proceeds, Unended, tables
<1>6. CASE Refresh(r)
  <2>1. Active(r) /\ Finish(r, <<"accepted", r>>) /\ UNCHANGED <<payments, events>>
    BY <1>6 DEF Refresh, Active, tables
  <2>2. Row(r) \in Rows(key)
    BY <1>6 DEF Refresh, Inv, RowsFound, Rows, Row
  <2>3. Justified(r, <<"accepted", r>>)
    BY <2>2 DEF Justified, Row
  <2>4. QED
    BY <2>1, <2>3 DEF Finishes, Answers
<1>7. CASE Rollback(r)
  <2>1. CASE request[r].step = "failed"
    BY <1>2, <1>7, <2>1 DEF Rollback, Active, tables
  <2>2. CASE request[r].step = "duplicate"
    <3>1. staged[r] = {} /\ staged \in [Requests -> SUBSET PaymentRows]
      BY <2>2 DEF Inv, StagedOK, TypeOK
    <3>2. staged' = [staged EXCEPT ![r] = {}] /\ EventsKept(r)
      BY <1>7, <2>2 DEF Rollback, EndTransaction, EventsKept, Inv, TypeOK
    <3>3. staged' = staged
      BY <3>1, <3>2
    <3>4. QED
      BY <1>7, <2>2, <3>1, <3>2, <3>3 DEF Rollback, Proceeds, Unended, tables
  <2>3. QED
    BY <1>7, <2>1, <2>2 DEF Rollback
<1>8. CASE Reread(r)
  <2>1. Rows(key) # {}
    BY <1>8 DEF Reread, Inv, RowsFound, Rows
  <2>2. QED
    BY <1>1, <1>8, <2>1 DEF Reread, Active
<1>9. CASE Fail(r)
  BY <1>0, <1>9 DEF Fail, Proceeds, Unended, tables, transaction
<1>10. CASE Raise(r)
  BY <1>2, <1>10 DEF Raise, Active, tables
<1>11. CASE Crash(r)
  BY <1>2, <1>11 DEF Crash, Active, tables
<1>12. QED
  BY <1>3, <1>4, <1>5, <1>6, <1>7, <1>8, <1>9, <1>10, <1>11 DEF Handle

LEMMA KindsMove ==
  ASSUME Inv, NEW r \in Requests,
         Finishes(r) \/ Inserts(r) \/ Proceeds(r) \/ Commit(r)
  PROVE  Active(r) /\ Moves(r)
<1>1. Active(r)
  BY DEF Finishes, Inserts, Proceeds, Commit, Active
<1>2. CASE Finishes(r)
  BY <1>1, <1>2, FinishMoves DEF Finishes, Inv
<1>3. CASE Inserts(r)
  BY <1>1, <1>3, GotoMoves DEF Inserts, Inv, Steps
<1>4. CASE Proceeds(r)
  <2>1. PICK step \in Steps \ {"idle"} : Goto(r, step)
    BY <1>4 DEF Proceeds, Steps
  <2>2. QED
    BY <1>1, <2>1, GotoMoves DEF Inv
<1>5. CASE Commit(r)
  <2>1. PICK step \in Steps \ {"idle"} : Goto(r, step)
    BY <1>5 DEF Commit, Steps
  <2>2. QED
    BY <1>1, <2>1, GotoMoves DEF Inv
<1>6. QED
  BY <1>1, <1>2, <1>3, <1>4, <1>5

\* The row of a request is the same as long as the request is.
LEMMA RowsStay ==
  ASSUME NEW r \in Requests, Moves(r),
         NEW o \in Requests, request[o].step # "idle"
  PROVE  /\ Row(o)' = Row(o)
         /\ request'[o].key = request[o].key
         /\ request'[o].step # "idle"
<1>1. /\ request'[o].key = request[o].key
      /\ request'[o].body = request[o].body
      /\ request'[o].step # "idle"
  BY DEF Moves
<1>2. QED
  BY <1>1 DEF Row

\* What moves, and what it moves from, is well formed.
LEMMA MovesWellformed ==
  ASSUME Inv, NEW r \in Requests, Active(r), Moves(r),
         \/ UNCHANGED answer
         \/ request'[r].step = "done" /\ \A o \in Requests \ {r} : answer'[o] = answer[o]
  PROVE  Wellformed'
<1> SUFFICES ASSUME NEW o \in Requests
             PROVE  /\ Active(o)' => request'[o].key \in Keys
                    /\ request'[o].step # "done" => answer'[o] = None
                    /\ request'[o].step # "idle" => request'[o].body \in Bodies
                    /\ request'[o].step # "idle" =>
                         request'[o].key \in Keys \cup {Blank}
  BY DEF Wellformed
<1>1. CASE o = r
  BY <1>1 DEF Inv, Wellformed, Active, Moves
<1>2. CASE o # r
  BY <1>2 DEF Inv, Wellformed, Active, Moves
<1>3. QED
  BY <1>1, <1>2

LEMMA MovesRows ==
  ASSUME Inv, NEW r \in Requests, Moves(r), UNCHANGED payments
  PROVE  RowsOK'
<1>1. \A p \in payments : p.id \in Requests
  BY DEF Inv, TypeOK, PaymentRows
<1>2. QED
  BY <1>1, RowsStay DEF Inv, RowsOK

\* Where nobody takes a key or gives one away, the transactions stay what
\* they are.
LEMMA OthersStay ==
  ASSUME Inv, NEW r \in Requests, Moves(r), UNCHANGED payments,
         \A x \in Requests \ {r} : staged'[x] = staged[x],
         staged'[r] \in {staged[r], {}}, EventsKept(r),
         NEW o \in Requests \ {r}
  PROVE  StagedOK(o)' /\ RowsFound(o)'
<1>1. StagedOK(o) /\ RowsFound(o)
  BY DEF Inv
<1>2. /\ staged'[o] = staged[o] /\ request'[o] = request[o]
      /\ stagedEvents'[o] = stagedEvents[o]
  BY DEF Moves, EventsKept
<1>3. Row(o)' = Row(o)
  BY <1>2 DEF Row
<1>4. staged[o] # {} =>
        \A x \in Requests \ {o} :
          staged'[x] # {} => request'[x].key # request[o].key
  <2> SUFFICES ASSUME staged[o] # {}, NEW x \in Requests \ {o}, staged'[x] # {}
               PROVE  request'[x].key # request[o].key
    OBVIOUS
  <2>1. staged[x] # {} /\ StagedOK(x)
    BY DEF Inv
  <2>2. request[x].step # "idle"
    BY <2>1 DEF StagedOK
  <2>3. request[x].key # request[o].key
    BY <1>1, <2>1 DEF StagedOK
  <2>4. QED
    BY <2>2, <2>3, RowsStay
<1>5. StagedOK(o)'
  BY <1>1, <1>2, <1>3, <1>4 DEF StagedOK
<1>6. RowsFound(o)'
  BY <1>1, <1>2, <1>3 DEF RowsFound
<1>7. QED
  BY <1>5, <1>6
-----------------------------------------------------------------------------
(* Every kind of step keeps the invariant.                                 *)

LEMMA InvInit == Init => Inv
<1> SUFFICES ASSUME Init PROVE Inv
  OBVIOUS
<1>1. TypeOK
  BY DEF Init, TypeOK, NoRequest, Steps
<1>2. Wellformed
  BY DEF Init, Wellformed, NoRequest, Active
<1>3. EachPaymentItsEvent /\ RowsOK
  BY DEF Init, EachPaymentItsEvent, RowsOK
<1>4. LoserFindsWinner
  BY NoneAssumption DEF Init, LoserFindsWinner, Answers
<1>5. \A r \in Requests : StagedOK(r) /\ RowsFound(r)
  BY DEF Init, NoRequest, StagedOK, RowsFound
<1>6. QED
  BY <1>1, <1>2, <1>3, <1>4, <1>5 DEF Inv

LEMMA ArriveInv ==
  ASSUME Inv, NEW r \in Requests, NEW header \in Headers, NEW body \in Bodies,
         Arrive(r, header, body)
  PROVE  Inv'
<1> DEFINE key == Strip(header)
           new == request'[r]
<1>1. key \in Keys \cup {Blank}
  BY DEF Headers, Strip
<1>2. PICK step \in {"read", "done"} :
        /\ request' = [request EXCEPT ![r] =
                         [step |-> step, key |-> key, body |-> body]]
        /\ step = "done" => answer' = [answer EXCEPT ![r] = <<"invalid">>]
        /\ step = "read" => key # Blank /\ answer' = answer
  BY DEF Arrive
<1>3. /\ request[r].step = "idle"
      /\ UNCHANGED <<payments, events, staged, stagedEvents>>
  BY DEF Arrive, tables, transaction
<1>4. TypeOK
  BY DEF Inv
<1>5. Moves(r) /\ new = [step |-> step, key |-> key, body |-> body]
  <2>1. new = [step |-> step, key |-> key, body |-> body]
    BY <1>2, <1>4 DEF TypeOK
  <2>2. request' \in [Requests -> [step : Steps, key : Keys \cup {Blank, None},
                                  body : Bodies \cup {None}]]
    BY <1>1, <1>2, <1>4 DEF TypeOK, Steps
  <2>3. \A o \in Requests \ {r} : request'[o] = request[o]
    BY <1>2, <1>4 DEF TypeOK
  <2>4. QED
    BY <1>3, <2>1, <2>2, <2>3 DEF Moves
<1>6. answer' \in [Requests -> Answers \cup {None}]
  BY <1>2, <1>4 DEF TypeOK, Answers
<1>7. TypeOK'
  BY <1>3, <1>4, <1>5, <1>6 DEF TypeOK, Moves
<1>8. Wellformed'
  <2> SUFFICES ASSUME NEW o \in Requests
               PROVE  /\ Active(o)' => request'[o].key \in Keys
                      /\ request'[o].step # "done" => answer'[o] = None
                      /\ request'[o].step # "idle" => request'[o].body \in Bodies
                      /\ request'[o].step # "idle" =>
                           request'[o].key \in Keys \cup {Blank}
    BY DEF Wellformed
  <2>1. CASE o = r
    BY <1>1, <1>2, <1>3, <1>5, <2>1 DEF Inv, Wellformed, Active
  <2>2. CASE o # r
    <3>1. request'[o] = request[o] /\ answer'[o] = answer[o]
      BY <1>2, <1>4, <1>5, <2>2 DEF Moves, TypeOK
    <3>2. QED
      BY <3>1 DEF Inv, Wellformed, Active
  <2>3. QED
    BY <2>1, <2>2
<1>9. EachPaymentItsEvent'
  BY <1>3 DEF Inv, EachPaymentItsEvent
<1>10. LoserFindsWinner'
  <2>1. \A o \in Requests : answer'[o] = answer[o] \/ answer'[o] = <<"invalid">>
    BY <1>2, <1>4 DEF TypeOK
  <2>2. <<"invalid">> # <<"unresolved">>
    OBVIOUS
  <2>3. QED
    BY <2>1, <2>2 DEF Inv, LoserFindsWinner
<1>11. staged[r] = {}
  BY <1>3 DEF Inv, StagedOK
<1>12. StagedOK(r)' /\ RowsFound(r)'
  BY <1>3, <1>5, <1>11 DEF StagedOK, RowsFound
<1>13. \A o \in Requests \ {r} : StagedOK(o)' /\ RowsFound(o)'
  BY <1>3, <1>4, <1>5, OthersStay DEF EventsKept, TypeOK
<1>14. RowsOK'
  BY <1>3, <1>5, MovesRows
<1>15. QED
  BY <1>7, <1>8, <1>9, <1>10, <1>12, <1>13, <1>14 DEF Inv

LEMMA FinishesInv ==
  ASSUME Inv, NEW r \in Requests, Finishes(r)
  PROVE  Inv'
<1>1. PICK a \in Answers : Justified(r, a) /\ Finish(r, a)
  BY DEF Finishes
<1>2. UNCHANGED <<payments, events>> /\ Active(r)
  BY DEF Finishes
<1>3. /\ Moves(r) /\ request'[r].step = "done"
      /\ answer' \in [Requests -> Answers \cup {None}] /\ answer'[r] = a
      /\ \A o \in Requests \ {r} : answer'[o] = answer[o]
      /\ staged' \in [Requests -> SUBSET PaymentRows] /\ staged'[r] = {}
      /\ \A o \in Requests \ {r} : staged'[o] = staged[o]
      /\ EventsKept(r)
  BY <1>1, FinishMoves DEF Inv
<1>4. TypeOK'
  BY <1>2, <1>3 DEF Inv, TypeOK, Moves, EventsKept
<1>5. Wellformed'
  BY <1>2, <1>3, MovesWellformed
<1>6. EachPaymentItsEvent'
  BY <1>2 DEF Inv, EachPaymentItsEvent
<1>7. a # <<"unresolved">>
  BY <1>1 DEF Justified
<1>8. LoserFindsWinner'
  BY <1>3, <1>7 DEF Inv, LoserFindsWinner
<1>9. StagedOK(r)' /\ RowsFound(r)'
  BY <1>3 DEF StagedOK, RowsFound
<1>10. \A o \in Requests \ {r} : StagedOK(o)' /\ RowsFound(o)'
  BY <1>2, <1>3, OthersStay
<1>11. RowsOK'
  BY <1>2, <1>3, MovesRows
<1>12. QED
  BY <1>4, <1>5, <1>6, <1>8, <1>9, <1>10, <1>11 DEF Inv
LEMMA ProceedsInv ==
  ASSUME Inv, NEW r \in Requests, Proceeds(r)
  PROVE  Inv'
<1>1. Moves(r) /\ Active(r)
  BY KindsMove
<1>2. UNCHANGED <<payments, events, answer, staged>> /\ EventsKept(r)
  BY DEF Proceeds, Unended
<1>3. TypeOK'
  BY <1>1, <1>2 DEF Inv, TypeOK, Moves, EventsKept
<1>4. Wellformed'
  BY <1>1, <1>2, MovesWellformed
<1>5. EachPaymentItsEvent' /\ LoserFindsWinner'
  BY <1>2 DEF Inv, EachPaymentItsEvent, LoserFindsWinner
<1>6. /\ Row(r)' = Row(r) /\ request'[r].key = request[r].key
  BY <1>1, RowsStay DEF Active
<1>7. PICK step \in Steps \ {"idle"} : Goto(r, step)
  BY DEF Proceeds, Steps
<1>8. request'[r].step = step
  BY <1>7, GotoMoves DEF Inv
<1>9. \/ request[r].step = "read" /\ step = "insert"
      \/ /\ request[r].step = "insert" /\ step = "duplicate"
         /\ \E p \in payments : p.key = request[r].key
      \/ /\ request[r].step = "add_event" /\ step = "commit"
         /\ stagedEvents'[r] = {r}
      \/ request[r].step \in {"insert", "add_event", "commit"} /\ step = "failed"
      \/ request[r].step = "duplicate" /\ step = "reread" /\ staged[r] = {}
  <2>1. ASSUME NEW other \in Steps \ {"idle"}, Goto(r, other) PROVE other = step
    BY <1>8, <2>1, GotoMoves DEF Inv
  <2>2. QED
    BY <2>1 DEF Proceeds, Rows, Steps
<1>10. StagedOK(r) /\ RowsFound(r)
  BY DEF Inv
<1>11. staged[r] # {} =>
         \A o \in Requests \ {r} :
           staged[o] # {} => request'[o].key # request[r].key
  <2> SUFFICES ASSUME staged[r] # {}, NEW o \in Requests \ {r}, staged[o] # {}
               PROVE  request'[o].key # request[r].key
    OBVIOUS
  <2>1. request'[o] = request[o]
    BY <1>1 DEF Moves
  <2>2. QED
    BY <1>10, <2>1 DEF StagedOK
<1>12. StagedOK(r)'
  BY <1>2, <1>6, <1>8, <1>9, <1>10, <1>11 DEF StagedOK
<1>13. RowsFound(r)'
  BY <1>2, <1>6, <1>8, <1>9, <1>10 DEF RowsFound
<1>14. \A o \in Requests \ {r} : StagedOK(o)' /\ RowsFound(o)'
  BY <1>1, <1>2, OthersStay
<1>15. RowsOK'
  BY <1>1, <1>2, MovesRows
<1>16. QED
  BY <1>3, <1>4, <1>5, <1>12, <1>13, <1>14, <1>15 DEF Inv

LEMMA InsertsInv ==
  ASSUME Inv, NEW r \in Requests, Inserts(r)
  PROVE  Inv'
<1>1. Moves(r) /\ Active(r)
  BY KindsMove
<1>2. UNCHANGED <<payments, events, answer, stagedEvents>>
  BY DEF Inserts, Unended
<1>3. /\ staged \in [Requests -> SUBSET PaymentRows]
      /\ staged' = [staged EXCEPT ![r] = {Row(r)}]
  BY DEF Inserts, Inv, TypeOK
<1>4. request[r].key \in Keys /\ request[r].body \in Bodies
  BY <1>1 DEF Inv, Wellformed, Active
<1>5. Row(r) \in PaymentRows
  BY <1>4, RowType DEF Inv
<1>6. TypeOK'
  BY <1>1, <1>2, <1>3, <1>5 DEF Inv, TypeOK, Moves
<1>7. Wellformed'
  BY <1>1, <1>2, MovesWellformed
<1>8. EachPaymentItsEvent' /\ LoserFindsWinner'
  BY <1>2 DEF Inv, EachPaymentItsEvent, LoserFindsWinner
<1>9. Row(r)' = Row(r) /\ request'[r].key = request[r].key
  BY <1>1, RowsStay DEF Active
<1>10. request'[r].step = "add_event"
  BY GotoMoves DEF Inserts, Inv, Steps
<1>11. \A p \in payments : p.key # request[r].key
  BY DEF Inserts, Rows
<1>12. \A o \in Requests \ {r} :
         staged[o] # {} => request[o].key # request[r].key
  <2> SUFFICES ASSUME NEW o \in Requests \ {r}, staged[o] # {}
               PROVE  request[o].key # request[r].key
    OBVIOUS
  <2>1. staged[o] = {Row(o)}
    BY DEF Inv, StagedOK
  <2>2. Row(o).key # request[r].key
    BY <2>1 DEF Inserts, KeyFree
  <2>3. QED
    BY <2>2 DEF Row
<1>13. \A o \in Requests \ {r} : request'[o] = request[o] /\ staged'[o] = staged[o]
  BY <1>1, <1>3 DEF Moves
<1>14. staged'[r] = {Row(r)}
  BY <1>3
<1>15. StagedOK(r)'
  <2>1. \A o \in Requests \ {r} :
          staged'[o] # {} => request'[o].key # request'[r].key
    BY <1>9, <1>12, <1>13
  <2>2. \A p \in payments' : p.key # request'[r].key
    BY <1>2, <1>9, <1>11
  <2>3. QED
    BY <1>9, <1>10, <1>14, <2>1, <2>2 DEF StagedOK
<1>16. RowsFound(r)'
  BY <1>10 DEF RowsFound
<1>17. ASSUME NEW o \in Requests \ {r} PROVE StagedOK(o)' /\ RowsFound(o)'
  <2>1. StagedOK(o) /\ RowsFound(o)
    BY DEF Inv
  <2>2. Row(o)' = Row(o)
    BY <1>13 DEF Row
  <2>3. RowsFound(o)'
    BY <1>2, <1>13, <2>1, <2>2 DEF RowsFound
  <2>4. staged[o] # {} =>
          \A x \in Requests \ {o} :
            staged'[x] # {} => request'[x].key # request[o].key
    <3> SUFFICES ASSUME staged[o] # {}, NEW x \in Requests \ {o}, staged'[x] # {}
                 PROVE  request'[x].key # request[o].key
      OBVIOUS
    <3>1. CASE x = r
      BY <1>9, <1>12, <3>1
    <3>2. CASE x # r
      BY <1>13, <2>1, <3>2 DEF StagedOK
    <3>3. QED
      BY <3>1, <3>2
  <2>5. StagedOK(o)'
    BY <1>2, <1>13, <2>1, <2>2, <2>4 DEF StagedOK
  <2>6. QED
    BY <2>3, <2>5
<1>18. RowsOK'
  BY <1>1, <1>2, MovesRows
<1>19. QED
  BY <1>6, <1>7, <1>8, <1>15, <1>16, <1>17, <1>18 DEF Inv

\* What a commit does: the row of the request becomes visible.
LEMMA Commits ==
  ASSUME Inv, NEW r \in Requests, Commit(r)
  PROVE  /\ Row(r) \in PaymentRows
         /\ staged[r] = {Row(r)}
         /\ payments' = payments \cup {Row(r)}
         /\ events' = events \cup {r}
         /\ staged' \in [Requests -> SUBSET PaymentRows]
         /\ staged'[r] = {}
         /\ \A o \in Requests \ {r} : staged'[o] = staged[o]
         /\ EventsKept(r)
         /\ answer' = answer
         /\ request'[r].step \in {"refresh", "failed"}
<1>1. Active(r)
  BY KindsMove
<1>2. Row(r) \in PaymentRows
  BY <1>1, RowType DEF Inv, Wellformed, Active
<1>3. staged[r] = {Row(r)} /\ stagedEvents[r] = {r}
  BY DEF Commit, Inv, StagedOK
<1>4. payments' = payments \cup {Row(r)} /\ events' = events \cup {r}
  BY <1>3 DEF Commit
<1>5. EventsKept(r)
  BY DEF Commit, EndTransaction, EventsKept, Inv, TypeOK
<1>6. /\ staged' \in [Requests -> SUBSET PaymentRows]
      /\ staged'[r] = {}
      /\ \A o \in Requests \ {r} : staged'[o] = staged[o]
      /\ answer' = answer
  BY DEF Commit, EndTransaction, Inv, TypeOK
<1>7. request'[r].step \in {"refresh", "failed"}
  BY GotoMoves DEF Commit, Inv, Steps
<1>8. QED
  BY <1>2, <1>3, <1>4, <1>5, <1>6, <1>7

LEMMA CommitInv ==
  ASSUME Inv, NEW r \in Requests, Commit(r)
  PROVE  Inv'
<1>1. Moves(r) /\ Active(r)
  BY KindsMove
<1>2. Row(r)' = Row(r) /\ request'[r].key = request[r].key
  BY <1>1, RowsStay DEF Active
<1>3. Row(r).id = r /\ Row(r).key = request[r].key
  BY DEF Row
<1>4. TypeOK'
  BY <1>1, Commits DEF Inv, TypeOK, Moves, EventsKept
<1>5. Wellformed'
  BY <1>1, Commits, MovesWellformed
<1>6. EachPaymentItsEvent'
  BY <1>3, Commits DEF Inv, EachPaymentItsEvent
<1>7. LoserFindsWinner'
  BY Commits DEF Inv, LoserFindsWinner
<1>8. StagedOK(r)'
  BY Commits DEF StagedOK
<1>9. RowsFound(r)'
  BY <1>2, Commits DEF RowsFound
<1>10. ASSUME NEW o \in Requests \ {r} PROVE StagedOK(o)' /\ RowsFound(o)'
  <2>1. StagedOK(o) /\ RowsFound(o) /\ StagedOK(r)
    BY DEF Inv
  <2>2. /\ request'[o] = request[o] /\ staged'[o] = staged[o]
        /\ stagedEvents'[o] = stagedEvents[o]
    BY <1>1, Commits DEF Moves, EventsKept
  <2>3. Row(o)' = Row(o)
    BY <2>2 DEF Row
  <2>4. RowsFound(o)'
    BY <2>1, <2>2, <2>3, Commits DEF RowsFound
  <2>5. staged[o] # {} => request[o].key # request[r].key
    BY <2>1, Commits DEF StagedOK
  <2>6. staged[o] # {} => \A p \in payments' : p.key # request[o].key
    BY <1>3, <2>1, <2>5, Commits DEF StagedOK
  <2>7. staged[o] # {} =>
          \A x \in Requests \ {o} :
            staged'[x] # {} => request'[x].key # request[o].key
    <3> SUFFICES ASSUME staged[o] # {}, NEW x \in Requests \ {o}, staged'[x] # {}
                 PROVE  request'[x].key # request[o].key
      OBVIOUS
    <3>1. x # r
      BY Commits
    <3>2. request'[x] = request[x] /\ staged[x] # {}
      BY <1>1, <3>1, Commits DEF Moves
    <3>3. QED
      BY <2>1, <3>2 DEF StagedOK
  <2>8. StagedOK(o)'
    BY <2>1, <2>2, <2>3, <2>6, <2>7 DEF StagedOK
  <2>9. QED
    BY <2>4, <2>8
<1>11. RowsOK'
  <2>1. \A p \in payments : p.id \in Requests
    BY DEF Inv, TypeOK, PaymentRows
  <2>2. \A p \in payments : request'[p.id].step # "idle" /\ p = Row(p.id)'
    BY <1>1, <2>1, RowsStay DEF Inv, RowsOK
  <2>3. request'[r].step # "idle"
    BY <1>1 DEF Moves
  <2>4. QED
    BY <1>2, <1>3, <2>2, <2>3, Commits DEF RowsOK
<1>12. QED
  BY <1>4, <1>5, <1>6, <1>7, <1>8, <1>9, <1>10, <1>11 DEF Inv

LEMMA InvStep == Inv /\ [Next]_vars => Inv'
<1> SUFFICES ASSUME Inv, [Next]_vars PROVE Inv'
  OBVIOUS
<1>1. CASE UNCHANGED vars
  <2>1. TypeOK' /\ Wellformed' /\ EachPaymentItsEvent' /\ LoserFindsWinner'
    BY <1>1 DEF Inv, TypeOK, Wellformed, EachPaymentItsEvent, LoserFindsWinner,
                Active, vars, tables, transaction
  <2>2. \A r \in Requests : Row(r)' = Row(r)
    BY <1>1 DEF Row, vars
  <2>3. \A r \in Requests : StagedOK(r)' /\ RowsFound(r)'
    BY <1>1, <2>2 DEF Inv, StagedOK, RowsFound, vars, tables, transaction
  <2>4. \A p \in payments : p.id \in Requests
    BY DEF Inv, TypeOK, PaymentRows
  <2>5. RowsOK'
    BY <1>1, <2>2, <2>4 DEF Inv, RowsOK, vars, tables
  <2>6. QED
    BY <2>1, <2>3, <2>5 DEF Inv
<1>2. ASSUME NEW r \in Requests, NEW header \in Headers, NEW body \in Bodies,
             Arrive(r, header, body)
      PROVE  Inv'
  BY <1>2, ArriveInv
<1>3. ASSUME NEW r \in Requests, Handle(r) \/ Fail(r) \/ Raise(r) \/ Crash(r)
      PROVE  Inv'
  BY <1>3, Kinds, FinishesInv, InsertsInv, ProceedsInv, CommitInv
<1>4. QED
  BY <1>1, <1>2, <1>3 DEF Next

\* Types hold for any number of requests, keys and bodies.
THEOREM TypeCorrect == Spec => []TypeOK
<1>1. Inv => TypeOK
  BY DEF Inv
<1>2. QED
  BY <1>1, InvInit, InvStep, PTL DEF Spec

\* Payment and event are committed together, whatever fails in between: no
\* transaction commits its payment before it has inserted the event as well.
THEOREM PaymentsHaveEvents == Spec => []EachPaymentItsEvent
<1>1. Inv => EachPaymentItsEvent
  BY DEF Inv
<1>2. QED
  BY <1>1, InvInit, InvStep, PTL DEF Spec

\* An IntegrityError comes from a committed row with the key, and committed
\* rows stay: the second read finds it (RowsFound).
THEOREM WinnersAreFound == Spec => []LoserFindsWinner
<1>1. Inv => LoserFindsWinner
  BY DEF Inv
<1>2. QED
  BY <1>1, InvInit, InvStep, PTL DEF Spec
-----------------------------------------------------------------------------
(* The refinement: a commit binds the key, everything else is asking,      *)
(* answering, or nothing that a client could see.                          *)

\* The variables of the contract, as KeepsContract gives them.
Asked == [r \in Requests |->
            IF request[r].step = "idle" THEN None
            ELSE [key |-> request[r].key, body |-> request[r].body]]

Bound == {<<p.key, p.id>> : p \in payments}

\* Two requests have the same fingerprint exactly when they ask for the same:
\* an amount compares by its value, however many decimals it is written with.
THEOREM SameFingerprint ==
  ASSUME NEW a \in Bodies, NEW b \in Bodies
  PROVE  Fingerprint(a) = Fingerprint(b) <=> Contract!Same(a, b)
<1> DEFINE m == a.amount[1]  n == b.amount[1]
           i == a.amount[2]  j == b.amount[2]
<1>1. /\ m \in Nat /\ i \in {0, 1, 2}
      /\ n \in Nat /\ j \in {0, 1, 2}
  BY AmountsAssumption DEF Bodies
<1>2. Fingerprint(a) = Fingerprint(b) <=>
        Cents(a.amount) = Cents(b.amount) /\ a.rest = b.rest
  BY DEF Fingerprint
<1>3. /\ Cents(a.amount) = IF i = 0 THEN 100 * m ELSE IF i = 1 THEN 10 * m ELSE m
      /\ Cents(b.amount) = IF j = 0 THEN 100 * n ELSE IF j = 1 THEN 10 * n ELSE n
  BY <1>1 DEF Cents
<1>4. Contract!PowerOfTen[0] = 1 /\ Contract!PowerOfTen[1] = 10
      /\ Contract!PowerOfTen[2] = 100
  BY DEF Contract!PowerOfTen
<1>5. Contract!Same(a, b) <=>
        /\ a.rest = b.rest
        /\ m * Contract!PowerOfTen[j] = n * Contract!PowerOfTen[i]
  BY DEF Contract!Same
<1> HIDE DEF m, n, i, j
<1>6. Cents(a.amount) = Cents(b.amount) <=>
        m * Contract!PowerOfTen[j] = n * Contract!PowerOfTen[i]
  <2>1. CASE i = 0 /\ j = 0  BY <1>1, <1>3, <1>4, <2>1
  <2>2. CASE i = 0 /\ j = 1  BY <1>1, <1>3, <1>4, <2>2
  <2>3. CASE i = 0 /\ j = 2  BY <1>1, <1>3, <1>4, <2>3
  <2>4. CASE i = 1 /\ j = 0  BY <1>1, <1>3, <1>4, <2>4
  <2>5. CASE i = 1 /\ j = 1  BY <1>1, <1>3, <1>4, <2>5
  <2>6. CASE i = 1 /\ j = 2  BY <1>1, <1>3, <1>4, <2>6
  <2>7. CASE i = 2 /\ j = 0  BY <1>1, <1>3, <1>4, <2>7
  <2>8. CASE i = 2 /\ j = 1  BY <1>1, <1>3, <1>4, <2>8
  <2>9. CASE i = 2 /\ j = 2  BY <1>1, <1>3, <1>4, <2>9
  <2>10. QED
    BY <1>1, <2>1, <2>2, <2>3, <2>4, <2>5, <2>6, <2>7, <2>8, <2>9
<1>7. QED
  BY <1>2, <1>5, <1>6

\* Nobody else asks, and what was asked stays.
LEMMA AskedStays ==
  ASSUME NEW r \in Requests, Active(r), Moves(r)
  PROVE  Asked' = Asked
<1>1. ASSUME NEW o \in Requests
      PROVE  (IF request'[o].step = "idle" THEN None
              ELSE [key |-> request'[o].key, body |-> request'[o].body])
             = (IF request[o].step = "idle" THEN None
                ELSE [key |-> request[o].key, body |-> request[o].body])
  BY DEF Moves, Active
<1>2. QED
  BY <1>1 DEF Asked

LEMMA AskedOf ==
  ASSUME Inv, NEW r \in Requests, request[r].step # "idle"
  PROVE  /\ Asked[r] # None
         /\ Asked[r].key = request[r].key
         /\ Asked[r].body = request[r].body
<1>1. Asked[r] = [key |-> request[r].key, body |-> request[r].body]
  BY DEF Asked
<1>2. Asked[r] \in [key : Keys \cup {Blank}, body : Bodies]
  BY <1>1 DEF Inv, Wellformed
<1>3. QED
  BY <1>1, <1>2, NoneAssumption DEF Bodies

LEMMA InitRefines == Init => Contract!ContractInit
<1> SUFFICES ASSUME Init PROVE Contract!ContractInit
  OBVIOUS
<1>1. Asked = [r \in Requests |-> None]
  BY DEF Init, NoRequest, Asked
<1>2. Bound = {}
  BY DEF Init, Bound
<1>3. QED
  BY <1>1, <1>2 DEF Init, Contract!ContractInit, Asked, Bound

LEMMA ArriveRefines ==
  ASSUME Inv, NEW r \in Requests, NEW header \in Headers, NEW body \in Bodies,
         Arrive(r, header, body)
  PROVE  Contract!ContractNext
<1> DEFINE key == Strip(header)
<1>1. key \in Keys \cup {Blank}
  BY DEF Headers, Strip
<1>2. PICK step \in {"read", "done"} :
        /\ request' = [request EXCEPT ![r] =
                         [step |-> step, key |-> key, body |-> body]]
        /\ IF key = Blank THEN answer' = [answer EXCEPT ![r] = <<"invalid">>]
                          ELSE answer' = answer
  BY DEF Arrive
<1>3. request[r].step = "idle" /\ payments' = payments
  BY DEF Arrive, tables
<1>4. \A o \in Requests :
        request'[o] = IF o = r THEN [step |-> step, key |-> key, body |-> body]
                               ELSE request[o]
  BY <1>2 DEF Inv, TypeOK
<1>5. Asked[r] = None
  BY <1>3 DEF Asked
<1>6. Asked' = [Asked EXCEPT ![r] = [key |-> key, body |-> body]]
  <2>1. step # "idle"
    BY <1>2
  <2>2. ASSUME NEW o \in Requests
        PROVE  Asked'[o] = IF o = r THEN [key |-> key, body |-> body] ELSE Asked[o]
    BY <1>4, <2>1 DEF Asked
  <2>3. QED
    BY <2>2 DEF Asked
<1>7. Bound' = Bound
  BY <1>3 DEF Bound
<1>8. Contract!Ask(r, key, body)
  BY <1>2, <1>5, <1>6, <1>7 DEF Contract!Ask, Asked, Bound
<1>9. QED
  BY <1>1, <1>8 DEF Contract!ContractNext

LEMMA FinishesRefines ==
  ASSUME Inv, NEW r \in Requests, Finishes(r)
  PROVE  Contract!ContractNext
<1>1. PICK a \in Answers : Justified(r, a) /\ Finish(r, a)
  BY DEF Finishes
<1>2. Active(r) /\ Moves(r)
  BY KindsMove
<1>3. Asked' = Asked
  BY <1>2, AskedStays
<1>4. Bound' = Bound
  BY DEF Finishes, Bound
<1>5. /\ Asked[r] # None
      /\ Asked[r].key = request[r].key
      /\ Asked[r].body = request[r].body
  BY <1>2, AskedOf DEF Active
<1>6. answer[r] = None
  BY <1>2 DEF Inv, Wellformed, Active
<1>7. answer' = [answer EXCEPT ![r] = a]
  BY <1>1 DEF Finish
<1>8. \/ \E id \in Requests :
           /\ <<Asked[r].key, id>> \in Bound
           /\ a = IF Contract!Same(Asked[r].body, Asked[id].body)
                    THEN <<"accepted", id>> ELSE <<"conflict">>
      \/ \E failure \in {"error", "lost"} : a = <<failure>>
  <2>1. CASE a \in {<<"error">>, <<"lost">>}
    BY <2>1
  <2>2. ASSUME NEW p \in Rows(request[r].key),
               a = IF p.fingerprint = Fingerprint(request[r].body)
                     THEN <<"accepted", p.id>> ELSE <<"conflict">>
        PROVE  \E id \in Requests :
                 /\ <<Asked[r].key, id>> \in Bound
                 /\ a = IF Contract!Same(Asked[r].body, Asked[id].body)
                          THEN <<"accepted", id>> ELSE <<"conflict">>
    <3>1. p \in payments /\ p.key = request[r].key
      BY DEF Rows
    <3>2. p.id \in Requests
      BY <3>1 DEF Inv, TypeOK, PaymentRows
    <3>3. request[p.id].step # "idle" /\ p = Row(p.id)
      BY <3>1 DEF Inv, RowsOK
    <3>4. Asked[p.id].body = request[p.id].body
      BY <3>2, <3>3, AskedOf
    <3>5. p.fingerprint = Fingerprint(request[p.id].body)
      BY <3>3 DEF Row
    <3>6. request[p.id].body \in Bodies /\ request[r].body \in Bodies
      BY <1>2, <3>2, <3>3 DEF Inv, Wellformed, Active
    <3>7. p.fingerprint = Fingerprint(request[r].body) <=>
            Contract!Same(Asked[r].body, Asked[p.id].body)
      BY <1>5, <3>4, <3>5, <3>6, SameFingerprint
    <3>8. <<Asked[r].key, p.id>> \in Bound
      BY <1>5, <3>1 DEF Bound
    <3>9. QED
      BY <2>2, <3>2, <3>7, <3>8
  <2>3. QED
    BY <1>1, <2>1, <2>2 DEF Justified
<1>9. Contract!Answer(r)
  BY <1>3, <1>4, <1>5, <1>6, <1>7, <1>8 DEF Contract!Answer, Asked, Bound
<1>10. QED
  BY <1>9 DEF Contract!ContractNext

LEMMA CommitRefines ==
  ASSUME Inv, NEW r \in Requests, Commit(r)
  PROVE  Contract!ContractNext
<1>1. Active(r) /\ Moves(r)
  BY KindsMove
<1>2. Asked' = Asked
  BY <1>1, AskedStays
<1>3. Asked[r] # None /\ Asked[r].key = request[r].key
  BY <1>1, AskedOf DEF Active
<1>4. answer[r] = None /\ answer' = answer
  BY <1>1, Commits DEF Inv, Wellformed, Active
<1>5. Row(r).key = request[r].key /\ Row(r).id = r
  BY DEF Row
<1>6. Bound' = Bound \cup {<<Asked[r].key, r>>}
  BY <1>3, <1>5, Commits DEF Bound
<1>7. \A p \in payments : p.key # request[r].key
  BY Commits DEF Inv, StagedOK
<1>8. \A id \in Requests : <<Asked[r].key, id>> \notin Bound
  BY <1>3, <1>7 DEF Bound
<1>9. Contract!Bind(r)
  BY <1>2, <1>3, <1>4, <1>6, <1>8 DEF Contract!Bind, Asked, Bound
<1>10. QED
  BY <1>9 DEF Contract!ContractNext

LEMMA SilentRefines ==
  ASSUME Inv, NEW r \in Requests, Inserts(r) \/ Proceeds(r)
  PROVE  UNCHANGED Contract!contractVars
<1>1. Active(r) /\ Moves(r)
  BY KindsMove
<1>2. Asked' = Asked
  BY <1>1, AskedStays
<1>3. Bound' = Bound /\ answer' = answer
  BY DEF Inserts, Proceeds, Unended, Bound
<1>4. QED
  BY <1>2, <1>3 DEF Contract!contractVars, Asked, Bound

LEMMA NextRefines ==
  Inv /\ [Next]_vars => [Contract!ContractNext]_Contract!contractVars
<1> SUFFICES ASSUME Inv, [Next]_vars
             PROVE  Contract!ContractNext \/ UNCHANGED Contract!contractVars
  OBVIOUS
<1>1. CASE UNCHANGED vars
  BY <1>1 DEF vars, tables, Contract!contractVars
<1>2. ASSUME NEW r \in Requests, NEW header \in Headers, NEW body \in Bodies,
             Arrive(r, header, body)
      PROVE  Contract!ContractNext
  BY <1>2, ArriveRefines
<1>3. ASSUME NEW r \in Requests, Handle(r) \/ Fail(r) \/ Raise(r) \/ Crash(r)
      PROVE  Contract!ContractNext \/ UNCHANGED Contract!contractVars
  BY <1>3, Kinds, FinishesRefines, CommitRefines, SilentRefines
<1>4. QED
  BY <1>1, <1>2, <1>3 DEF Next

\* However many requests race and fail, a key is bound to one payment, once,
\* and all answers agree on it.
THEOREM CreationRefines == Spec => KeepsContract
<1>1. QED
  BY InvInit, InvStep, InitRefines, NextRefines, PTL
  DEF Spec, KeepsContract, Contract!ContractSpec
=============================================================================
