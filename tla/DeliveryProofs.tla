------------------------------ MODULE DeliveryProofs ------------------------------
(***************************************************************************)
(* What is delivered at least once, and what that never does.              *)
(*                                                                         *)
(* Outbox, for every set of events and of dispatchers, every cap on        *)
(* attempts, every batch size and every number of deaths: rows are claimed *)
(* by one dispatcher at a time, every delivery is accounted for, and the   *)
(* outbox implements what OutboxPromise promises (its safety).             *)
(*                                                                         *)
(* FieldSync, for every number of actions and of overlapping replays: a    *)
(* photo or a clock-in takes effect once, nothing is forgotten, and what   *)
(* takes effect does so in the order in which it was done.                 *)
(*                                                                         *)
(* FrontDesk, for every number of customers, phones, links and sign-ups:   *)
(* messages stay in their thread, replies follow the customer's last       *)
(* message, links and notifications go where they should, and once.        *)
(***************************************************************************)
EXTENDS Outbox, FieldSync, FrontDesk, SequenceTheorems, WellFoundedInduction, TLAPS

(* A pass has each of its rows in one place only. *)
PassesSound ==
  \A d \in Dispatchers : /\ pass[d].todo \cap pass[d].ok = {}
                         /\ pass[d].todo \cap pass[d].failed = {}
                         /\ pass[d].ok \cap pass[d].failed = {}

(* A row is there only once its producer is done, and a row that is not     *)
(* there has not been tried.                                                *)
RowsFollowChange ==
  /\ halfway \subseteq changed
  /\ \A e \in Events :
       /\ row[e].status # "absent" => e \in changed \ halfway
       /\ row[e].status = "absent" => row[e].attempts = 0

IInv == /\ TypeOK
        /\ ClaimsExclusive
        /\ PassesSound
        /\ RowsFollowChange
        /\ SendsAccountedFor
        /\ AttemptsCapped

USE EventsAssumption, BoundsAssumption

LEMMA InitEstablishes == Init => IInv
BY DEF Init, IInv, TypeOK, ClaimsExclusive, PassesSound, RowsFollowChange,
       SendsAccountedFor, AttemptsCapped, SentWell, Held, NoPass, Row, Pass

-----------------------------------------------------------------------------
(* Writing the event of a change nobody has written yet. *)
LEMMA EnqueueKeeps ==
  ASSUME NEW e \in Events, IInv, enqueue(e), row[e].status = "absent",
         UNCHANGED <<pass, sent, unrecorded, deaths>>,
         e \in changed', changed \subseteq changed', changed' \subseteq Events,
         e \notin halfway', halfway' \subseteq halfway
  PROVE  IInv'
<1> USE DEF IInv
<1>1. /\ row' = [row EXCEPT ![e].status = "pending"]
      /\ row'[e].status = "pending" /\ row'[e].attempts = 0
      /\ \A x \in Events : x # e => row'[x] = row[x]
  BY DEF enqueue, TypeOK, RowsFollowChange, Row
<1>2. \A d \in Dispatchers : e \notin Held(d)
  BY DEF ClaimsExclusive
<1>3. TypeOK'
  BY <1>1 DEF TypeOK, Row
<1>4. ClaimsExclusive'
  BY <1>1 DEF ClaimsExclusive, Held
<1>5. PassesSound'
  BY DEF PassesSound
<1>6. RowsFollowChange'
  BY <1>1 DEF RowsFollowChange
<1>7. SendsAccountedFor'
  BY <1>1 DEF SendsAccountedFor, SentWell
<1>8. AttemptsCapped'
  BY <1>1 DEF AttemptsCapped
<1> QED BY <1>3, <1>4, <1>5, <1>6, <1>7, <1>8

LEMMA ProduceKeeps ==
  ASSUME IInv, Produce
  PROVE  IInv'
<1> USE DEF IInv
<1>1. ASSUME NEW e \in Events, ProduceTogether(e)  PROVE  IInv'
  BY <1>1, EnqueueKeeps DEF ProduceTogether, RowsFollowChange, TypeOK
<1>2. ASSUME NEW e \in Events, EventAfterwards(e)  PROVE  IInv'
  BY <1>2, EnqueueKeeps DEF EventAfterwards, RowsFollowChange, TypeOK
<1>3. ASSUME NEW e \in Events, ChangeFirst(e) \/ ProducerDies(e)  PROVE  IInv'
  <2>1. UNCHANGED <<row, pass, sent, unrecorded>>
    BY <1>3 DEF ChangeFirst, ProducerDies
  <2>2. TypeOK'
    <3>1. deaths' \in Nat
      BY <1>3 DEF ChangeFirst, ProducerDies, TypeOK
    <3>2. changed' \subseteq Events /\ halfway' \subseteq Split
      BY <1>3 DEF ChangeFirst, ProducerDies, TypeOK
    <3> QED BY <2>1, <3>1, <3>2 DEF TypeOK
  <2>3. RowsFollowChange'
    BY <1>3 DEF ChangeFirst, ProducerDies, RowsFollowChange
  <2> QED
    BY <2>1, <2>2, <2>3 DEF ClaimsExclusive, PassesSound, SendsAccountedFor,
                            AttemptsCapped, SentWell, Held
<1> QED BY <1>1, <1>2, <1>3 DEF Produce

-----------------------------------------------------------------------------
LEMMA ClaimKeeps ==
  ASSUME NEW d \in Dispatchers, IInv, Claim(d)
  PROVE  IInv'
<1> USE DEF IInv
<1> DEFINE batch == Oldest(Claimable)
<1>1. batch \subseteq Claimable
  BY DEF Oldest
<1>2. /\ pass' = [pass EXCEPT ![d].todo = batch]
      /\ pass[d].ok = {} /\ pass[d].failed = {}
      /\ UNCHANGED <<changed, halfway, row, sent, unrecorded, deaths>>
  BY DEF Claim, Held
<1> HIDE DEF batch
<1>3. /\ pass'[d].todo = batch /\ pass'[d].ok = {} /\ pass'[d].failed = {}
      /\ \A c \in Dispatchers : c # d => pass'[c] = pass[c]
  BY <1>2 DEF TypeOK, Pass
<1>4. TypeOK'
  <2>1. batch \in SUBSET Events
    BY <1>1 DEF Claimable
  <2> QED BY <1>2, <2>1 DEF TypeOK, Pass
<1>5. ClaimsExclusive'
  <2>1. Held(d)' = batch /\ \A c \in Dispatchers : c # d => Held(c)' = Held(c)
    BY <1>3 DEF Held
  <2>2. \A x \in batch : row[x].status = "pending"
                           /\ \A c \in Dispatchers : x \notin Held(c)
    BY <1>1 DEF Claimable
  <2> QED BY <1>2, <2>1, <2>2 DEF ClaimsExclusive
<1>6. PassesSound'
  BY <1>3 DEF PassesSound
<1>7. SendsAccountedFor'
  <2>1. \A c \in Dispatchers : pass'[c].ok = pass[c].ok
    BY <1>2, <1>3
  <2> QED BY <1>2, <2>1 DEF SendsAccountedFor, SentWell
<1>8. RowsFollowChange' /\ AttemptsCapped'
  BY <1>2 DEF RowsFollowChange, AttemptsCapped
<1> QED BY <1>4, <1>5, <1>6, <1>7, <1>8

(* A row that is worked on moves within its pass; good says where to. *)
LEMMA MovedKeeps ==
  ASSUME NEW d \in Dispatchers, NEW e \in Events, IInv, e \in pass[d].todo,
         NEW good \in BOOLEAN, IF good THEN Succeeded(d, e) ELSE Failed(d, e),
         UNCHANGED row
  PROVE  /\ pass' \in [Dispatchers -> Pass]
         /\ ClaimsExclusive'
         /\ PassesSound'
         /\ \A x \in Events \ {e} : SentWell(x)' <=> SentWell(x)
         /\ ~SentWell(e)
         /\ SentWell(e)' <=> good
<1> USE DEF IInv
<1>1. /\ pass'[d].todo = pass[d].todo \ {e}
      /\ pass'[d].ok = IF good THEN pass[d].ok \cup {e} ELSE pass[d].ok
      /\ pass'[d].failed = IF good THEN pass[d].failed ELSE pass[d].failed \cup {e}
      /\ \A c \in Dispatchers : c # d => pass'[c] = pass[c]
  <2>1. CASE good
    <3>1. pass' = [pass EXCEPT ![d].todo = pass[d].todo \ {e},
                               ![d].ok = pass[d].ok \cup {e}]
      BY <2>1 DEF Succeeded
    <3> QED BY <2>1, <3>1 DEF TypeOK, Pass
  <2>2. CASE ~good
    <3>1. pass' = [pass EXCEPT ![d].todo = pass[d].todo \ {e},
                               ![d].failed = pass[d].failed \cup {e}]
      BY <2>2 DEF Failed
    <3> QED BY <2>2, <3>1 DEF TypeOK, Pass
  <2> QED BY <2>1, <2>2
<1>2. pass' \in [Dispatchers -> Pass]
  BY DEF Succeeded, Failed, TypeOK, Pass
<1>3. \A c \in Dispatchers : Held(c)' = Held(c)
  BY <1>1 DEF Held
<1>4. ClaimsExclusive'
  BY <1>3 DEF ClaimsExclusive
<1>5. PassesSound'
  BY <1>1 DEF PassesSound
<1>6. \A c \in Dispatchers : e \notin pass[c].ok
  BY DEF PassesSound, ClaimsExclusive, Held
<1>7. row[e].status # "dispatched"
  BY DEF ClaimsExclusive, Held
<1>8. \A x \in Events \ {e} : SentWell(x)' <=> SentWell(x)
  BY <1>1 DEF SentWell
<1>9. ~SentWell(e)
  BY <1>6, <1>7 DEF SentWell
<1>10. SentWell(e)' <=> good
  BY <1>1, <1>6, <1>7 DEF SentWell
<1> QED BY <1>2, <1>4, <1>5, <1>8, <1>9, <1>10

LEMMA HandleKeeps ==
  ASSUME NEW d \in Dispatchers, IInv, Handle(d)
  PROVE  IInv'
<1> USE DEF IInv
<1>1. PICK e \in Events : \/ NothingToSend(d, e)
                          \/ Deliver(d, e)
                          \/ FailToSend(d, e)
                          \/ FailAfterSending(d, e)
  BY DEF Handle
<1>2. /\ e \in pass[d].todo
      /\ UNCHANGED <<changed, halfway, row, deaths>>
  BY <1>1 DEF NothingToSend, Deliver, FailToSend, FailAfterSending, Current
<1>3. PICK good \in BOOLEAN :
        /\ IF good THEN Succeeded(d, e) ELSE Failed(d, e)
        /\ sent' \in [Events -> Nat] /\ unrecorded' \in [Events -> Nat]
        /\ \A x \in Events \ {e} : sent'[x] = sent[x]
                                     /\ unrecorded'[x] = unrecorded[x]
        /\ e \notin Silent =>
             sent'[e] - unrecorded'[e]
               = sent[e] - unrecorded[e] + (IF good THEN 1 ELSE 0)
  <2>1. CASE NothingToSend(d, e)
    <3> WITNESS TRUE \in BOOLEAN
    <3> QED BY <2>1 DEF NothingToSend, TypeOK
  <2>2. CASE Deliver(d, e)
    <3> WITNESS TRUE \in BOOLEAN
    <3> QED BY <2>2 DEF Deliver, TypeOK
  <2>3. CASE FailToSend(d, e)
    <3> WITNESS FALSE \in BOOLEAN
    <3> QED BY <2>3 DEF FailToSend, TypeOK
  <2>4. CASE FailAfterSending(d, e)
    <3> WITNESS FALSE \in BOOLEAN
    <3> QED BY <2>4 DEF FailAfterSending, TypeOK
  <2> QED BY <1>1, <2>1, <2>2, <2>3, <2>4
<1>4. /\ pass' \in [Dispatchers -> Pass]
      /\ ClaimsExclusive'
      /\ PassesSound'
      /\ \A x \in Events \ {e} : SentWell(x)' <=> SentWell(x)
      /\ ~SentWell(e)
      /\ SentWell(e)' <=> good
  BY <1>2, <1>3, MovedKeeps
<1>5. TypeOK'
  BY <1>2, <1>3, <1>4 DEF TypeOK
<1>6. SendsAccountedFor'
  <2>1. ASSUME NEW x \in Events \ Silent
        PROVE  sent'[x] = unrecorded'[x] + (IF SentWell(x)' THEN 1 ELSE 0)
    <3>1. sent[x] = unrecorded[x] + (IF SentWell(x) THEN 1 ELSE 0)
      BY DEF SendsAccountedFor
    <3>2. /\ sent[x] \in Nat /\ unrecorded[x] \in Nat
          /\ sent'[x] \in Nat /\ unrecorded'[x] \in Nat
      BY <1>3 DEF TypeOK
    <3>3. CASE x = e
      <4>1. sent'[x] - unrecorded'[x] = IF good THEN 1 ELSE 0
        BY <1>3, <1>4, <3>1, <3>2, <3>3
      <4> QED BY <1>4, <3>2, <3>3, <4>1
    <3>4. CASE x # e
      BY <1>3, <1>4, <3>1, <3>4
    <3> QED BY <3>3, <3>4
  <2> QED BY <2>1 DEF SendsAccountedFor
<1>7. RowsFollowChange' /\ AttemptsCapped'
  BY <1>2 DEF RowsFollowChange, AttemptsCapped
<1> QED BY <1>4, <1>5, <1>6, <1>7

(* The end of a pass, good or bad, lets go of all its rows. *)
LEMMA LetGo ==
  ASSUME NEW d \in Dispatchers, IInv, pass' = [pass EXCEPT ![d] = NoPass]
  PROVE  /\ pass' \in [Dispatchers -> Pass]
         /\ PassesSound'
         /\ Held(d)' = {}
         /\ \A c \in Dispatchers : c # d => pass'[c] = pass[c]
                                              /\ Held(c)' = Held(c)
         /\ pass'[d].ok = {}
<1>1. /\ pass'[d].todo = {} /\ pass'[d].ok = {} /\ pass'[d].failed = {}
      /\ \A c \in Dispatchers : c # d => pass'[c] = pass[c]
  BY DEF IInv, TypeOK, Pass, NoPass
<1> QED
  BY <1>1 DEF IInv, TypeOK, Pass, NoPass, PassesSound, Held

LEMMA CommitPassKeeps ==
  ASSUME NEW d \in Dispatchers, IInv, CommitPass(d)
  PROVE  IInv'
<1> USE DEF IInv
<1>1. /\ pass' = [pass EXCEPT ![d] = NoPass]
      /\ UNCHANGED <<changed, halfway, sent, unrecorded, deaths>>
      /\ \A x \in Events \cap Held(d) : row'[x] = Record(row[x], x \in pass[d].ok)
      /\ \A x \in Events \ Held(d) : row'[x] = row[x]
      /\ row' = [x \in Events |-> row'[x]]
  BY DEF CommitPass
<1>2. /\ pass' \in [Dispatchers -> Pass]
      /\ PassesSound'
      /\ Held(d)' = {}
      /\ \A c \in Dispatchers : c # d => pass'[c] = pass[c]
                                           /\ Held(c)' = Held(c)
      /\ pass'[d].ok = {}
  BY <1>1, LetGo
<1>3. ASSUME NEW x \in Events \cap Held(d)
      PROVE  /\ row'[x] \in Row
             /\ row[x].status = "pending" /\ row'[x].status # "absent"
             /\ row'[x].status = "dispatched" <=> x \in pass[d].ok
             /\ row'[x].status = "pending" => row'[x].attempts < MAX_DISPATCH_ATTEMPTS
             /\ row'[x].status = "dead_letter" => row'[x].attempts = MAX_DISPATCH_ATTEMPTS
             /\ row'[x].attempts <= MAX_DISPATCH_ATTEMPTS
  <2>1. /\ row[x].status = "pending" /\ row[x].attempts \in Nat
        /\ row[x].attempts < MAX_DISPATCH_ATTEMPTS
    BY DEF ClaimsExclusive, AttemptsCapped, TypeOK, Row
  <2> QED BY <1>1, <2>1 DEF Record, Row
<1>4. TypeOK'
  <2>1. \A x \in Events : row'[x] \in Row
    BY <1>1, <1>3 DEF TypeOK
  <2> QED BY <1>1, <1>2, <2>1 DEF TypeOK
<1>5. ClaimsExclusive'
  BY <1>1, <1>2 DEF ClaimsExclusive
<1>6. RowsFollowChange'
  BY <1>1, <1>3 DEF RowsFollowChange
<1>7. SendsAccountedFor'
  <2>1. ASSUME NEW x \in Events  PROVE  SentWell(x)' <=> SentWell(x)
    <3>1. CASE x \in Held(d)
      <4>1. \A c \in Dispatchers : c # d => x \notin Held(c)
        BY <3>1 DEF ClaimsExclusive
      <4>2. \A c \in Dispatchers : c # d => x \notin pass[c].ok
        BY <4>1 DEF Held
      <4> QED BY <1>2, <1>3, <3>1, <4>2 DEF SentWell
    <3>2. CASE x \notin Held(d)
      <4>1. x \notin pass[d].ok
        BY <3>2 DEF Held
      <4> QED BY <1>1, <1>2, <3>2, <4>1 DEF SentWell
    <3> QED BY <3>1, <3>2
  <2> QED BY <1>1, <2>1 DEF SendsAccountedFor
<1>8. AttemptsCapped'
  BY <1>1, <1>3 DEF AttemptsCapped
<1> QED BY <1>2, <1>4, <1>5, <1>6, <1>7, <1>8

LEMMA DispatcherDiesKeeps ==
  ASSUME NEW d \in Dispatchers, IInv, DispatcherDies(d)
  PROVE  IInv'
<1> USE DEF IInv
<1>1. /\ pass' = [pass EXCEPT ![d] = NoPass]
      /\ UNCHANGED <<changed, halfway, row, sent>>
      /\ deaths' = deaths + 1
      /\ unrecorded' \in [Events -> Nat]
      /\ \A x \in Events : unrecorded'[x] =
           IF x \in pass[d].ok \ Silent THEN unrecorded[x] + 1 ELSE unrecorded[x]
  BY DEF DispatcherDies, TypeOK
<1>2. /\ pass' \in [Dispatchers -> Pass]
      /\ PassesSound'
      /\ Held(d)' = {}
      /\ \A c \in Dispatchers : c # d => pass'[c] = pass[c]
                                           /\ Held(c)' = Held(c)
      /\ pass'[d].ok = {}
  BY <1>1, LetGo
<1>3. TypeOK'
  BY <1>1, <1>2 DEF TypeOK
<1>4. ClaimsExclusive'
  BY <1>1, <1>2 DEF ClaimsExclusive
<1>5. SendsAccountedFor'
  <2>1. ASSUME NEW x \in Events \ Silent
        PROVE  sent'[x] = unrecorded'[x] + (IF SentWell(x)' THEN 1 ELSE 0)
    <3>1. /\ sent[x] = unrecorded[x] + (IF SentWell(x) THEN 1 ELSE 0)
          /\ unrecorded[x] \in Nat
      BY DEF SendsAccountedFor, TypeOK
    <3>2. CASE x \in pass[d].ok
      <4>1. row[x].status = "pending"
              /\ \A c \in Dispatchers : c # d => x \notin pass[c].ok
        BY <3>2 DEF ClaimsExclusive, Held
      <4>2. SentWell(x) /\ ~SentWell(x)'
        BY <1>1, <1>2, <3>2, <4>1 DEF SentWell
      <4> QED BY <1>1, <3>1, <3>2, <4>2
    <3>3. CASE x \notin pass[d].ok
      <4>1. SentWell(x)' <=> SentWell(x)
        BY <1>1, <1>2, <3>3 DEF SentWell
      <4> QED BY <1>1, <3>1, <3>3, <4>1
    <3> QED BY <3>2, <3>3
  <2> QED BY <2>1 DEF SendsAccountedFor
<1>6. RowsFollowChange' /\ AttemptsCapped'
  BY <1>1 DEF RowsFollowChange, AttemptsCapped
<1> QED BY <1>2, <1>3, <1>4, <1>5, <1>6

-----------------------------------------------------------------------------
LEMMA NextKeeps == IInv /\ [Next]_vars => IInv'
<1> SUFFICES ASSUME IInv, [Next]_vars  PROVE  IInv'
  OBVIOUS
<1>1. CASE Produce
  BY <1>1, ProduceKeeps
<1>2. CASE Dispatch
  BY <1>2, ClaimKeeps, HandleKeeps, CommitPassKeeps, DispatcherDiesKeeps
     DEF Dispatch
<1>3. CASE UNCHANGED vars
  BY <1>3 DEF vars, IInv, TypeOK, ClaimsExclusive, PassesSound,
              RowsFollowChange, SendsAccountedFor, AttemptsCapped, SentWell, Held
<1> QED BY <1>1, <1>2, <1>3 DEF Next

\* Every behaviour of the outbox satisfies the inductive invariant.
THEOREM Invariance == Spec => []IInv
BY InitEstablishes, NextKeeps, PTL DEF Spec

\* Every row, pass and counter keeps its type.
THEOREM TypeCorrect == Spec => []TypeOK
BY Invariance, PTL DEF IInv

\* However many dispatchers run at once, no two of them work on the same row,
\* and none works on a row that is settled.
THEOREM NoSharedRow == Spec => []ClaimsExclusive
BY Invariance, PTL DEF IInv

\* Every delivery beyond the first is the fault of a worker that died or of a
\* transport whose answer was lost, and a dispatched event did go out.
THEOREM EveryMailAccountedFor == Spec => []SendsAccountedFor
BY Invariance, PTL DEF IInv

\* A row is retried up to the cap and given up exactly at it.
THEOREM RetriesCapped == Spec => []AttemptsCapped
BY Invariance, PTL DEF IInv

-----------------------------------------------------------------------------
(* The outbox keeps its promise. *)
LEMMA PromiseStep == IInv /\ [Next]_vars => [Promise!Next]_(Promise!promise)
<1> SUFFICES ASSUME IInv, [Next]_vars
             PROVE  [Promise!Next]_(Promise!promise)
  OBVIOUS
<1> DEFINE stage == [e \in Events |-> row[e].status]
<1> USE DEF IInv
<1>1. ASSUME NEW e \in Events, enqueue(e), row[e].status = "absent",
             UNCHANGED sent
      PROVE  Promise!Owe(e)
  <2>1. stage' = [stage EXCEPT ![e] = "pending"]
    BY <1>1 DEF enqueue, TypeOK, Row
  <2> QED BY <1>1, <2>1 DEF Promise!Owe
<1>2. CASE Produce
  <2>1. ASSUME NEW e \in Events, ProduceTogether(e) \/ EventAfterwards(e)
        PROVE  Promise!Owe(e)
    BY <1>1, <2>1 DEF ProduceTogether, EventAfterwards, RowsFollowChange
  <2>2. ASSUME NEW e \in Events, ChangeFirst(e) \/ ProducerDies(e)
        PROVE  UNCHANGED Promise!promise
    BY <2>2 DEF ChangeFirst, ProducerDies, Promise!promise
  <2> QED BY <1>2, <2>1, <2>2 DEF Produce, Promise!Next
<1>3. ASSUME NEW d \in Dispatchers, Handle(d)
      PROVE  Promise!Next \/ UNCHANGED Promise!promise
  <2>1. ASSUME NEW e \in Events, Deliver(d, e) \/ FailAfterSending(d, e)
        PROVE  Promise!Send(e)
    <3>1. row[e].status = "pending"
      BY <2>1 DEF Deliver, FailAfterSending, Current, ClaimsExclusive, Held
    <3> QED BY <2>1, <3>1 DEF Deliver, FailAfterSending, Promise!Send
  <2>2. ASSUME NEW e \in Events, NothingToSend(d, e) \/ FailToSend(d, e)
        PROVE  UNCHANGED Promise!promise
    BY <2>2 DEF NothingToSend, FailToSend, Promise!promise
  <2> QED BY <1>3, <2>1, <2>2 DEF Handle, Promise!Next
<1>4. ASSUME NEW d \in Dispatchers, CommitPass(d)
      PROVE  Promise!Next
  <2> DEFINE Good == pass[d].ok
             Bad  == {e \in pass[d].failed : row'[e].status = "dead_letter"}
  <2>1. Good \in SUBSET Events /\ Bad \in SUBSET Events
    BY DEF TypeOK, Pass
  <2>2. Good \cap Bad = {}
    BY DEF PassesSound
  <2>3. \A e \in Good \cup Bad : row[e].status = "pending"
    BY <2>1 DEF ClaimsExclusive, Held
  <2>4. \A e \in Good \ Silent : sent[e] > 0
    <3>1. ASSUME NEW e \in Good \ Silent  PROVE  sent[e] > 0
      <4>1. SentWell(e) /\ sent[e] \in Nat /\ unrecorded[e] \in Nat
        BY <2>1 DEF SentWell, TypeOK
      <4>2. sent[e] = unrecorded[e] + 1
        BY <2>1, <4>1 DEF SendsAccountedFor
      <4> QED BY <4>1, <4>2
    <3> QED BY <3>1
  <2>5. ASSUME NEW e \in Events
        PROVE  row'[e].status = IF e \in Good THEN "dispatched"
                                ELSE IF e \in Bad THEN "dead_letter"
                                ELSE row[e].status
    <3>1. CASE e \in Held(d)
      <4>1. row'[e] = Record(row[e], e \in pass[d].ok)
              /\ row[e].status = "pending" /\ pass[d].todo = {}
        BY <1>4, <3>1 DEF CommitPass, ClaimsExclusive
      <4> QED BY <3>1, <4>1 DEF Record, Held
    <3>2. CASE e \notin Held(d)
      BY <1>4, <3>2 DEF CommitPass, Held
    <3> QED BY <3>1, <3>2
  <2>6. UNCHANGED sent
    BY <1>4 DEF CommitPass
  <2>7. PICK G \in SUBSET Events, B \in SUBSET Events : G = Good /\ B = Bad
    BY <2>1
  <2>8. Promise!Settle(G, B)
    BY <2>2, <2>3, <2>4, <2>5, <2>6, <2>7 DEF Promise!Settle
  <2> QED BY <2>8 DEF Promise!Next
<1>5. ASSUME NEW d \in Dispatchers, Claim(d) \/ DispatcherDies(d)
      PROVE  UNCHANGED Promise!promise
  BY <1>5 DEF Claim, DispatcherDies, Promise!promise
<1>6. CASE UNCHANGED vars
  BY <1>6 DEF vars, Promise!promise
<1> QED
  BY <1>2, <1>3, <1>4, <1>5, <1>6 DEF Next, Dispatch

\* The outbox with its dispatchers, claims, retries and deaths implements the
\* safety part of OutboxPromise.
THEOREM PromiseImplemented == Spec => PromiseKept
<1>1. Init => Promise!Init
  BY DEF Init, Promise!Init
<1> QED
  BY <1>1, PromiseStep, Invariance, PTL DEF Spec, PromiseKept, Promise!Spec

-----------------------------------------------------------------------------
(* The phone's queue (FieldSync).                                            *)

USE FieldSyncAssumption

(* It has had an effect, or the phone has let go of it: accepted, purged or   *)
(* wiped.                                                                    *)
Done(a) == effect[a] > 0 \/ a \in settled \union wiped

(* Keys are minted in order. *)
TakenInOrder == \A a \in Taken, b \in Actions \ Taken : a < b

(* All that was done before b is done with, or in S. *)
Before(S, b) == \A a \in Taken : a < b => a \in S \/ Done(a)

(* However old the queue it read, a replay leaves nothing out before what it *)
(* has still to send.                                                        *)
ReplaysOk ==
  \A r \in Replays :
    /\ replay[r].todo \subseteq Taken
    /\ replay[r].stage # "idle" => replay[r].todo # {}
    /\ \A b \in replay[r].todo : Before(replay[r].todo, b)

(* So when a request is under way, all before it is done with.               *)
RequestsOk ==
  \A r \in Replays :
    /\ request[r].stage # "none" => request[r].action \in Taken
    /\ request[r].stage \in {"arrived", "checked"} => Before({}, request[r].action)

ServerKnows(a) ==
  IF kind[a] = "attachment" THEN \E n \in DOMAIN photos : photos[n] = a
  ELSE \E n \in DOMAIN entries : entries[n].key = a

(* What a photo or a clock-in did is in the tables under its key.            *)
EffectsOk ==
  \A a \in Actions :
    /\ a \notin Taken => effect[a] = 0
    /\ kind[a] \in {"attachment", "clock_in"} =>
         effect[a] <= 1 /\ (effect[a] = 1 => ServerKnows(a))

FieldInv ==
  /\ FieldTypeOK
  /\ TakenInOrder /\ ReplaysOk /\ RequestsOk /\ EffectsOk
  /\ InOrder /\ NothingForgotten

LEMMA FieldStarts == FieldInit => FieldInv
<1> SUFFICES ASSUME FieldInit  PROVE FieldInv
  OBVIOUS
<1>1. Taken = {}
  BY DEF FieldInit, Taken
<1>2. <<>> \in Seq(Actions) /\ <<>> \in Seq(Entry)
  OBVIOUS
<1>3. FieldTypeOK
  BY <1>1, <1>2 DEF FieldInit, FieldTypeOK, Replay, Request, NoRequest, None
<1>4. TakenInOrder /\ InOrder /\ NothingForgotten
  BY <1>1 DEF TakenInOrder, InOrder, NothingForgotten
<1>5. ReplaysOk /\ RequestsOk /\ EffectsOk
  BY <1>1 DEF FieldInit, ReplaysOk, RequestsOk, EffectsOk, NoRequest
<1> QED
  BY <1>3, <1>4, <1>5 DEF FieldInv

LEMMA SmallestNat ==
  ASSUME NEW S, S \subseteq Nat, S # {}
  PROVE  Min(S) \in S /\ \A y \in S : Min(S) <= y
<1>1. PICK x \in S : \A y \in S : ~ (<<y, x>> \in OpToRel(<, Nat))
  BY NatLessThanWellFounded, WFMin
<1>2. \A y \in S : ~ (y < x)
  <2> SUFFICES ASSUME NEW y \in S, y < x  PROVE FALSE
    OBVIOUS
  <2> DEFINE pair == <<y, x>>
  <2>1. pair \in Nat \X Nat /\ pair[1] < pair[2]
    OBVIOUS
  <2>2. pair \in OpToRel(<, Nat)
    BY <2>1, Zenon DEF OpToRel
  <2> QED
    BY <1>1, <2>2
<1>3. \A y \in S : x <= y
  BY <1>2
<1> QED
  BY <1>3 DEF Min

LEMMA FirstIsLeft ==
  ASSUME FieldInv, NEW r \in Replays, replay[r].stage # "idle"
  PROVE  /\ FirstLeft(r) \in replay[r].todo /\ FirstLeft(r) \in Taken /\ FirstLeft(r) \in Actions
         /\ \A a \in replay[r].todo : FirstLeft(r) <= a
<1>1. replay[r].todo # {} /\ replay[r].todo \subseteq Taken /\ Taken \subseteq Actions
  BY DEF FieldInv, ReplaysOk, Taken
<1>2. replay[r].todo \subseteq Nat
  BY <1>1
<1> QED
  BY <1>1, <1>2, SmallestNat DEF FirstLeft

(* What was done with stays so. *)
LEMMA StillBefore ==
  ASSUME UNCHANGED kind, settled \subseteq settled', wiped \subseteq wiped',
         \A a \in Taken : effect[a] > 0 => effect'[a] > 0,
         NEW S, NEW b, Before(S, b)
  PROVE  \A a \in Taken' : a < b => a \in S \/ Done(a)'
  BY DEF Before, Done, Taken

(* A step of the phone that takes nothing new.                               *)
LEMMA PhoneKeeps ==
  ASSUME FieldInv, UNCHANGED <<kind, photos, entries, effect>>, settled \subseteq settled', wiped \subseteq wiped'
  PROVE  TakenInOrder' /\ EffectsOk' /\ InOrder'
<1>1. Taken' = Taken
  BY DEF Taken
<1>2. TakenInOrder' /\ EffectsOk'
  BY <1>1 DEF FieldInv, TakenInOrder, EffectsOk, ServerKnows
<1>3. InOrder'
  BY <1>1 DEF FieldInv, InOrder
<1> QED
  BY <1>2, <1>3

(* Requests that were under way, when this one is answered or made.          *)
LEMMA OtherRequests ==
  ASSUME FieldInv, UNCHANGED kind, settled \subseteq settled', wiped \subseteq wiped',
         \A a \in Taken : effect[a] > 0 => effect'[a] > 0,
         NEW r \in Replays, NEW new, request' = [request EXCEPT ![r] = new],
         new.stage # "none" => new.action \in Taken,
         new.stage \in {"arrived", "checked"} => Before({}, new.action)
  PROVE  RequestsOk'
<1> SUFFICES ASSUME NEW s \in Replays
             PROVE  /\ request'[s].stage # "none" => request'[s].action \in Taken'
                    /\ request'[s].stage \in {"arrived", "checked"} =>
                         \A a \in Taken' : a < request'[s].action => a \in {} \/ Done(a)'
  BY DEF RequestsOk, Before
<1>1. request'[s] = IF s = r THEN new ELSE request[s]
  BY DEF FieldInv, FieldTypeOK
<1>2. Taken' = Taken
  BY DEF Taken
<1>3. /\ request'[s].stage # "none" => request'[s].action \in Taken
      /\ request'[s].stage \in {"arrived", "checked"} => Before({}, request'[s].action)
  BY <1>1 DEF FieldInv, RequestsOk
<1> QED
  BY <1>2, <1>3, StillBefore

(* The same for replays.                                                     *)
LEMMA OtherReplays ==
  ASSUME FieldInv, UNCHANGED kind, settled \subseteq settled', wiped \subseteq wiped',
         \A a \in Taken : effect[a] > 0 => effect'[a] > 0,
         NEW r \in Replays, NEW stage, NEW todo, Becomes(r, stage, todo),
         todo \subseteq Taken, stage # "idle" => todo # {},
         \A b \in todo : \A a \in Taken : a < b => a \in todo \/ Done(a)'
  PROVE  ReplaysOk'
<1> DEFINE new == [stage |-> stage, todo |-> todo]
<1>0. new.stage = stage /\ new.todo = todo
  OBVIOUS
<1> HIDE DEF new
<1> SUFFICES ASSUME NEW s \in Replays
             PROVE  /\ replay'[s].todo \subseteq Taken'
                    /\ replay'[s].stage # "idle" => replay'[s].todo # {}
                    /\ \A b \in replay'[s].todo : \A a \in Taken' :
                         a < b => a \in replay'[s].todo \/ Done(a)'
  BY DEF ReplaysOk, Before
<1>1. replay'[s] = IF s = r THEN new ELSE replay[s]
  BY DEF FieldInv, FieldTypeOK, Becomes, new
<1>2. Taken' = Taken
  BY DEF Taken
<1>3. CASE s = r
  BY <1>0, <1>1, <1>2, <1>3
<1>4. CASE s # r
  <2>1. /\ replay[s].todo \subseteq Taken
        /\ replay[s].stage # "idle" => replay[s].todo # {}
        /\ \A b \in replay[s].todo : Before(replay[s].todo, b)
    BY DEF FieldInv, ReplaysOk
  <2> QED
    BY <1>1, <1>2, <1>4, <2>1, StillBefore
<1> QED
  BY <1>3, <1>4

LEMMA EnqueueKeepsField ==
  ASSUME FieldInv, NEW k \in Kinds, Enqueue(k)
  PROVE  FieldInv'
<1>1. PICK a \in Actions \ Taken :
        /\ \A b \in Actions \ Taken : a <= b
        /\ kind' = [kind EXCEPT ![a] = k]
        /\ queue' = queue \union {a}
        /\ UNCHANGED <<age, replay, settled, wiped, budget, request, photos, entries, effect>>
  BY DEF Enqueue, Server
<1>2. /\ kind' \in [Actions -> Kinds \union {"none"}] /\ kind'[a] = k /\ k # "none"
      /\ \A b \in Actions \ {a} : kind'[b] = kind[b]
  BY <1>1 DEF FieldInv, FieldTypeOK, Kinds
<1>3. Taken' = Taken \union {a} /\ Taken \subseteq Actions
  BY <1>1, <1>2 DEF Taken
<1>4. \A b \in Taken : b < a
  BY <1>1 DEF FieldInv, TakenInOrder
<1>5. effect[a] = 0
  BY <1>1 DEF FieldInv, EffectsOk
<1>6. FieldTypeOK'
  BY <1>1, <1>2, <1>3 DEF FieldInv, FieldTypeOK
<1>7. TakenInOrder'
  <2> SUFFICES ASSUME NEW b \in Taken', NEW c \in Actions \ Taken'  PROVE b < c
    BY DEF TakenInOrder
  <2>1. c \in Actions \ Taken /\ c # a /\ c \in Nat /\ a \in Nat /\ a <= c
    BY <1>1, <1>3
  <2>2. b \in Taken \/ b = a
    BY <1>3
  <2> QED
    BY <2>1, <2>2 DEF FieldInv, TakenInOrder
<1>8. \A b \in Taken : ~ (a < b)
  BY <1>1, <1>3, <1>4
<1>9. ReplaysOk'
  <2> SUFFICES ASSUME NEW r \in Replays
               PROVE  /\ replay[r].todo \subseteq Taken'
                      /\ replay[r].stage # "idle" => replay[r].todo # {}
                      /\ \A b \in replay[r].todo : \A c \in Taken' :
                           c < b => c \in replay[r].todo \/ Done(c)
    BY <1>1 DEF ReplaysOk, Before, Done
  <2>1. /\ replay[r].todo \subseteq Taken
        /\ replay[r].stage # "idle" => replay[r].todo # {}
        /\ \A b \in replay[r].todo : \A c \in Taken :
             c < b => c \in replay[r].todo \/ Done(c)
    BY DEF FieldInv, ReplaysOk, Before
  <2> QED
    BY <1>3, <1>8, <2>1
<1>10. RequestsOk'
  <2> SUFFICES ASSUME NEW r \in Replays
               PROVE  /\ request[r].stage # "none" => request[r].action \in Taken'
                      /\ request[r].stage \in {"arrived", "checked"} =>
                           \A c \in Taken' : c < request[r].action => c \in {} \/ Done(c)
    BY <1>1 DEF RequestsOk, Before, Done
  <2>1. /\ request[r].stage # "none" => request[r].action \in Taken
        /\ request[r].stage \in {"arrived", "checked"} =>
             \A c \in Taken : c < request[r].action => c \in {} \/ Done(c)
    BY DEF FieldInv, RequestsOk, Before
  <2> QED
    BY <1>3, <1>8, <2>1
<1>11. EffectsOk'
  <2> SUFFICES ASSUME NEW b \in Actions
               PROVE  /\ b \notin Taken' => effect[b] = 0
                      /\ kind'[b] \in {"attachment", "clock_in"} =>
                           effect[b] <= 1 /\ (effect[b] = 1 => ServerKnows(b)')
    BY <1>1 DEF EffectsOk
  <2>1. CASE b = a
    BY <1>5, <2>1
  <2>2. CASE b # a
    <3>1. kind'[b] = kind[b]
      BY <1>2, <2>2
    <3> QED
      BY <1>1, <1>3, <3>1 DEF FieldInv, EffectsOk, ServerKnows
  <2> QED
    BY <2>1, <2>2
<1>12. InOrder'
  <2> SUFFICES ASSUME NEW b \in Taken', NEW c \in Taken', b < c, effect[c] > 0
               PROVE  effect[b] > 0 \/ b \in settled \union wiped
    BY <1>1 DEF InOrder
  <2>1. c # a
    BY <1>5
  <2>2. b # a
    BY <1>3, <1>8, <2>1
  <2> QED
    BY <1>3, <2>1, <2>2 DEF FieldInv, InOrder
<1>13. NothingForgotten'
  BY <1>1, <1>3 DEF FieldInv, NothingForgotten
<1> QED
  BY <1>6, <1>7, <1>9, <1>10, <1>11, <1>12, <1>13 DEF FieldInv

LEMMA StartKeepsField ==
  ASSUME FieldInv, NEW r \in Replays, Start(r)
  PROVE  FieldInv'
<1>1. /\ queue' = queue \ Stale /\ settled' = settled \union Stale
      /\ UNCHANGED <<kind, age, wiped, budget, request, photos, entries, effect>>
      /\ queue \subseteq Taken /\ Stale \subseteq queue /\ Taken' = Taken
  BY DEF Start, Server, FieldInv, FieldTypeOK, Stale, Taken
<1>2. PICK stage \in {"idle", "next"} :
        Becomes(r, stage, queue') /\ (stage # "idle" => queue' # {})
  BY DEF Start
<1>3. FieldTypeOK'
  <2>1. [stage |-> stage, todo |-> queue'] \in Replay
    BY <1>1, <1>2 DEF Replay, Taken
  <2> QED
    BY <1>1, <1>2, <2>1 DEF FieldInv, FieldTypeOK, Becomes
<1>4. \A a \in Taken : a \in queue' \/ Done(a)'
  BY <1>1 DEF FieldInv, NothingForgotten, Done
<1>5. ReplaysOk'
  BY <1>1, <1>2, <1>4, OtherReplays
<1>6. RequestsOk'
  BY <1>1 DEF FieldInv, RequestsOk, Before, Done
<1>7. NothingForgotten'
  BY <1>1 DEF FieldInv, NothingForgotten
<1> QED
  BY <1>1, <1>3, <1>5, <1>6, <1>7, PhoneKeeps DEF FieldInv

LEMMA SendKeepsField ==
  ASSUME FieldInv, NEW r \in Replays, Send(r)
  PROVE  FieldInv'
<1> DEFINE b == FirstLeft(r)
           new == [stage |-> "arrived", action |-> b]
<1>1. /\ replay[r].stage = "next" /\ Becomes(r, "waiting", replay[r].todo)
      /\ request' = [request EXCEPT ![r] = new]
      /\ UNCHANGED <<kind, queue, age, settled, wiped, budget, photos, entries, effect>>
      /\ Taken' = Taken
  BY DEF Send, Taken
<1>2. /\ b \in replay[r].todo /\ b \in Taken /\ b \in Actions
      /\ \A a \in replay[r].todo : b <= a
  BY <1>1, FirstIsLeft
<1>3. new.stage = "arrived" /\ new.action = b /\ new \in Request
  BY <1>2 DEF Request
<1> HIDE DEF b, new
<1>4. /\ replay[r].todo \subseteq Taken /\ replay[r].todo # {} /\ Taken \subseteq Actions
      /\ \A c \in replay[r].todo : Before(replay[r].todo, c)
  BY <1>2 DEF FieldInv, ReplaysOk, Taken
<1>5. FieldTypeOK'
  <2>1. [stage |-> "waiting", todo |-> replay[r].todo] \in Replay
    BY <1>4 DEF Replay
  <2> QED
    BY <1>1, <1>3, <2>1 DEF FieldInv, FieldTypeOK, Becomes
<1>6. ReplaysOk'
  <2>1. \A c \in replay[r].todo : \A a \in Taken : a < c => a \in replay[r].todo \/ Done(a)'
    BY <1>1, <1>4 DEF Before, Done
  <2> QED
    BY <1>1, <1>4, <2>1, OtherReplays
<1>7. RequestsOk'
  <2>1. Before({}, b)
    <3>1. ASSUME NEW a \in Taken, a < b  PROVE a \notin replay[r].todo
      <4>1. a \in Nat /\ b \in Nat
        BY <1>2, <1>4
      <4>2. ~ (b <= a)
        BY <3>1, <4>1
      <4> QED
        BY <1>2, <4>2
    <3> QED
      BY <1>2, <1>4, <3>1 DEF Before
  <2> QED
    BY <1>1, <1>2, <1>3, <2>1, OtherRequests
<1>8. NothingForgotten'
  BY <1>1 DEF FieldInv, NothingForgotten
<1> QED
  BY <1>1, <1>5, <1>6, <1>7, <1>8, PhoneKeeps DEF FieldInv

(* A replay that ends, or an app that closes, leaves the rest in the store.  *)
LEMMA SendEndsKeepField ==
  ASSUME FieldInv, NEW r \in Replays, SendRefused(r) \/ SendFails(r)
  PROVE  FieldInv'
<1>1. /\ replay[r].stage = "waiting" /\ queue' = queue \union {FirstLeft(r)}
      /\ Becomes(r, "idle", {})
      /\ UNCHANGED <<kind, age, settled, wiped, photos, entries, effect>>
      /\ budget' \in Nat /\ Taken' = Taken
      /\ UNCHANGED request \/ request' = [request EXCEPT ![r] = NoRequest]
  BY DEF SendRefused, SendFails, Server, Taken, Event, FieldInv, FieldTypeOK
<1>2. FirstLeft(r) \in Taken
  BY <1>1, FirstIsLeft
<1>3. NoRequest \in Request /\ NoRequest.stage = "none"
  BY DEF NoRequest, Request, None
<1>4. FieldTypeOK'
  <2>1. [stage |-> "idle", todo |-> {}] \in Replay
    BY DEF Replay
  <2> QED
    BY <1>1, <1>2, <1>3, <2>1 DEF FieldInv, FieldTypeOK, Becomes
<1>5. ReplaysOk'
  BY <1>1, OtherReplays
<1>6. RequestsOk'
  <2>1. CASE UNCHANGED request
    BY <1>1, <2>1 DEF FieldInv, RequestsOk, Before, Done
  <2>2. CASE request' = [request EXCEPT ![r] = NoRequest]
    BY <1>1, <1>3, <2>2, OtherRequests
  <2> QED
    BY <1>1, <2>1, <2>2
<1>7. NothingForgotten'
  BY <1>1 DEF FieldInv, NothingForgotten
<1> QED
  BY <1>1, <1>4, <1>5, <1>6, <1>7, PhoneKeeps DEF FieldInv

LEMMA SendSucceedsKeepsField ==
  ASSUME FieldInv, NEW r \in Replays, SendSucceeds(r)
  PROVE  FieldInv'
<1> DEFINE b == FirstLeft(r)
           rest == replay[r].todo \ {b}
<1>1. /\ replay[r].stage = "waiting" /\ queue' = queue \ {b} /\ settled' = settled \union {b}
      /\ request' = [request EXCEPT ![r] = NoRequest]
      /\ UNCHANGED <<kind, age, wiped, budget, photos, entries, effect>> /\ Taken' = Taken
      /\ Taken \subseteq Actions
  BY DEF SendSucceeds, Taken
<1>2. PICK stage \in {"idle", "next"} : Becomes(r, stage, rest) /\ (stage # "idle" => rest # {})
  BY DEF SendSucceeds
<1>3. b \in Taken /\ rest \subseteq Taken
  BY <1>1, FirstIsLeft DEF FieldInv, ReplaysOk
<1>4. NoRequest \in Request /\ NoRequest.stage = "none"
  BY DEF NoRequest, Request, None
<1>5. \A c \in rest : \A a \in Taken : a < c => a \in rest \/ Done(a)'
  <2>1. \A c \in replay[r].todo : Before(replay[r].todo, c)
    BY DEF FieldInv, ReplaysOk
  <2> QED
    BY <1>1, <2>1 DEF Before, Done
<1> HIDE DEF b, rest
<1>6. FieldTypeOK'
  <2>1. [stage |-> stage, todo |-> rest] \in Replay
    BY <1>1, <1>2, <1>3 DEF Replay
  <2> QED
    BY <1>1, <1>2, <1>3, <1>4, <2>1 DEF FieldInv, FieldTypeOK, Becomes
<1>7. ReplaysOk'
  BY <1>1, <1>2, <1>3, <1>5, OtherReplays
<1>8. RequestsOk'
  BY <1>1, <1>4, OtherRequests
<1>9. NothingForgotten'
  BY <1>1 DEF FieldInv, NothingForgotten
<1> QED
  BY <1>1, <1>6, <1>7, <1>8, <1>9, PhoneKeeps DEF FieldInv

LEMMA AppStepsKeepField ==
  ASSUME FieldInv, AppCloses \/ \E a \in Actions : Ages(a)
  PROVE  FieldInv'
<1>1. /\ UNCHANGED <<kind, queue, settled, wiped, request, photos, entries, effect>>
      /\ budget' \in Nat /\ Taken' = Taken
      /\ \/ UNCHANGED replay
         \/ replay' = [r \in Replays |-> [stage |-> "idle", todo |-> {}]]
  BY DEF AppCloses, Ages, Server, Taken, Event, FieldInv, FieldTypeOK
<1>2. age' \in [Actions -> 0 .. 2]
  <2>1. CASE AppCloses
    BY <2>1 DEF AppCloses, FieldInv, FieldTypeOK
  <2>2. ASSUME NEW a \in Actions, Ages(a)  PROVE age' \in [Actions -> 0 .. 2]
    <3>1. age \in [Actions -> 0 .. 2] /\ age[a] \in 0 .. 2 /\ age[a] < 2
          /\ age' = [age EXCEPT ![a] = age[a] + 1]
      BY <2>2 DEF Ages, FieldInv, FieldTypeOK
    <3>2. age[a] + 1 \in 0 .. 2
      BY <3>1
    <3> QED
      BY <3>1, <3>2
  <2> QED
    BY <2>1, <2>2
<1>3. FieldTypeOK'
  <2>1. [stage |-> "idle", todo |-> {}] \in Replay
    BY DEF Replay
  <2> QED
    BY <1>1, <1>2, <2>1 DEF FieldInv, FieldTypeOK
<1>4. ReplaysOk'
  BY <1>1 DEF FieldInv, ReplaysOk, Before, Done
<1>5. RequestsOk' /\ NothingForgotten'
  BY <1>1 DEF FieldInv, RequestsOk, Before, Done, NothingForgotten
<1> QED
  BY <1>1, <1>3, <1>4, <1>5, PhoneKeeps DEF FieldInv

(* Signing out: what the store had is wiped, what a replay has read stays.    *)
LEMMA SignOutKeepsField ==
  ASSUME FieldInv, SignOut
  PROVE  FieldInv'
<1>1. /\ queue' = {} /\ wiped' = wiped \union queue /\ queue \subseteq Taken
      /\ UNCHANGED <<kind, age, replay, settled, request, photos, entries, effect>>
      /\ budget' \in Nat /\ Taken' = Taken
  BY DEF SignOut, Server, Taken, Event, FieldInv, FieldTypeOK
<1>2. FieldTypeOK'
  BY <1>1 DEF FieldInv, FieldTypeOK
<1>3. ReplaysOk'
  BY <1>1 DEF FieldInv, ReplaysOk, Before, Done
<1>4. RequestsOk' /\ NothingForgotten'
  BY <1>1 DEF FieldInv, RequestsOk, Before, Done, NothingForgotten
<1> QED
  BY <1>1, <1>2, <1>3, <1>4, PhoneKeeps DEF FieldInv

(* A step of the server: what has an effect has it once, in its turn.        *)
LEMMA ServerKeeps ==
  ASSUME FieldInv, UNCHANGED Phone, RequestsOk', request' \in [Replays -> Request],
         budget' \in Nat, photos' \in Seq(Actions), entries' \in Seq(Entry),
         effect' \in [Actions -> Nat],
         \A a \in Actions : ServerKnows(a) => ServerKnows(a)',
         \A a \in Actions :
           \/ effect'[a] = effect[a]
           \/ /\ a \in Taken /\ Before({}, a) /\ effect'[a] = effect[a] + 1
              /\ kind[a] # "clock_out" => effect[a] = 0 /\ ServerKnows(a)'
  PROVE  FieldInv'
<1>1. UNCHANGED <<kind, queue, age, replay, settled, wiped>> /\ Taken' = Taken /\ Taken \subseteq Actions
  BY DEF Phone, Taken
<1>2. \A a \in Actions : effect[a] \in Nat /\ effect'[a] \in Nat /\ effect'[a] >= effect[a]
  BY DEF FieldInv, FieldTypeOK
<1>3. FieldTypeOK'
  BY <1>1 DEF FieldInv, FieldTypeOK
<1>4. TakenInOrder' /\ NothingForgotten'
  BY <1>1 DEF FieldInv, TakenInOrder, NothingForgotten
<1>5. \A a \in Taken : Done(a) => Done(a)'
  BY <1>1, <1>2 DEF Done
<1>6. ReplaysOk'
  BY <1>1, <1>5 DEF FieldInv, ReplaysOk, Before
<1>7. EffectsOk'
  <2> SUFFICES ASSUME NEW a \in Actions
               PROVE  /\ a \notin Taken => effect'[a] = 0
                      /\ kind[a] \in {"attachment", "clock_in"} =>
                           effect'[a] <= 1 /\ (effect'[a] = 1 => ServerKnows(a)')
    BY <1>1 DEF EffectsOk
  <2>1. /\ a \notin Taken => effect[a] = 0
        /\ kind[a] \in {"attachment", "clock_in"} =>
             effect[a] <= 1 /\ (effect[a] = 1 => ServerKnows(a))
    BY DEF FieldInv, EffectsOk
  <2> QED
    BY <2>1
<1>8. InOrder'
  <2> SUFFICES ASSUME NEW a \in Taken, NEW b \in Taken, a < b, effect'[b] > 0
               PROVE  effect'[a] > 0 \/ a \in settled \union wiped
    BY <1>1 DEF InOrder
  <2>1. effect[b] > 0 \/ Before({}, b)
    BY <1>1
  <2>2. Done(a)
    BY <2>1 DEF Before, Done, FieldInv, InOrder
  <2> QED
    BY <1>1, <1>5, <2>2 DEF Done
<1> QED
  BY <1>3, <1>4, <1>6, <1>7, <1>8 DEF FieldInv

(* The answer to a request. *)
LEMMA AnswerKeeps ==
  ASSUME FieldInv, UNCHANGED Phone, NEW r \in Replays,
         NEW stage \in {"checked", "accepted", "refused"}, Answers(r, stage),
         request[r].stage \in {"arrived", "checked"},
         \A a \in Taken : effect[a] > 0 => effect'[a] > 0
  PROVE  RequestsOk' /\ request' \in [Replays -> Request]
<1> DEFINE new == [request[r] EXCEPT !.stage = stage]
<1>1. UNCHANGED <<kind, settled, wiped>> /\ request' = [request EXCEPT ![r] = new]
  BY DEF Phone, Answers
<1>2. request[r] \in Request
  BY DEF FieldInv, FieldTypeOK
<1>3. new \in Request /\ new.action = request[r].action
  BY <1>2 DEF Request
<1>4. request[r].action \in Taken /\ Before({}, request[r].action)
  BY DEF FieldInv, RequestsOk
<1> HIDE DEF new
<1>5. RequestsOk'
  BY <1>1, <1>3, <1>4, OtherRequests
<1>6. request' \in [Replays -> Request]
  BY <1>1, <1>3 DEF FieldInv, FieldTypeOK
<1> QED
  BY <1>5, <1>6

LEMMA TablesAlone ==
  ASSUME FieldInv, UNCHANGED <<photos, entries, effect>>, UNCHANGED Phone,
         RequestsOk', request' \in [Replays -> Request], budget' \in Nat
  PROVE  FieldInv'
<1>1. /\ photos' \in Seq(Actions) /\ entries' \in Seq(Entry) /\ effect' \in [Actions -> Nat]
      /\ \A a \in Actions : ServerKnows(a) => ServerKnows(a)'
  BY DEF FieldInv, FieldTypeOK, ServerKnows, Phone
<1> QED
  BY <1>1, ServerKeeps

LEMMA CheckKeepsField ==
  ASSUME FieldInv, NEW r \in Replays, Check(r) \/ RequestGone(r)
  PROVE  FieldInv'
<1>1. /\ UNCHANGED <<photos, entries, effect>> /\ UNCHANGED Phone /\ budget' \in Nat
      /\ UNCHANGED <<kind, settled, wiped>>
  BY DEF Check, RequestGone, Phone, FieldInv, FieldTypeOK
<1>2. CASE Check(r)
  <2>1. PICK stage \in {"checked", "accepted", "refused"} : Answers(r, stage)
    BY <1>2 DEF Check
  <2>2. request[r].stage = "arrived"
    BY <1>2 DEF Check
  <2> QED
    BY <1>1, <2>1, <2>2, AnswerKeeps, TablesAlone
<1>3. CASE RequestGone(r)
  <2>1. NoRequest \in Request /\ NoRequest.stage = "none"
    BY DEF NoRequest, Request, None
  <2>2. request' = [request EXCEPT ![r] = NoRequest]
    BY <1>3 DEF RequestGone
  <2>3. RequestsOk'
    BY <1>1, <2>1, <2>2, OtherRequests
  <2>4. request' \in [Replays -> Request]
    BY <2>1, <2>2 DEF FieldInv, FieldTypeOK
  <2> QED
    BY <1>1, <2>3, <2>4, TablesAlone
<1> QED
  BY <1>2, <1>3

LEMMA AppendKnows ==
  ASSUME NEW T, NEW s \in Seq(T), NEW e \in T
  PROVE  /\ Append(s, e) \in Seq(T)
         /\ \A n \in DOMAIN s : n \in DOMAIN Append(s, e) /\ Append(s, e)[n] = s[n]
         /\ \E n \in DOMAIN Append(s, e) : Append(s, e)[n] = e
<1>1. /\ Append(s, e) \in Seq(T) /\ Len(Append(s, e)) = Len(s) + 1
      /\ \A i \in 1 .. Len(s) : Append(s, e)[i] = s[i]
      /\ Append(s, e)[Len(s) + 1] = e
  BY AppendProperties
<1>2. /\ DOMAIN s = 1 .. Len(s) /\ Len(s) \in Nat
      /\ DOMAIN Append(s, e) = 1 .. (Len(s) + 1)
  BY <1>1, LenProperties
<1>3. Len(s) + 1 \in DOMAIN Append(s, e)
  BY <1>2
<1> QED
  BY <1>1, <1>2, <1>3

(* A request in hand has its turn, and has had an effect only if its row is  *)
(* there.                                                                    *)
LEMMA InHand ==
  ASSUME FieldInv, NEW r \in Replays, request[r].stage = "checked"
  PROVE  /\ request[r].action \in Taken /\ request[r].action \in Actions
         /\ Before({}, request[r].action)
         /\ kind[request[r].action] \in {"attachment", "clock_in"} /\ ~ServerKnows(request[r].action)
              => effect[request[r].action] = 0
<1>1. request[r].action \in Taken /\ Before({}, request[r].action)
  BY DEF FieldInv, RequestsOk
<1>2. request[r].action \in Actions
  BY <1>1 DEF Taken
<1>3. ASSUME NEW b \in Actions, kind[b] \in {"attachment", "clock_in"}, ~ServerKnows(b)
      PROVE  effect[b] = 0
  <2>1. effect[b] \in Nat /\ effect[b] <= 1 /\ effect[b] # 1
    BY <1>3 DEF FieldInv, FieldTypeOK, EffectsOk
  <2> QED
    BY <2>1
<1> QED
  BY <1>1, <1>2, <1>3

LEMMA TookCounts ==
  ASSUME FieldInv, NEW b \in Actions, Took(b)
  PROVE  /\ effect' \in [Actions -> Nat] /\ effect'[b] = effect[b] + 1
         /\ \A a \in Actions \ {b} : effect'[a] = effect[a]
         /\ \A a \in Taken : effect[a] > 0 => effect'[a] > 0
<1>1. effect \in [Actions -> Nat] /\ effect[b] + 1 \in Nat /\ Taken \subseteq Actions
  BY DEF FieldInv, FieldTypeOK, Taken
<1> QED
  BY <1>1 DEF Took

LEMMA AttachKeepsField ==
  ASSUME FieldInv, NEW r \in Replays, Attach(r)
  PROVE  FieldInv'
<1>0. PICK b \in Actions : b = request[r].action
  BY InHand DEF Attach
<1>1. /\ request[r].stage = "checked" /\ kind[b] = "attachment" /\ Answers(r, "accepted")
      /\ UNCHANGED <<entries, budget>> /\ UNCHANGED Phone /\ UNCHANGED <<kind, settled, wiped>>
      /\ budget' \in Nat /\ entries' \in Seq(Entry) /\ photos \in Seq(Actions)
  BY <1>0 DEF Attach, Phone, FieldInv, FieldTypeOK
<1>2. CASE UNCHANGED <<photos, effect>>
  BY <1>1, <1>2, AnswerKeeps, TablesAlone
<1>3. CASE ~Found(b) /\ photos' = Append(photos, b) /\ Took(b)
  <2>1. /\ photos' \in Seq(Actions)
        /\ \A n \in DOMAIN photos : n \in DOMAIN photos' /\ photos'[n] = photos[n]
        /\ \E n \in DOMAIN photos' : photos'[n] = b
    BY <1>1, <1>3, AppendKnows
  <2>2. (\A a \in Actions : ServerKnows(a) => ServerKnows(a)') /\ ServerKnows(b)'
    BY <1>1, <2>1 DEF ServerKnows
  <2>3. ~ServerKnows(b)
    BY <1>1, <1>3 DEF ServerKnows, Found, Rows
  <2>4. b \in Taken /\ Before({}, b) /\ effect[b] = 0
    BY <1>0, <1>1, <2>3, InHand
  <2>5. RequestsOk' /\ request' \in [Replays -> Request]
    BY <1>1, <1>3, AnswerKeeps, TookCounts
  <2> QED
    BY <1>1, <1>3, <2>1, <2>2, <2>4, <2>5, TookCounts, ServerKeeps
<1> QED
  BY <1>0, <1>2, <1>3 DEF Attach

LEMMA ClockInKeepsField ==
  ASSUME FieldInv, NEW r \in Replays, ClockIn(r)
  PROVE  FieldInv'
<1>0. PICK b \in Actions : b = request[r].action
  BY InHand DEF ClockIn
<1> DEFINE new == [key |-> b, open |-> TRUE]
<1>1. /\ request[r].stage = "checked" /\ kind[b] = "clock_in"
      /\ UNCHANGED <<photos, budget>> /\ UNCHANGED Phone /\ UNCHANGED <<kind, settled, wiped>>
      /\ budget' \in Nat /\ photos' \in Seq(Actions) /\ entries \in Seq(Entry)
  BY <1>0 DEF ClockIn, Phone, FieldInv, FieldTypeOK
<1>2. ASSUME NEW stage \in {"accepted", "refused"}, Answers(r, stage),
             UNCHANGED <<entries, effect>>
      PROVE  FieldInv'
  BY <1>1, <1>2, AnswerKeeps, TablesAlone
<1>3. CASE /\ ~Found(b) /\ entries' = Append(entries, new)
           /\ Took(b) /\ Answers(r, "accepted")
  <2>0. new \in Entry /\ new.key = b
    BY DEF Entry
  <2> HIDE DEF new
  <2>1. /\ entries' \in Seq(Entry)
        /\ \A n \in DOMAIN entries : n \in DOMAIN entries' /\ entries'[n] = entries[n]
        /\ \E n \in DOMAIN entries' : entries'[n] = new
    <3>1. /\ Append(entries, new) \in Seq(Entry)
          /\ \A n \in DOMAIN entries :
               n \in DOMAIN Append(entries, new) /\ Append(entries, new)[n] = entries[n]
          /\ \E n \in DOMAIN Append(entries, new) : Append(entries, new)[n] = new
      <4>1. entries \in Seq(Entry) /\ new \in Entry
        BY <1>1, <2>0
      <4> HIDE DEF Entry
      <4> QED
        BY <4>1, AppendKnows
    <3> QED
      BY <1>3, <3>1
  <2>2. (\A a \in Actions : ServerKnows(a) => ServerKnows(a)') /\ ServerKnows(b)'
    BY <1>1, <2>0, <2>1 DEF ServerKnows
  <2>3. ~ServerKnows(b)
    BY <1>1, <1>3 DEF ServerKnows, Found, Rows
  <2>4. b \in Taken /\ Before({}, b) /\ effect[b] = 0
    BY <1>0, <1>1, <2>3, InHand
  <2>5. RequestsOk' /\ request' \in [Replays -> Request]
    BY <1>1, <1>3, AnswerKeeps, TookCounts
  <2> QED
    BY <1>1, <1>3, <2>1, <2>2, <2>4, <2>5, TookCounts, ServerKeeps
<1> QED
  BY <1>0, <1>2, <1>3 DEF ClockIn

LEMMA ClockOutKeepsField ==
  ASSUME FieldInv, NEW r \in Replays, ClockOut(r)
  PROVE  FieldInv'
<1>0. PICK b \in Actions : b = request[r].action
  BY InHand DEF ClockOut
<1>1. /\ request[r].stage = "checked" /\ kind[b] = "clock_out"
      /\ UNCHANGED <<photos, budget>> /\ UNCHANGED Phone /\ UNCHANGED <<kind, settled, wiped>>
      /\ budget' \in Nat /\ photos' \in Seq(Actions) /\ entries \in Seq(Entry)
      /\ None \notin Actions
  BY <1>0 DEF ClockOut, Phone, FieldInv, FieldTypeOK, None
<1>2. CASE Answers(r, "refused") /\ UNCHANGED <<entries, effect>>
  BY <1>1, <1>2, AnswerKeeps, TablesAlone
<1>3. ASSUME NEW n \in Open,
             entries' = [entries EXCEPT ![n] =
               [key |-> IF entries[n].key = None THEN b ELSE entries[n].key, open |-> FALSE]],
             Took(b), Answers(r, "accepted")
      PROVE  FieldInv'
  <2> DEFINE new == [key |-> IF entries[n].key = None THEN b ELSE entries[n].key, open |-> FALSE]
  <2>1. /\ DOMAIN entries = 1 .. Len(entries) /\ n \in DOMAIN entries
        /\ entries[n] \in Entry
    <3>1. DOMAIN entries = 1 .. Len(entries) /\ n \in DOMAIN entries
      BY <1>1, LenProperties DEF Open
    <3> QED
      BY <1>1, <3>1, ElementOfSeq
  <2>2. /\ new \in Entry /\ (entries[n].key # None => new.key = entries[n].key)
        /\ entries' = [entries EXCEPT ![n] = new]
    BY <1>3, <2>1 DEF Entry
  <2> HIDE DEF new
  <2>3. /\ entries' \in Seq(Entry) /\ Len(entries') = Len(entries)
        /\ \A m \in 1 .. Len(entries) : entries'[m] = IF m = n THEN new ELSE entries[m]
    <3>1. n \in 1 .. Len(entries) /\ new \in Entry /\ entries \in Seq(Entry)
      BY <1>1, <2>1, <2>2
    <3>2. /\ [entries EXCEPT ![n] = new] \in Seq(Entry)
          /\ Len([entries EXCEPT ![n] = new]) = Len(entries)
          /\ \A m \in 1 .. Len(entries) :
               [entries EXCEPT ![n] = new][m] = IF m = n THEN new ELSE entries[m]
      BY <3>1, ExceptSeq
    <3> QED
      BY <2>2, <3>2
  <2>4. DOMAIN entries' = DOMAIN entries
    BY <2>1, <2>3, LenProperties
  <2>5. \A a \in Actions : ServerKnows(a) => ServerKnows(a)'
    <3>1. \A m \in DOMAIN entries : entries[m].key # None => entries'[m].key = entries[m].key
      BY <2>1, <2>2, <2>3
    <3> QED
      BY <1>1, <2>4, <3>1 DEF ServerKnows
  <2>6. b \in Taken /\ Before({}, b)
    BY <1>0, <1>1, InHand
  <2>7. RequestsOk' /\ request' \in [Replays -> Request]
    BY <1>1, <1>3, AnswerKeeps, TookCounts
  <2> QED
    BY <1>1, <1>3, <2>3, <2>5, <2>6, <2>7, TookCounts, ServerKeeps
<1> QED
  BY <1>0, <1>2, <1>3 DEF ClockOut

LEMMA UnkeyedKeepsField ==
  ASSUME FieldInv, ClockInUnkeyed
  PROVE  FieldInv'
<1> DEFINE new == [key |-> None, open |-> TRUE]
<1>1. /\ entries' = Append(entries, new) /\ UNCHANGED <<request, photos, effect>>
      /\ UNCHANGED Phone /\ UNCHANGED <<kind, settled, wiped>> /\ budget' \in Nat
      /\ entries \in Seq(Entry) /\ photos' \in Seq(Actions) /\ effect' \in [Actions -> Nat]
      /\ request' \in [Replays -> Request]
  BY DEF ClockInUnkeyed, Phone, Event, FieldInv, FieldTypeOK
<1>2. new \in Entry
  BY DEF Entry
<1> HIDE DEF new
<1>3. /\ entries' \in Seq(Entry)
      /\ \A n \in DOMAIN entries : n \in DOMAIN entries' /\ entries'[n] = entries[n]
  BY <1>1, <1>2, AppendKnows
<1>4. \A a \in Actions : ServerKnows(a) => ServerKnows(a)'
  BY <1>1, <1>3 DEF ServerKnows
<1>5. RequestsOk'
  BY <1>1 DEF FieldInv, RequestsOk, Before, Done, Taken
<1> QED
  BY <1>1, <1>3, <1>4, <1>5, ServerKeeps

LEMMA FieldNextKeeps == FieldInv /\ [FieldNext]_fieldVars => FieldInv'
<1> SUFFICES ASSUME FieldInv, [FieldNext]_fieldVars  PROVE FieldInv'
  OBVIOUS
<1>1. CASE UNCHANGED fieldVars
  <2>1. UNCHANGED <<photos, entries, effect>> /\ UNCHANGED Phone
    BY <1>1 DEF fieldVars, Phone
  <2>2. RequestsOk' /\ request' \in [Replays -> Request] /\ budget' \in Nat
    BY <1>1 DEF fieldVars, FieldInv, FieldTypeOK, RequestsOk, Before, Done, Taken
  <2> QED
    BY <2>1, <2>2, TablesAlone
<1>2. ASSUME NEW r \in Replays,
             Start(r) \/ Send(r) \/ SendSucceeds(r) \/ SendRefused(r) \/ SendFails(r)
      PROVE  FieldInv'
  BY <1>2, StartKeepsField, SendKeepsField, SendSucceedsKeepsField, SendEndsKeepField
<1>3. ASSUME NEW r \in Replays,
             RequestGone(r) \/ Check(r) \/ Attach(r) \/ ClockIn(r) \/ ClockOut(r)
      PROVE  FieldInv'
  BY <1>3, CheckKeepsField, AttachKeepsField, ClockInKeepsField, ClockOutKeepsField
<1>4. CASE AppCloses \/ SignOut \/ ClockInUnkeyed \/ \E a \in Actions : Ages(a)
  BY <1>4, AppStepsKeepField, SignOutKeepsField, UnkeyedKeepsField
<1>5. ASSUME NEW k \in Kinds, Enqueue(k)  PROVE FieldInv'
  BY <1>5, EnqueueKeepsField
<1> QED
  BY <1>1, <1>2, <1>3, <1>4, <1>5 DEF FieldNext

LEMMA FieldInvariance == FieldSpec => []FieldInv
  BY FieldStarts, FieldNextKeeps, PTL DEF FieldSpec

(* What takes effect is preceded by all that the technician did before it,   *)
(* unless that was settled or wiped before, however many replays run over however old *)
(* a reading of the queue: replayQueue.                                      *)
THEOREM EffectsInOrder == FieldSpec => []InOrder
<1>1. FieldInv => InOrder
  BY DEF FieldInv
<1> QED
  BY <1>1, FieldInvariance, PTL

(* A photo is stored once, a clock-in opens one entry, and nothing leaves    *)
(* the phone that was neither accepted nor too old, unless the technician    *)
(* signed out while it was in the store: add_attachment, clock_in,           *)
(* replayQueue and wipeFieldOfflineData.                                     *)
THEOREM FieldKept == FieldSpec => []FieldConsistent
<1>1. ASSUME FieldInv  PROVE RowsOnce
  <2> SUFFICES ASSUME NEW a \in Taken, kind[a] # "clock_out"  PROVE effect[a] <= 1
    BY DEF RowsOnce
  <2>1. kind[a] \in {"attachment", "clock_in"} /\ a \in Actions
    BY <1>1 DEF FieldInv, FieldTypeOK, Taken, Kinds
  <2> QED
    BY <1>1, <2>1 DEF FieldInv, EffectsOk
<1>2. FieldInv => FieldConsistent
  BY <1>1 DEF FieldInv, FieldConsistent
<1> QED
  BY <1>2, FieldInvariance, PTL

-----------------------------------------------------------------------------
(* FrontDesk: threads, portal links and sign-ups.                           *)

(* What a request holds between its reads and its commit.                   *)
TextHeld == [op : {"inbound"}, customer : Customers, channel : {"sms", "portal"},
             from : Phones \union {Null}, begin : Nat, book : Nat]
ReplyHeld == [op : {"reply"}, customer : Customers, begin : Nat, book : Nat,
              channel : {"sms", "portal"}, from : Phones \union {Null},
              notice : {"sms", "email", "none"}]
InviteHeld == [op : {"invite"}, customer : Customers, token : Tokens]
ReadHeld == [op : {"reading"}, customer : Customers, book : Nat,
             from : Phones \union {Null}, email : BOOLEAN]
DeskHeld == {Idle} \union TextHeld \union ReplyHeld \union InviteHeld \union ReadHeld

HandlersOk ==
  /\ handler \in [Workers -> DeskHeld]
  /\ clock \in Nat /\ edits \in Nat
  /\ \A t \in Tokens : token[t].status # "none" => token[t].customer \in Customers

(* Every message began before it was committed, and nothing is of the future. *)
TimesOk ==
  /\ \A m \in message : m.begin < m.end /\ m.end <= clock
  /\ \A w \in Workers : handler[w].op \in {"inbound", "reply"} => handler[w].begin <= clock

(* Texts that were received, committed or not.                              *)
Texts == {m \in message : m.sender = "customer" /\ m.from # Null}
           \union {handler[w] : w \in {v \in Workers : handler[v].op = "inbound"
                                                       /\ handler[v].from # Null}}

(* Those of one state of the customer book went to the owner of the number. *)
ThreadsKept ==
  /\ \A x, y \in Texts : x.from = y.from /\ x.book = y.book => x.customer = y.customer
  /\ \A x \in Texts : x.book <= edits /\ (x.book = edits => x.customer \in Owners(x.from))

(* What ReplyFollowsCustomer says of one reply and the messages given.      *)
Seen(r, M) == {m \in M : m.customer = r.customer /\ m.sender = "customer" /\ m.end < r.begin}
Latest(r, M) == {m \in Seen(r, M) : \A n \in Seen(r, M) : n.begin < m.end}
Follows(r, M) ==
  /\ r.channel = "sms" => \E m \in Latest(r, M) : m.channel = "sms"
  /\ r.channel = "portal" =>
       (\E m \in Latest(r, M) : m.channel = "portal") \/ Seen(r, M) = {} \/ r.from = Null

RepliesFollow ==
  /\ \A r \in message : r.sender = "staff" => Follows(r, message)
  /\ \A w \in Workers : handler[w].op = "reply" => Follows(handler[w], message)

InvitesOk ==
  /\ MailedLinkOpens
  /\ \A w \in Workers : handler[w].op = "invite" =>
       token[handler[w].token].status # "none"
         /\ token[handler[w].token].customer = handler[w].customer

ThreadsInv ==
  MessagesTypeOK /\ HandlersOk /\ TimesOk /\ ThreadsKept /\ RepliesFollow /\ InvitesOk

LEMMA ThreadsStart == MessagesInit => ThreadsInv
<1> SUFFICES ASSUME MessagesInit  PROVE ThreadsInv
  OBVIOUS
<1>1. /\ message = {} /\ invited = {} /\ clock = 0 /\ edits = 0
      /\ \A w \in Workers : handler[w] = Idle /\ handler[w].op = "idle"
      /\ \A t \in Tokens : token[t] = NoToken /\ token[t].status = "none"
      /\ handler \in [Workers -> {Idle}] /\ token \in [Tokens -> {NoToken}]
  BY DEF MessagesInit, Idle, NoToken
<1>2. customer \in [Customers -> Customer]
  <2>1. PICK known \in {r \in Customer : r.here} :
               customer = [c \in Customers |-> IF c = 1 THEN known ELSE Unknown]
    BY DEF MessagesInit
  <2>2. known \in Customer /\ Unknown \in Customer
    BY DEF Customer, Unknown
  <2> QED
    BY <2>1, <2>2
<1>3. MessagesTypeOK
  BY <1>1, <1>2 DEF MessagesTypeOK, NoToken
<1>4. HandlersOk /\ TimesOk
  BY <1>1 DEF HandlersOk, TimesOk, DeskHeld
<1>5. Texts = {}
  BY <1>1 DEF Texts
<1>6. ThreadsKept /\ RepliesFollow /\ InvitesOk
  BY <1>1, <1>5 DEF ThreadsKept, RepliesFollow, InvitesOk, MailedLinkOpens
<1> QED
  BY <1>3, <1>4, <1>6 DEF ThreadsInv

(* What follows the customer goes on doing so as long as what was seen when  *)
(* it began is there, read or not.                                           *)
SameMessage(m, n) ==
  /\ m.customer = n.customer /\ m.sender = n.sender /\ m.channel = n.channel
  /\ m.begin = n.begin /\ m.end = n.end

SeenAlike(r, A, B) ==
  /\ \A m \in Seen(r, A) : \E n \in B : SameMessage(m, n)
  /\ \A n \in Seen(r, B) : \E m \in A : SameMessage(m, n)

LEMMA FollowsKept ==
  ASSUME NEW r, NEW A, NEW B, SeenAlike(r, A, B), Follows(r, A)
  PROVE  Follows(r, B)
<1>1. \A m \in Seen(r, A) : \E n \in Seen(r, B) : SameMessage(m, n)
  BY DEF SeenAlike, Seen, SameMessage
<1>2. \A n \in Seen(r, B) : \E m \in Seen(r, A) : SameMessage(m, n)
  BY DEF SeenAlike, Seen, SameMessage
<1>3. \A m \in Latest(r, A) : \E n \in Latest(r, B) : SameMessage(m, n)
  <2> SUFFICES ASSUME NEW m \in Latest(r, A)
               PROVE  \E n \in Latest(r, B) : SameMessage(m, n)
    OBVIOUS
  <2>1. m \in Seen(r, A) /\ \A k \in Seen(r, A) : k.begin < m.end
    BY DEF Latest
  <2>2. PICK n \in Seen(r, B) : SameMessage(m, n)
    BY <1>1, <2>1
  <2>3. ASSUME NEW k \in Seen(r, B)  PROVE k.begin < n.end
    <3>1. PICK j \in Seen(r, A) : SameMessage(j, k)
      BY <1>2
    <3> QED
      BY <2>1, <2>2, <3>1 DEF SameMessage
  <2> QED
    BY <2>2, <2>3 DEF Latest
<1>4. Seen(r, A) = {} => Seen(r, B) = {}
  BY <1>2
<1> QED
  BY <1>3, <1>4 DEF Follows, SameMessage

(* Nothing changes for replies when messages stay.                           *)
LEMMA SameSeen ==
  ASSUME NEW r, NEW A, Follows(r, A)
  PROVE  SeenAlike(r, A, A)
BY DEF SeenAlike, Seen, SameMessage

(* A message committed later than a reply began is not one it saw.           *)
LEMMA LaterUnseen ==
  ASSUME NEW r, NEW M, NEW x, ~ (x.end < r.begin)
  PROVE  SeenAlike(r, M, M \union {x})
BY DEF SeenAlike, Seen, SameMessage

(* One owner at a time.                                                      *)
LEMMA OneOwner ==
  ASSUME NEW phone, NEW c \in Owners(phone), NEW b \in Owners(phone)
  PROVE  b = c
BY MessagesAssumption DEF Owners, Known

(* Texts of the present state of the book may come in.                       *)
LEMMA TextsKeep ==
  ASSUME ThreadsKept, edits \in Nat, UNCHANGED <<customer, edits>>,
         \A x \in Texts' :
           \/ \E y \in Texts : x.from = y.from /\ x.book = y.book /\ x.customer = y.customer
           \/ x.book = edits /\ x.customer \in Owners(x.from)
  PROVE  ThreadsKept'
<1>1. \A p : Owners(p)' = Owners(p)
  BY DEF Owners, Known
<1>2. ASSUME NEW x \in Texts'
      PROVE  x.book <= edits /\ (x.book = edits => x.customer \in Owners(x.from))
  BY DEF ThreadsKept
<1>3. ASSUME NEW x \in Texts', NEW y \in Texts', x.from = y.from, x.book = y.book
      PROVE  x.customer = y.customer
  <2>1. CASE x.book = edits
    BY <1>2, <1>3, <2>1, OneOwner
  <2>2. CASE x.book # edits
    <3>1. PICK a \in Texts : x.from = a.from /\ x.book = a.book /\ x.customer = a.customer
      BY <2>2
    <3>2. PICK b \in Texts : y.from = b.from /\ y.book = b.book /\ y.customer = b.customer
      BY <1>3, <2>2
    <3> QED
      BY <1>3, <3>1, <3>2 DEF ThreadsKept
  <2> QED
    BY <2>1, <2>2
<1> QED
  BY <1>1, <1>2, <1>3 DEF ThreadsKept

-----------------------------------------------------------------------------
(* What the steps that only settle one request leave alone.                 *)
LEMMA OneHandler ==
  ASSUME HandlersOk, NEW w \in Workers, NEW new, HandlerBecomes(w, new)
  PROVE  /\ handler'[w] = new
         /\ \A v \in Workers : v # w => handler'[v] = handler[v]
         /\ \A v \in Workers : handler'[v] = IF v = w THEN new ELSE handler[v]
BY DEF HandlersOk, HandlerBecomes

LEMMA HandlersStay ==
  ASSUME HandlersOk, NEW w \in Workers, NEW new, HandlerBecomes(w, new),
         new \in DeskHeld, UNCHANGED edits, clock' \in Nat, clock <= clock',
         \A t \in Tokens : token'[t].status # "none" => token'[t].customer \in Customers
  PROVE  /\ HandlersOk'
         /\ \A v \in Workers : handler'[v].op \in {"idle", "inbound", "reading", "reply", "invite"}
<1>1. handler' \in [Workers -> DeskHeld]
  BY DEF HandlersOk, HandlerBecomes
<1>2. \A h \in DeskHeld :
         h.op \in {"idle", "inbound", "reading", "reply", "invite"}
  BY DEF DeskHeld, Idle, TextHeld, ReplyHeld, InviteHeld, ReadHeld
<1> QED
  BY <1>1, <1>2 DEF HandlersOk

(* What a request in hand is made of, by its operation.                      *)
LEMMA InHands ==
  ASSUME HandlersOk, NEW w \in Workers
  PROVE  /\ handler[w].op = "idle" => handler[w] = Idle
         /\ handler[w].op = "inbound" => handler[w] \in TextHeld
         /\ handler[w].op = "reply" => handler[w] \in ReplyHeld
         /\ handler[w].op = "invite" => handler[w] \in InviteHeld
         /\ handler[w].op = "reading" => handler[w] \in ReadHeld
BY DEF HandlersOk, DeskHeld, Idle, TextHeld, ReplyHeld, InviteHeld, ReadHeld

-----------------------------------------------------------------------------
(* The customer book is edited: no text is of its new state yet.            *)
LEMMA EditKeeps ==
  ASSUME ThreadsInv, customer' \in [Customers -> Customer], edits' = edits + 1,
         UNCHANGED <<message, handler, token, invited, clock>>
  PROVE  ThreadsInv'
<1> USE DEF ThreadsInv
<1>1. MessagesTypeOK' /\ HandlersOk' /\ TimesOk' /\ RepliesFollow' /\ InvitesOk'
  BY DEF MessagesTypeOK, HandlersOk, TimesOk, RepliesFollow, InvitesOk, MailedLinkOpens
<1>2. Texts' = Texts
  BY DEF Texts
<1>3. ASSUME NEW x \in Texts  PROVE x.book \in Nat
  <2>1. ASSUME x \in message  PROVE x.book \in Nat
    BY <2>1 DEF MessagesTypeOK, Message
  <2>2. ASSUME NEW w \in Workers, handler[w].op = "inbound", x = handler[w]
        PROVE  x.book \in Nat
    BY <2>2, InHands DEF TextHeld
  <2> QED
    BY <2>1, <2>2 DEF Texts
<1>4. \A x \in Texts : x.book <= edits' /\ x.book # edits'
  BY <1>3 DEF ThreadsKept, HandlersOk
<1>5. ThreadsKept'
  BY <1>2, <1>4 DEF ThreadsKept
<1> QED
  BY <1>1, <1>5

LEMMA CreateCustomerKeeps ==
  ASSUME ThreadsInv, NEW c \in Customers, NEW phone \in Phones \union {Null},
         NEW email \in BOOLEAN, CreateCustomer(c, phone, email)
  PROVE  ThreadsInv'
<1>1. customer' \in [Customers -> Customer]
  BY DEF CreateCustomer, ThreadsInv, MessagesTypeOK, Customer
<1> QED
  BY <1>1, EditKeeps DEF CreateCustomer, Edit

LEMMA UpdateCustomerKeeps ==
  ASSUME ThreadsInv, NEW c \in Customers, NEW phone \in Phones \union {Null},
         NEW email \in BOOLEAN, UpdateCustomer(c, phone, email)
  PROVE  ThreadsInv'
<1>1. customer' \in [Customers -> Customer]
  BY DEF UpdateCustomer, ThreadsInv, MessagesTypeOK, Customer
<1> QED
  BY <1>1, EditKeeps DEF UpdateCustomer, Edit

(* A text or a post is taken in: its message is yet to come.                 *)
LEMMA InboundKeeps ==
  ASSUME ThreadsInv, NEW w \in Workers, NEW c \in Customers, NEW channel \in {"sms", "portal"},
         NEW from \in Phones \union {Null}, from # Null => c \in Owners(from),
         Inbound(w, c, channel, from)
  PROVE  ThreadsInv'
<1> DEFINE new == [op |-> "inbound", customer |-> c, channel |-> channel, from |-> from,
                   begin |-> clock + 1, book |-> edits]
<1> USE DEF ThreadsInv
<1>1. /\ HandlerBecomes(w, new) /\ clock' = clock + 1
      /\ UNCHANGED <<customer, message, token, invited, edits>>
  BY DEF Inbound, Tick
<1>2. clock \in Nat /\ edits \in Nat
  BY DEF HandlersOk
<1>3. /\ new \in TextHeld /\ new.op = "inbound" /\ new.begin = clock + 1
      /\ new.from = from /\ new.customer = c /\ new.book = edits
  BY <1>2 DEF TextHeld
<1> HIDE DEF new
<1>4. HandlersOk' /\ \A v \in Workers : handler'[v].op \in {"idle", "inbound", "reading", "reply", "invite"}
  <2>1. \A t \in Tokens : token'[t].status # "none" => token'[t].customer \in Customers
    BY <1>1 DEF HandlersOk
  <2> QED
    BY <1>1, <1>2, <1>3, <2>1, HandlersStay DEF DeskHeld
<1>5. MessagesTypeOK'
  BY <1>1, <1>4 DEF MessagesTypeOK
<1>6. \A v \in Workers : handler'[v] = IF v = w THEN new ELSE handler[v]
  BY <1>1, OneHandler
<1>7. TimesOk'
  <2>1. \A m \in message' : m.begin < m.end /\ m.end <= clock'
    BY <1>1, <1>2 DEF TimesOk, MessagesTypeOK, Message
  <2>2. ASSUME NEW v \in Workers, handler'[v].op \in {"inbound", "reply"}
        PROVE  handler'[v].begin <= clock'
    <3>1. CASE v = w
      BY <3>1, <1>1, <1>2, <1>3, <1>6
    <3>2. CASE v # w
      <4>1. handler[v].begin <= clock /\ handler[v].begin \in Nat
        BY <1>6, <2>2, <3>2, InHands DEF TimesOk, TextHeld, ReplyHeld
      <4> QED
        BY <1>1, <1>2, <1>6, <3>2, <4>1
    <3> QED
      BY <3>1, <3>2
  <2> QED
    BY <2>1, <2>2 DEF TimesOk
<1>8. ThreadsKept'
  <2>1. ASSUME NEW x \in Texts', x \notin Texts
        PROVE  x.book = edits /\ x.customer \in Owners(x.from)
    <3>1. x = new /\ from # Null
      BY <1>1, <1>3, <1>6, <2>1 DEF Texts
    <3> QED
      BY <1>3, <3>1
  <2> QED
    BY <1>1, <1>2, <2>1, TextsKeep
<1>9. RepliesFollow'
  BY <1>1, <1>3, <1>6 DEF RepliesFollow
<1>10. InvitesOk'
  BY <1>1, <1>3, <1>6 DEF InvitesOk, MailedLinkOpens
<1> QED
  BY <1>4, <1>5, <1>7, <1>8, <1>9, <1>10

LEMMA TextArrivesKeeps ==
  ASSUME ThreadsInv, NEW w \in Workers, NEW phone \in Phones, TextArrives(w, phone)
  PROVE  ThreadsInv'
<1>1. PICK c \in Owners(phone) : Inbound(w, c, "sms", phone)
  BY DEF TextArrives
<1>2. c \in Customers
  BY DEF Owners, Known
<1> QED
  BY <1>1, <1>2, InboundKeeps

LEMMA PortalPostsKeeps ==
  ASSUME ThreadsInv, NEW w \in Workers, NEW t \in Tokens, PortalPosts(w, t)
  PROVE  ThreadsInv'
<1>1. token[t].customer \in Customers
  BY DEF PortalPosts, ThreadsInv, HandlersOk
<1> QED
  BY <1>1, InboundKeeps DEF PortalPosts

(* A message is committed by the request that held it.                       *)
LEMMA CommitKeeps ==
  ASSUME ThreadsInv, NEW w \in Workers, NEW m \in Message, HandlerBecomes(w, Idle),
         message' = message \union {m}, clock' = clock + 1, m.end = clock + 1,
         handler[w].op \in {"inbound", "reply"}, m.begin = handler[w].begin,
         m.sender = "customer" /\ m.from # Null =>
           \E x \in Texts : m.from = x.from /\ m.book = x.book /\ m.customer = x.customer,
         m.sender = "staff" => Follows(m, message),
         UNCHANGED <<customer, token, invited, edits>>
  PROVE  ThreadsInv'
<1> USE DEF ThreadsInv
<1>1. clock \in Nat /\ edits \in Nat /\ Idle.op = "idle"
  BY DEF HandlersOk, Idle
<1>2. HandlersOk' /\ \A v \in Workers : handler'[v].op \in {"idle", "inbound", "reading", "reply", "invite"}
  <2>1. \A t \in Tokens : token'[t].status # "none" => token'[t].customer \in Customers
    BY DEF HandlersOk
  <2> QED
    BY <1>1, <2>1, HandlersStay DEF DeskHeld
<1>3. MessagesTypeOK'
  BY <1>2 DEF MessagesTypeOK
<1>4. \A v \in Workers : handler'[v] = IF v = w THEN Idle ELSE handler[v]
  BY OneHandler
<1>5. \A v \in Workers : handler[v].op \in {"inbound", "reply"} =>
         handler[v].begin \in Nat /\ handler[v].begin <= clock
  BY InHands DEF TimesOk, TextHeld, ReplyHeld
<1>6. \A n \in message : n.begin \in Nat /\ n.end \in Nat /\ n.begin < n.end /\ n.end <= clock
  BY DEF TimesOk, MessagesTypeOK, Message
<1>7. TimesOk'
  <2>1. \A n \in message' : n.begin < n.end /\ n.end <= clock'
    BY <1>1, <1>5, <1>6
  <2>2. \A v \in Workers : handler'[v].op \in {"inbound", "reply"} => handler'[v].begin <= clock'
    BY <1>1, <1>4, <1>5
  <2> QED
    BY <2>1, <2>2 DEF TimesOk
<1>8. ThreadsKept'
  <2>1. ASSUME NEW x \in Texts'
        PROVE  \E y \in Texts : x.from = y.from /\ x.book = y.book /\ x.customer = y.customer
    <3>1. x \in Texts \/ (x = m /\ m.sender = "customer" /\ m.from # Null)
      BY <1>1, <1>4 DEF Texts
    <3> QED
      BY <3>1
  <2> QED
    BY <1>1, <2>1, TextsKeep
<1>9. RepliesFollow'
  <2>1. ASSUME NEW r, Follows(r, message), r.begin \in Nat, r.begin <= clock
        PROVE  Follows(r, message')
    <3>1. ~ (m.end < r.begin)
      BY <1>1, <2>1
    <3>2. SeenAlike(r, message, message \union {m})
      BY <3>1, LaterUnseen
    <3>3. Follows(r, message \union {m})
      BY <2>1, <3>2, FollowsKept
    <3> QED
      BY <3>3
  <2>2. ASSUME NEW r \in message', r.sender = "staff"  PROVE Follows(r, message')
    <3>1. Follows(r, message)
      BY <2>2 DEF RepliesFollow
    <3>2. r.begin \in Nat /\ r.begin <= clock
      BY <1>1, <1>5, <1>6
    <3> QED
      BY <2>1, <3>1, <3>2
  <2>3. ASSUME NEW v \in Workers, handler'[v].op = "reply"  PROVE Follows(handler'[v], message')
    <3>1. handler'[v] = handler[v] /\ handler[v].op = "reply"
      BY <1>1, <1>4, <2>3
    <3>2. Follows(handler[v], message)
      BY <3>1 DEF RepliesFollow
    <3>3. handler[v].begin \in Nat /\ handler[v].begin <= clock
      BY <1>5, <3>1
    <3> QED
      BY <2>1, <3>1, <3>2, <3>3
  <2> QED
    BY <2>2, <2>3 DEF RepliesFollow
<1>10. InvitesOk'
  BY <1>1, <1>4 DEF InvitesOk, MailedLinkOpens
<1> QED
  BY <1>2, <1>3, <1>7, <1>8, <1>9, <1>10

LEMMA InboundCommitsKeeps ==
  ASSUME ThreadsInv, NEW w \in Workers, InboundCommits(w)
  PROVE  ThreadsInv'
<1> DEFINE r == handler[w]
           m == [customer |-> r.customer, sender |-> "customer", channel |-> r.channel,
                 begin |-> r.begin, end |-> clock + 1, from |-> r.from, book |-> r.book,
                 notice |-> "office", read |-> FALSE]
<1>1. /\ r.op = "inbound" /\ clock' = clock + 1 /\ HandlerBecomes(w, Idle)
      /\ message' = message \union {m} /\ UNCHANGED <<customer, token, invited, edits>>
  BY DEF InboundCommits, Tick
<1>2. r \in TextHeld /\ clock \in Nat
  BY <1>1, InHands DEF ThreadsInv, HandlersOk
<1>3. m \in Message
  BY <1>2 DEF TextHeld, Message
<1>4. r.from # Null => r \in Texts
  BY <1>1 DEF Texts
<1>5. /\ m.end = clock + 1 /\ m.begin = r.begin /\ m.sender = "customer"
      /\ m.from = r.from /\ m.book = r.book /\ m.customer = r.customer
  OBVIOUS
<1> HIDE DEF m
<1> QED
  BY <1>1, <1>3, <1>4, <1>5, CommitKeeps

LEMMA ReplyCommitsKeeps ==
  ASSUME ThreadsInv, NEW w \in Workers, ReplyCommits(w)
  PROVE  ThreadsInv'
<1> DEFINE r == handler[w]
           m == [customer |-> r.customer, sender |-> "staff", channel |-> r.channel,
                 begin |-> r.begin, end |-> clock + 1, from |-> r.from, book |-> r.book,
                 notice |-> r.notice, read |-> FALSE]
<1>1. /\ r.op = "reply" /\ clock' = clock + 1 /\ HandlerBecomes(w, Idle)
      /\ message' = message \union {m} /\ UNCHANGED <<customer, token, invited, edits>>
  BY DEF ReplyCommits, Tick
<1>2. r \in ReplyHeld /\ clock \in Nat
  BY <1>1, InHands DEF ThreadsInv, HandlersOk
<1>3. m \in Message
  BY <1>2 DEF ReplyHeld, Message
<1>4. Follows(m, message)
  <2>1. Follows(r, message)
    BY <1>1 DEF ThreadsInv, RepliesFollow
  <2>2. /\ m.customer = r.customer /\ m.begin = r.begin /\ m.channel = r.channel
        /\ m.from = r.from
    OBVIOUS
  <2> HIDE DEF m
  <2>3. Seen(m, message) = Seen(r, message)
    BY <2>2 DEF Seen
  <2>4. Latest(m, message) = Latest(r, message)
    BY <2>3 DEF Latest
  <2> QED
    BY <2>1, <2>2, <2>3, <2>4 DEF Follows
<1>5. m.end = clock + 1 /\ m.begin = r.begin /\ m.sender = "staff"
  OBVIOUS
<1> HIDE DEF m
<1> QED
  BY <1>1, <1>3, <1>4, <1>5, CommitKeeps

(* Among the messages that have come there is a last one.                    *)
LEMMA LastExists ==
  ASSUME ThreadsInv, NEW c, From(c) # {}
  PROVE  LastInbound(c) # {}
<1>1. /\ From(c) \subseteq message /\ clock \in Nat
      /\ \A m \in From(c) : m.begin \in Nat /\ clock - m.begin \in Nat
  <2>1. \A m \in message : m.begin \in Nat /\ m.end \in Nat /\ m.begin < m.end /\ m.end <= clock
    BY DEF ThreadsInv, TimesOk, MessagesTypeOK, Message
  <2>2. clock \in Nat
    BY DEF ThreadsInv, HandlersOk
  <2>3. \A m \in message : clock - m.begin \in Nat
    BY <2>1, <2>2
  <2> QED
    BY <2>1, <2>2, <2>3 DEF From
<1> DEFINE ages == {clock - m.begin : m \in From(c)}
<1>2. ages \subseteq Nat /\ ages # {}
  BY <1>1
<1>3. PICK n \in ages : \A k \in ages : n <= k
  BY <1>2, SmallestNat
<1>4. PICK m \in From(c) : n = clock - m.begin
  BY <1>3
<1>5. \A k \in From(c) : k.begin <= m.begin
  <2> SUFFICES ASSUME NEW k \in From(c)  PROVE k.begin <= m.begin
    OBVIOUS
  <2>1. clock - m.begin <= clock - k.begin
    BY <1>3, <1>4
  <2> QED
    BY <1>1, <2>1
<1> QED
  BY <1>5 DEF LastInbound, From

LEMMA ReplyLooksKeeps ==
  ASSUME ThreadsInv, NEW w \in Workers, ReplyLooks(w)
  PROVE  ThreadsInv'
<1> DEFINE r == handler[w]
           c == r.customer
           new == [op |-> "reply", customer |-> c, begin |-> clock + 1, book |-> r.book,
                   channel |-> IF PrefersSms(r) THEN "sms" ELSE "portal",
                   from |-> r.from, notice |-> Notice(r)]
<1> USE DEF ThreadsInv
<1>1. /\ HandlerBecomes(w, new) /\ clock' = clock + 1
      /\ UNCHANGED <<customer, message, token, invited, edits>>
  BY DEF ReplyLooks, Tick
<1>2. clock \in Nat /\ edits \in Nat
  BY DEF HandlersOk
<1>3. /\ new.op = "reply" /\ new.begin = clock + 1 /\ new.customer = c
      /\ new.channel = IF PrefersSms(r) THEN "sms" ELSE "portal"
      /\ new.from = r.from
  OBVIOUS
<1>4. new \in ReplyHeld /\ c \in Customers
  <2>1. r \in ReadHeld
    BY InHands DEF ReplyLooks
  <2>2. r.customer \in Customers /\ r.book \in Nat /\ r.from \in Phones \union {Null}
    BY <2>1 DEF ReadHeld
  <2>3. Notice(r) \in {"sms", "email", "none"}
    BY DEF Notice
  <2> HIDE DEF r
  <2> QED
    BY <1>2, <2>2, <2>3 DEF ReplyHeld
<1> HIDE DEF new, c, r
<1>5. HandlersOk' /\ \A v \in Workers : handler'[v].op \in {"idle", "inbound", "reading", "reply", "invite"}
  <2>1. \A t \in Tokens : token'[t].status # "none" => token'[t].customer \in Customers
    BY <1>1 DEF HandlersOk
  <2> QED
    BY <1>1, <1>2, <1>4, <2>1, HandlersStay DEF DeskHeld
<1>6. MessagesTypeOK'
  BY <1>1, <1>5 DEF MessagesTypeOK
<1>7. \A v \in Workers : handler'[v] = IF v = w THEN new ELSE handler[v]
  BY <1>1, OneHandler
<1>8. \A m \in message : m.begin \in Nat /\ m.end \in Nat /\ m.begin < m.end /\ m.end <= clock
  BY DEF TimesOk, MessagesTypeOK, Message
<1>9. TimesOk'
  <2>1. \A m \in message' : m.begin < m.end /\ m.end <= clock'
    BY <1>1, <1>2, <1>8
  <2>2. ASSUME NEW v \in Workers, handler'[v].op \in {"inbound", "reply"}
        PROVE  handler'[v].begin <= clock'
    <3>1. CASE v = w
      BY <3>1, <1>1, <1>2, <1>3, <1>7
    <3>2. CASE v # w
      <4>1. handler[v].begin <= clock /\ handler[v].begin \in Nat
        BY <1>7, <2>2, <3>2, InHands DEF TimesOk, TextHeld, ReplyHeld
      <4> QED
        BY <1>1, <1>2, <1>7, <3>2, <4>1
    <3> QED
      BY <3>1, <3>2
  <2> QED
    BY <2>1, <2>2 DEF TimesOk
<1>10. ThreadsKept'
  <2>1. \A x \in Texts' : x \in Texts
    BY <1>1, <1>3, <1>7 DEF Texts
  <2> QED
    BY <1>1, <1>2, <2>1, TextsKeep
<1>11. Follows(new, message)
  <2>1. Seen(new, message) = From(c)
    BY <1>2, <1>3, <1>8 DEF Seen, From
  <2>2. LastInbound(c) \subseteq Latest(new, message)
    <3> SUFFICES ASSUME NEW m \in LastInbound(c)
                 PROVE  m \in From(c) /\ \A n \in From(c) : n.begin < m.end
      BY <2>1 DEF Latest
    <3>1. m \in From(c) /\ \A n \in From(c) : n.begin <= m.begin
      BY DEF LastInbound, From
    <3>2. From(c) \subseteq message
      BY DEF From
    <3> QED
      BY <1>8, <3>1, <3>2
  <2>3. CASE PrefersSms(r)
    <3>1. \E m \in Latest(new, message) : m.channel = "sms"
      BY <2>2, <2>3 DEF PrefersSms, c
    <3> QED
      BY <1>3, <2>3, <3>1 DEF Follows
  <2>4. CASE ~PrefersSms(r)
    <3>1. new.channel = "portal"
      BY <1>3, <2>4
    <3>2. ASSUME r.from # Null, From(c) # {}
          PROVE  \E m \in Latest(new, message) : m.channel = "portal"
      <4>1. PICK m : m \in LastInbound(c)
        BY <1>4, <3>2, LastExists
      <4>2. m.channel # "sms"
        BY <2>4, <3>2, <4>1 DEF PrefersSms, c
      <4>3. m.channel \in {"sms", "portal"}
        BY <4>1 DEF LastInbound, MessagesTypeOK, Message
      <4> QED
        BY <2>2, <4>1, <4>2, <4>3
    <3> QED
      BY <1>3, <2>1, <3>1, <3>2 DEF Follows
  <2> QED
    BY <2>3, <2>4
<1>12. RepliesFollow'
  BY <1>1, <1>7, <1>11 DEF RepliesFollow
<1>13. InvitesOk'
  BY <1>1, <1>3, <1>7 DEF InvitesOk, MailedLinkOpens
<1> QED
  BY <1>5, <1>6, <1>9, <1>10, <1>12, <1>13

LEMMA MarkReadKeeps ==
  ASSUME ThreadsInv, NEW m \in message, MarkRead(m)
  PROVE  ThreadsInv'
<1> DEFINE seen == [m EXCEPT !.read = TRUE]
<1> USE DEF ThreadsInv
<1>1. /\ message' = (message \ {m}) \union {seen}
      /\ UNCHANGED <<customer, handler, token, invited, clock, edits>>
  BY DEF MarkRead
<1>2. m \in Message
  BY DEF MessagesTypeOK
<1>3. /\ seen \in Message /\ SameMessage(m, seen)
      /\ seen.from = m.from /\ seen.book = m.book /\ seen.sender = m.sender
      /\ seen.customer = m.customer
  BY <1>2 DEF Message, SameMessage
<1> HIDE DEF seen
<1>4. MessagesTypeOK' /\ HandlersOk'
  BY <1>1, <1>3 DEF MessagesTypeOK, HandlersOk
<1>5. TimesOk'
  BY <1>1, <1>3 DEF TimesOk, SameMessage
<1>6. ThreadsKept'
  <2>1. ASSUME NEW x \in Texts'
        PROVE  \E y \in Texts : x.from = y.from /\ x.book = y.book /\ x.customer = y.customer
    <3>1. CASE x \in Texts
      BY <3>1
    <3>2. CASE x \notin Texts
      <4>1. x = seen /\ m \in Texts
        BY <1>1, <1>3, <3>2 DEF Texts
      <4> QED
        BY <1>3, <4>1
    <3> QED
      BY <3>1, <3>2
  <2> QED
    BY <1>1, <2>1, TextsKeep DEF HandlersOk
<1>7. RepliesFollow'
  <2>1. ASSUME NEW r, Follows(r, message)  PROVE Follows(r, message')
    <3>1. SeenAlike(r, message, message')
      <4>1. \A n \in message : \E k \in message' : SameMessage(n, k)
        BY <1>1, <1>3 DEF SameMessage
      <4>2. \A k \in message' : \E n \in message : SameMessage(n, k)
        BY <1>1, <1>3 DEF SameMessage
      <4> QED
        BY <4>1, <4>2 DEF SeenAlike, Seen
    <3> QED
      BY <2>1, <3>1, FollowsKept
  <2>2. ASSUME NEW r \in message', r.sender = "staff"  PROVE Follows(r, message')
    <3>1. CASE r \in message
      BY <2>1, <2>2, <3>1 DEF RepliesFollow
    <3>2. CASE r = seen
      <4>1. Follows(m, message)
        BY <1>3, <2>2, <3>2 DEF RepliesFollow
      <4>2. Follows(m, message')
        BY <2>1, <4>1
      <4>3. Seen(seen, message') = Seen(m, message')
        BY <1>3 DEF Seen, SameMessage
      <4>4. Latest(seen, message') = Latest(m, message')
        BY <4>3 DEF Latest
      <4> QED
        BY <1>3, <3>2, <4>2, <4>3, <4>4 DEF Follows, SameMessage
    <3> QED
      BY <1>1, <3>1, <3>2
  <2>3. ASSUME NEW v \in Workers, handler'[v].op = "reply"  PROVE Follows(handler'[v], message')
    BY <1>1, <2>1, <2>3 DEF RepliesFollow
  <2> QED
    BY <2>2, <2>3 DEF RepliesFollow
<1>8. InvitesOk'
  BY <1>1 DEF InvitesOk, MailedLinkOpens
<1> QED
  BY <1>4, <1>5, <1>6, <1>7, <1>8

(* A request ends, or one for a portal link or a reply begins.               *)
LEMMA LinkStepKeeps ==
  ASSUME ThreadsInv, NEW w \in Workers, NEW new \in {Idle} \union InviteHeld \union ReadHeld,
         HandlerBecomes(w, new), MessagesTypeOK', InvitesOk',
         \A t \in Tokens : token'[t].status # "none" => token'[t].customer \in Customers,
         UNCHANGED <<customer, message, clock, edits>>
  PROVE  ThreadsInv'
<1> USE DEF ThreadsInv
<1>1. new.op \in {"idle", "invite", "reading"}
  BY DEF Idle, InviteHeld, ReadHeld
<1>2. HandlersOk'
  <2>1. clock' \in Nat /\ clock <= clock'
    BY DEF HandlersOk
  <2> QED
    BY <2>1, HandlersStay DEF DeskHeld
<1>3. \A v \in Workers : handler'[v] = IF v = w THEN new ELSE handler[v]
  BY OneHandler
<1>4. TimesOk'
  BY <1>1, <1>3 DEF TimesOk
<1>5. ThreadsKept'
  <2>1. \A x \in Texts' : x \in Texts
    BY <1>1, <1>3 DEF Texts
  <2> QED
    BY <2>1, TextsKeep DEF HandlersOk
<1>6. RepliesFollow'
  BY <1>1, <1>3 DEF RepliesFollow
<1> QED
  BY <1>2, <1>4, <1>5, <1>6

LEMMA ReplyReadsKeeps ==
  ASSUME ThreadsInv, NEW w \in Workers, NEW c \in Customers, ReplyReads(w, c)
  PROVE  ThreadsInv'
<1> DEFINE new == [op |-> "reading", customer |-> c, book |-> edits,
                   from |-> IF Reachable(c) THEN customer[c].phone ELSE Null,
                   email |-> customer[c].email]
<1>1. HandlerBecomes(w, new) /\ UNCHANGED <<customer, message, token, invited, clock, edits>>
  BY DEF ReplyReads
<1>2. new \in ReadHeld /\ new.op = "reading"
  <2>1. customer[c].phone \in Phones \union {Null} /\ customer[c].email \in BOOLEAN
    BY DEF ThreadsInv, MessagesTypeOK, Customer
  <2>2. edits \in Nat
    BY DEF ThreadsInv, HandlersOk
  <2> QED
    BY <2>1, <2>2 DEF ReadHeld
<1> HIDE DEF new
<1>3. \A v \in Workers : handler'[v] = IF v = w THEN new ELSE handler[v]
  BY <1>1, OneHandler DEF ThreadsInv
<1>4. MessagesTypeOK' /\ InvitesOk'
  BY <1>1, <1>2, <1>3 DEF ThreadsInv, MessagesTypeOK, InvitesOk, MailedLinkOpens
<1>5. \A s \in Tokens : token'[s].status # "none" => token'[s].customer \in Customers
  BY <1>1 DEF ThreadsInv, HandlersOk
<1> QED
  BY <1>1, <1>2, <1>4, <1>5, LinkStepKeeps

LEMMA InviteIssuesKeeps ==
  ASSUME ThreadsInv, NEW w \in Workers, NEW c \in Customers, NEW t \in Tokens,
         InviteIssues(w, c, t)
  PROVE  ThreadsInv'
<1> DEFINE new == [op |-> "invite", customer |-> c, token |-> t]
           live == [status |-> "live", customer |-> c]
<1>1. /\ HandlerBecomes(w, new) /\ token[t].status = "none"
      /\ token' = [token EXCEPT ![t] = live]
      /\ UNCHANGED <<customer, message, invited, clock, edits>>
  BY DEF InviteIssues
<1>2. /\ new \in InviteHeld /\ new.op = "invite" /\ new.customer = c /\ new.token = t
      /\ live.status = "live" /\ live.customer = c
      /\ live \in [status : {"none", "live", "dead"}, customer : Customers \union {Null}]
  BY DEF InviteHeld
<1> HIDE DEF new, live
<1>3. /\ \A v \in Workers : handler'[v] = IF v = w THEN new ELSE handler[v]
      /\ \A s \in Tokens : token'[s] = IF s = t THEN live ELSE token[s]
  BY <1>1, OneHandler DEF ThreadsInv, MessagesTypeOK
<1>4. MessagesTypeOK'
  BY <1>1, <1>2, <1>3 DEF ThreadsInv, MessagesTypeOK
<1>5. InvitesOk'
  <2>1. \A i \in invited : i.token \in Tokens
    BY DEF ThreadsInv, MessagesTypeOK
  <2>2. MailedLinkOpens'
    BY <1>1, <1>3, <2>1 DEF ThreadsInv, InvitesOk, MailedLinkOpens
  <2>3. ASSUME NEW v \in Workers, handler'[v].op = "invite"
        PROVE  /\ token'[handler'[v].token].status # "none"
               /\ token'[handler'[v].token].customer = handler'[v].customer
    <3>1. CASE v = w
      BY <1>2, <1>3, <3>1
    <3>2. CASE v # w
      <4>1. handler'[v] = handler[v] /\ handler[v].token \in Tokens
        BY <1>3, <2>3, <3>2, InHands DEF ThreadsInv, InviteHeld
      <4>2. /\ token[handler[v].token].status # "none"
            /\ token[handler[v].token].customer = handler[v].customer
        BY <2>3, <4>1 DEF ThreadsInv, InvitesOk
      <4> QED
        BY <1>1, <1>3, <4>1, <4>2
    <3> QED
      BY <3>1, <3>2
  <2> QED
    BY <2>2, <2>3 DEF InvitesOk
<1>6. \A s \in Tokens : token'[s].status # "none" => token'[s].customer \in Customers
  BY <1>2, <1>3 DEF ThreadsInv, HandlersOk
<1> QED
  BY <1>1, <1>2, <1>4, <1>5, <1>6, LinkStepKeeps

LEMMA InviteCommitsKeeps ==
  ASSUME ThreadsInv, NEW w \in Workers, InviteCommits(w)
  PROVE  ThreadsInv'
<1> DEFINE mail == [customer |-> handler[w].customer, token |-> handler[w].token]
<1>1. /\ HandlerBecomes(w, Idle) /\ handler[w].op = "invite"
      /\ invited' = invited \union {mail}
      /\ UNCHANGED <<customer, message, token, clock, edits>>
  BY DEF InviteCommits
<1>2. handler[w] \in InviteHeld
  BY <1>1, InHands DEF ThreadsInv
<1>3. /\ mail \in [customer : Customers, token : Tokens]
      /\ mail.customer = handler[w].customer /\ mail.token = handler[w].token
  BY <1>2 DEF InviteHeld
<1> HIDE DEF mail
<1>4. Idle.op = "idle" /\ \A v \in Workers : handler'[v] = IF v = w THEN Idle ELSE handler[v]
  BY <1>1, OneHandler DEF ThreadsInv, Idle
<1>5. MessagesTypeOK'
  BY <1>1, <1>3, <1>4 DEF ThreadsInv, MessagesTypeOK
<1>6. InvitesOk'
  BY <1>1, <1>3, <1>4 DEF ThreadsInv, InvitesOk, MailedLinkOpens
<1>7. \A s \in Tokens : token'[s].status # "none" => token'[s].customer \in Customers
  BY <1>1 DEF ThreadsInv, HandlersOk
<1> QED
  BY <1>1, <1>5, <1>6, <1>7, LinkStepKeeps

LEMMA WorkerDiesKeepsThreads ==
  ASSUME ThreadsInv, NEW w \in Workers, WorkerDies(w)
  PROVE  ThreadsInv'
<1>1. HandlerBecomes(w, Idle) /\ UNCHANGED <<customer, message, token, invited, clock, edits>>
  BY DEF WorkerDies
<1>2. Idle.op = "idle" /\ \A v \in Workers : handler'[v] = IF v = w THEN Idle ELSE handler[v]
  BY <1>1, OneHandler DEF ThreadsInv, Idle
<1>3. MessagesTypeOK' /\ InvitesOk'
  BY <1>1, <1>2 DEF ThreadsInv, MessagesTypeOK, InvitesOk, MailedLinkOpens
<1>4. \A s \in Tokens : token'[s].status # "none" => token'[s].customer \in Customers
  BY <1>1 DEF ThreadsInv, HandlersOk
<1> QED
  BY <1>1, <1>3, <1>4, LinkStepKeeps

LEMMA TokenDiesKeeps ==
  ASSUME ThreadsInv, NEW t \in Tokens, TokenDies(t)
  PROVE  ThreadsInv'
<1> USE DEF ThreadsInv
<1>1. /\ token' = [token EXCEPT ![t] = [token[t] EXCEPT !.status = "dead"]]
      /\ token[t].status = "live"
      /\ UNCHANGED <<customer, message, handler, invited, clock, edits>>
  BY DEF TokenDies
<1>2. \A s \in Tokens : /\ token'[s].customer = token[s].customer
                        /\ token'[s].status = "none" <=> token[s].status = "none"
  BY <1>1 DEF MessagesTypeOK
<1>3. MessagesTypeOK'
  <2>1. [token[t] EXCEPT !.status = "dead"]
          \in [status : {"none", "live", "dead"}, customer : Customers \union {Null}]
    BY DEF MessagesTypeOK
  <2> QED
    BY <1>1, <2>1 DEF MessagesTypeOK
<1>4. HandlersOk' /\ TimesOk' /\ RepliesFollow'
  BY <1>1, <1>2 DEF HandlersOk, TimesOk, RepliesFollow
<1>5. ThreadsKept'
  <2>1. Texts' = Texts /\ edits \in Nat
    BY <1>1 DEF Texts, HandlersOk
  <2> QED
    BY <1>1, <2>1, TextsKeep
<1>6. InvitesOk'
  <2>1. \A i \in invited : i.token \in Tokens
    BY DEF MessagesTypeOK
  <2>2. \A v \in Workers : handler[v].op = "invite" => handler[v].token \in Tokens
    BY InHands DEF InviteHeld
  <2> QED
    BY <1>1, <1>2, <2>1, <2>2 DEF InvitesOk, MailedLinkOpens
<1> QED
  BY <1>3, <1>4, <1>5, <1>6

LEMMA ThreadsNextKeeps == ThreadsInv /\ [MessagesNext]_messageVars => ThreadsInv'
<1> SUFFICES ASSUME ThreadsInv, [MessagesNext]_messageVars  PROVE ThreadsInv'
  OBVIOUS
<1>1. CASE UNCHANGED messageVars
  BY <1>1 DEF messageVars, ThreadsInv, MessagesTypeOK, HandlersOk, TimesOk, ThreadsKept, Texts,
     Owners, Known, RepliesFollow, InvitesOk, MailedLinkOpens
<1>2. CASE MessagesNext
  BY <1>2, CreateCustomerKeeps, UpdateCustomerKeeps, MarkReadKeeps, TokenDiesKeeps,
     TextArrivesKeeps, PortalPostsKeeps, ReplyReadsKeeps, ReplyLooksKeeps, InviteIssuesKeeps,
     InboundCommitsKeeps, ReplyCommitsKeeps, InviteCommitsKeeps, WorkerDiesKeepsThreads
     DEF MessagesNext
<1> QED
  BY <1>1, <1>2

-----------------------------------------------------------------------------
(* Sign-ups: how far a submission is tells whether it made a row and was    *)
(* mailed, and one that may still make a row looked beside every recent row *)
(* of its address.                                                          *)
Stages == {"new", "checked", "duplicate", "stored", "mailed", "refused", "done", "dead"}

StagesTell ==
  \A p \in Posts :
    /\ post[p] \in {"new", "checked", "duplicate", "stored"} => mails[p] = 0
    /\ post[p] \in {"stored", "mailed"} => p \in lead.all
    /\ post[p] = "mailed" => mails[p] = 1

LookedBeside ==
  \A q \in Posts : post[q] = "checked" =>
    \A p \in lead.recent : Email[p] = Email[q] => <<p, q>> \in beside

SignUpsInv ==
  /\ post \in [Posts -> Stages] /\ mails \in [Posts -> Nat] /\ stamped \subseteq Posts
  /\ lead \in [all : SUBSET Posts, recent : SUBSET Posts]
  /\ StagesTell /\ LookedBeside
  /\ OneLeadADay /\ ToldIsMailed

LEMMA SignUpsStart == SignUps!Init => SignUpsInv
BY DEF SignUps!Init, SignUpsInv, Stages, StagesTell, LookedBeside, OneLeadADay, ToldIsMailed,
       SignUps!OneLeadADay, SignUps!ToldIsMailed

(* A submission moves on without a row, a mail or a stamp.                   *)
LEMMA MovesOnKeeps ==
  ASSUME SignUpsInv, NEW p \in Posts, NEW to \in Stages,
         post' = [post EXCEPT ![p] = to], UNCHANGED <<lead, stamped, beside, mails>>,
         to \in {"new", "checked", "duplicate", "stored"} => mails[p] = 0,
         to \notin {"stored", "mailed"},
         to = "checked" => \A q \in lead.recent : Email[q] # Email[p]
  PROVE  SignUpsInv'
<1>1. \A q \in Posts : post'[q] = IF q = p THEN to ELSE post[q]
  BY DEF SignUpsInv
<1>2. post' \in [Posts -> Stages]
  BY DEF SignUpsInv
<1>3. StagesTell'
  BY <1>1 DEF SignUpsInv, StagesTell
<1>4. LookedBeside'
  BY <1>1 DEF SignUpsInv, LookedBeside
<1>5. OneLeadADay' /\ ToldIsMailed'
  BY DEF SignUpsInv, OneLeadADay, ToldIsMailed, SignUps!OneLeadADay, SignUps!ToldIsMailed
<1> QED
  BY <1>2, <1>3, <1>4, <1>5 DEF SignUpsInv

LEMMA LooksKeeps ==
  ASSUME SignUpsInv, NEW p \in Posts, SignUps!Looks(p)
  PROVE  SignUpsInv'
<1>1. /\ post[p] = "new" /\ UNCHANGED <<lead, stamped, beside, mails>>
      /\ post' = [post EXCEPT ![p] = IF SignUps!Recent(p) = {} THEN "checked" ELSE "duplicate"]
  BY DEF SignUps!Looks, SignUps!Goes
<1>2. mails[p] = 0
  BY <1>1 DEF SignUpsInv, StagesTell
<1>3. SignUps!Recent(p) = {} => \A q \in lead.recent : Email[q] # Email[p]
  BY DEF SignUps!Recent
<1> QED
  BY <1>1, <1>2, <1>3, MovesOnKeeps DEF Stages

LEMMA StoresKeeps ==
  ASSUME SignUpsInv, NEW p \in Posts, SignUps!Stores(p)
  PROVE  SignUpsInv'
<1> DEFINE new == [all |-> lead.all \union {p}, recent |-> lead.recent \union {p}]
           more == {<<p, q>> : q \in {q \in Posts : post[q] = "checked"}}
<1>1. /\ post[p] = "checked" /\ post' = [post EXCEPT ![p] = "stored"]
      /\ lead' = new /\ beside' = beside \union more /\ UNCHANGED <<stamped, mails>>
  BY DEF SignUps!Stores, SignUps!Goes
<1>2. /\ new.all = lead.all \union {p} /\ new.recent = lead.recent \union {p}
      /\ new \in [all : SUBSET Posts, recent : SUBSET Posts]
  BY DEF SignUpsInv
<1>3. \A q \in Posts : post[q] = "checked" => <<p, q>> \in more
  OBVIOUS
<1> HIDE DEF new, more
<1>4. \A q \in Posts : post'[q] = IF q = p THEN "stored" ELSE post[q]
  BY <1>1 DEF SignUpsInv
<1>5. post' \in [Posts -> Stages]
  BY <1>1 DEF SignUpsInv, Stages
<1>6. StagesTell'
  BY <1>1, <1>2, <1>4 DEF SignUpsInv, StagesTell
<1>7. LookedBeside'
  BY <1>1, <1>2, <1>3, <1>4 DEF SignUpsInv, LookedBeside
<1>8. OneLeadADay'
  <2>1. \A q \in lead.recent : Email[q] = Email[p] => <<q, p>> \in beside'
    BY <1>1 DEF SignUpsInv, LookedBeside
  <2>2. \A q, r \in lead.recent : q # r /\ Email[q] = Email[r] =>
           <<q, r>> \in beside' \/ <<r, q>> \in beside'
    BY <1>1 DEF SignUpsInv, OneLeadADay, SignUps!OneLeadADay
  <2>3. \A q, r \in lead'.recent : q # r /\ Email[q] = Email[r] =>
           <<q, r>> \in beside' \/ <<r, q>> \in beside'
    BY <1>1, <1>2, <2>1, <2>2
  <2> QED
    BY <2>3 DEF OneLeadADay, SignUps!OneLeadADay
<1>9. ToldIsMailed'
  BY <1>1, <1>2 DEF SignUpsInv, ToldIsMailed, SignUps!ToldIsMailed
<1> QED
  BY <1>1, <1>2, <1>5, <1>6, <1>7, <1>8, <1>9 DEF SignUpsInv

LEMMA MailedKeeps ==
  ASSUME SignUpsInv, NEW p \in Posts, SignUps!Mailed(p)
  PROVE  SignUpsInv'
<1>1. /\ post[p] = "stored" /\ post' = [post EXCEPT ![p] = "mailed"]
      /\ mails' = [mails EXCEPT ![p] = mails[p] + 1] /\ UNCHANGED <<lead, stamped, beside>>
  BY DEF SignUps!Mailed, SignUps!Goes
<1>2. mails[p] = 0 /\ p \in lead.all
  BY <1>1 DEF SignUpsInv, StagesTell
<1>3. /\ \A q \in Posts : post'[q] = IF q = p THEN "mailed" ELSE post[q]
      /\ \A q \in Posts : mails'[q] = IF q = p THEN 1 ELSE mails[q]
      /\ post' \in [Posts -> Stages] /\ mails' \in [Posts -> Nat]
  BY <1>1, <1>2 DEF SignUpsInv, Stages
<1>4. StagesTell' /\ LookedBeside'
  BY <1>1, <1>2, <1>3 DEF SignUpsInv, StagesTell, LookedBeside
<1>5. OneLeadADay' /\ ToldIsMailed'
  BY <1>1, <1>2, <1>3 DEF SignUpsInv, OneLeadADay, ToldIsMailed,
     SignUps!OneLeadADay, SignUps!ToldIsMailed
<1> QED
  BY <1>1, <1>3, <1>4, <1>5 DEF SignUpsInv

LEMMA MarksKeeps ==
  ASSUME SignUpsInv, NEW p \in Posts, SignUps!Marks(p)
  PROVE  SignUpsInv'
<1>1. /\ post[p] = "mailed" /\ post' = [post EXCEPT ![p] = "done"]
      /\ stamped' = stamped \union {p} /\ UNCHANGED <<lead, beside, mails>>
  BY DEF SignUps!Marks, SignUps!Goes
<1>2. mails[p] = 1
  BY <1>1 DEF SignUpsInv, StagesTell
<1>3. /\ \A q \in Posts : post'[q] = IF q = p THEN "done" ELSE post[q]
      /\ post' \in [Posts -> Stages]
  BY <1>1 DEF SignUpsInv, Stages
<1>4. StagesTell' /\ LookedBeside'
  BY <1>1, <1>3 DEF SignUpsInv, StagesTell, LookedBeside
<1>5. OneLeadADay' /\ ToldIsMailed'
  BY <1>1, <1>2 DEF SignUpsInv, OneLeadADay, ToldIsMailed,
     SignUps!OneLeadADay, SignUps!ToldIsMailed
<1> QED
  BY <1>1, <1>3, <1>4, <1>5 DEF SignUpsInv

LEMMA DayPassesKeeps ==
  ASSUME SignUpsInv, NEW p \in Posts, SignUps!DayPasses(p)
  PROVE  SignUpsInv'
<1>1. /\ lead' = [lead EXCEPT !.recent = lead.recent \ {p}]
      /\ UNCHANGED <<post, stamped, beside, mails>>
  BY DEF SignUps!DayPasses
<1>2. /\ lead'.all = lead.all /\ lead'.recent \subseteq lead.recent
      /\ lead' \in [all : SUBSET Posts, recent : SUBSET Posts]
  BY <1>1 DEF SignUpsInv
<1> QED
  BY <1>1, <1>2 DEF SignUpsInv, StagesTell, LookedBeside, OneLeadADay, ToldIsMailed,
     SignUps!OneLeadADay, SignUps!ToldIsMailed

LEMMA SignUpsNextKeep == SignUpsInv /\ [SignUps!Next]_leadVars => SignUpsInv'
<1> SUFFICES ASSUME SignUpsInv, [SignUps!Next]_leadVars  PROVE SignUpsInv'
  OBVIOUS
<1>1. CASE UNCHANGED leadVars
  BY <1>1 DEF leadVars, SignUpsInv, StagesTell, LookedBeside, OneLeadADay, ToldIsMailed,
     SignUps!OneLeadADay, SignUps!ToldIsMailed
<1>2. ASSUME NEW p \in Posts, SignUps!NotMailed(p)  PROVE SignUpsInv'
  BY <1>2, MovesOnKeeps DEF SignUps!NotMailed, SignUps!Goes, Stages
<1>3. ASSUME NEW p \in Posts, SignUps!Dies(p)  PROVE SignUpsInv'
  BY <1>3, MovesOnKeeps DEF SignUps!Dies, SignUps!Goes, Stages
<1>4. CASE SignUps!Next
  BY <1>2, <1>3, <1>4, LooksKeeps, StoresKeeps, MailedKeeps, MarksKeeps, DayPassesKeeps
     DEF SignUps!Next
<1> QED
  BY <1>1, <1>4

-----------------------------------------------------------------------------
LEMMA DeskInvariance == DeskSpec => [](ThreadsInv /\ SignUpsInv)
<1>1. DeskInit => ThreadsInv /\ SignUpsInv
  BY ThreadsStart, SignUpsStart DEF DeskInit
<1>2. ThreadsInv /\ SignUpsInv /\ [DeskNext]_<<messageVars, leadVars>>
        => (ThreadsInv /\ SignUpsInv)'
  BY ThreadsNextKeeps, SignUpsNextKeep DEF DeskNext
<1> QED
  BY <1>1, <1>2, PTL DEF DeskSpec

(* Whatever texts, posts, replies, links and sign-ups are under way at once, *)
(* a number keeps its thread, a mailed link opens, an address makes a second *)
(* row in a day only of submissions under way together, and a stamped lead   *)
(* was mailed once: sms_webhooks.py, portal.py, marketing_leads.py.          *)
THEOREM DeskAgrees == DeskSpec => []DeskConsistent
<1>1. ThreadsInv => NumberKeepsThread
  <2> SUFFICES ASSUME ThreadsInv, NEW m \in message, NEW n \in message,
                      m.sender = "customer", n.sender = "customer", m.from = n.from,
                      m.from # Null, m.book = n.book
               PROVE  m.customer = n.customer
    BY DEF NumberKeepsThread
  <2>1. m \in Texts /\ n \in Texts
    BY DEF Texts
  <2> QED
    BY <2>1 DEF ThreadsInv, ThreadsKept
<1>2. ThreadsInv /\ SignUpsInv => DeskConsistent
  BY <1>1 DEF ThreadsInv, SignUpsInv, InvitesOk, DeskConsistent
<1> QED
  BY <1>2, DeskInvariance, PTL

(* A reply goes by the channel of a message of its customer that no later    *)
(* one had replaced when its handler looked, in whatever order messages      *)
(* under way together are committed: send_from_staff.                        *)
THEOREM RepliesFollowCustomers == DeskSpec => []ReplyFollowsCustomer
<1>1. ThreadsInv => ReplyFollowsCustomer
  <2> SUFFICES ASSUME ThreadsInv, NEW r \in message, r.sender = "staff"
               PROVE  LET seen == {m \in From(r.customer) : m.end < r.begin}
                          latest == {m \in seen : \A n \in seen : n.begin < m.end} IN
                      /\ r.channel = "sms" => \E m \in latest : m.channel = "sms"
                      /\ r.channel = "portal" =>
                           (\E m \in latest : m.channel = "portal") \/ seen = {} \/ r.from = Null
    BY DEF ReplyFollowsCustomer
  <2>1. Follows(r, message)
    BY DEF ThreadsInv, RepliesFollow
  <2>2. {m \in From(r.customer) : m.end < r.begin} = Seen(r, message)
    BY DEF From, Seen
  <2> QED
    BY <2>1, <2>2 DEF Follows, Latest
<1> QED
  BY <1>1, DeskInvariance, PTL

=============================================================================
