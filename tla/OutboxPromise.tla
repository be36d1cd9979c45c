----------------------------- MODULE OutboxPromise -----------------------------
(***************************************************************************)
(* What the outbox promises the rest of the program about an event once it *)
(* is written: it is sent only while it is owed; it is called dispatched   *)
(* only if it was sent at least once; once it is settled, dispatched or    *)
(* given up as a dead letter, it is never sent again; and it is settled in *)
(* the end.  How many dispatchers there are, what they claim and how often *)
(* they die is not part of the promise.                                    *)
(***************************************************************************)
EXTENDS Naturals

CONSTANTS Events,   \* the events
          Silent    \* those no transport is registered for: nothing to send

VARIABLES stage,    \* how far each event is
          sent      \* how often it went out

promise == <<stage, sent>>

Stages == {"absent", "pending", "dispatched", "dead_letter"}

Init == /\ stage = [e \in Events |-> "absent"]
        /\ sent = [e \in Events |-> 0]

Owe(e) == /\ stage[e] = "absent"
          /\ stage' = [stage EXCEPT ![e] = "pending"]
          /\ UNCHANGED sent

Send(e) == /\ stage[e] = "pending"
           /\ sent' = [sent EXCEPT ![e] = @ + 1]
           /\ UNCHANGED stage

\* A whole batch is settled at once: the events of Good and those of Bad.
Settle(Good, Bad) ==
  /\ Good \cap Bad = {}
  /\ \A e \in Good \cup Bad : stage[e] = "pending"
  /\ \A e \in Good \ Silent : sent[e] > 0
  /\ stage' = [e \in Events |-> IF e \in Good THEN "dispatched"
                                ELSE IF e \in Bad THEN "dead_letter"
                                ELSE stage[e]]
  /\ UNCHANGED sent

Next == \/ \E e \in Events : Owe(e) \/ Send(e)
        \/ \E Good, Bad \in SUBSET Events : Settle(Good, Bad)

Spec == Init /\ [][Next]_promise

SettleOne(e) ==
  \E Good, Bad \in SUBSET Events : e \in Good \cup Bad /\ Settle(Good, Bad)

FairSpec == Spec /\ \A e \in Events : WF_promise(SettleOne(e))

=============================================================================
