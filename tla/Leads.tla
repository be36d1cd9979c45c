---------------------------------- MODULE Leads ----------------------------------
(***************************************************************************)
(* Trial sign-ups of the marketing site (services/marketing_leads.py,      *)
(* routes/marketing_leads.py): stored once per address and day, and told   *)
(* to the platform's owner by a task the answered request leaves behind.   *)
(***************************************************************************)
EXTENDS Naturals

CONSTANTS Posts,  \* submissions of the form
          Email   \* Email[p]: the address given in submission p

VARIABLES
  post,    \* how far each submission and its task are
  lead,    \* marketing_leads: submissions that made a row; those of the last 24 hours
  stamped, \* rows with notified_at set
  beside,  \* history: submissions that looked before another one stored
  mails    \* history: emails the transport took for each lead

-----------------------------------------------------------------------------
Init ==
  /\ post = [p \in Posts |-> "new"]
  /\ lead = [all |-> {}, recent |-> {}]
  /\ stamped = {}
  /\ beside = {}
  /\ mails = [p \in Posts |-> 0]

Goes(p, from, to) == post[p] \in from /\ post' = [post EXCEPT ![p] = to]

(* find_recent_duplicate *)
Recent(p) == {q \in lead.recent : Email[q] = Email[p]}

(* create_marketing_lead, the duplicate check: a duplicate is answered. *)
Looks(p) ==
  /\ Goes(p, {"new"}, IF Recent(p) = {} THEN "checked" ELSE "duplicate")
  /\ UNCHANGED <<lead, stamped, beside, mails>>

(* The INSERT, the commit, and the task for after the answer. *)
Stores(p) ==
  /\ Goes(p, {"checked"}, "stored")
  /\ lead' = [all |-> lead.all \union {p}, recent |-> lead.recent \union {p}]
  /\ beside' = beside \union {<<p, q>> : q \in {q \in Posts : post[q] = "checked"}}
  /\ UNCHANGED <<stamped, mails>>

(* notify_new_lead: the transport takes the email, or not. *)
Mailed(p) ==
  /\ Goes(p, {"stored"}, "mailed")
  /\ mails' = [mails EXCEPT ![p] = mails[p] + 1]
  /\ UNCHANGED <<lead, stamped, beside>>

NotMailed(p) ==
  /\ Goes(p, {"stored"}, "refused")
  /\ UNCHANGED <<lead, stamped, beside, mails>>

(* _notify_and_mark stamps notified_at "on success". *)
Marks(p) ==
  /\ Goes(p, {"mailed"}, "done")
  /\ stamped' = stamped \union {p}
  /\ UNCHANGED <<lead, beside, mails>>

DayPasses(p) ==
  /\ p \in lead.recent
  /\ lead' = [lead EXCEPT !.recent = lead.recent \ {p}]
  /\ UNCHANGED <<post, stamped, beside, mails>>

(* The process ends, and with it the request or its task; or the stamp fails. *)
Dies(p) ==
  /\ Goes(p, {"checked", "stored", "mailed"}, "dead")
  /\ UNCHANGED <<lead, stamped, beside, mails>>

Next ==
  \E p \in Posts :
    \/ Looks(p) \/ Stores(p) \/ Mailed(p) \/ NotMailed(p) \/ Marks(p)
    \/ DayPasses(p) \/ Dies(p)

-----------------------------------------------------------------------------
(* "Same email within 24h returns the existing lead": two rows of a day are  *)
(* of submissions that looked before either was stored. *)
OneLeadADay ==
  \A p, q \in lead.recent :
    p # q /\ Email[p] = Email[q] => {<<p, q>>, <<q, p>>} \intersect beside # {}

(* A lead is stamped only once its email is out, and mailed at most once,    *)
(* by whichever step the task dies.  _notify_and_mark. *)
ToldIsMailed ==
  /\ \A p \in stamped : mails[p] = 1
  /\ \A p \in Posts : mails[p] <= 1 /\ (mails[p] = 1 => p \in lead.all)
=============================================================================
