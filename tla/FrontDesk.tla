-------------------------------- MODULE FrontDesk --------------------------------
(***************************************************************************)
(* What reaches a shop and the platform from outside: customers' messages  *)
(* (Messages) and trial sign-ups (Leads).  No step of either reads or      *)
(* writes a row of the other, so that each is explored with the other at   *)
(* rest: their interleavings would show nothing more.                      *)
(***************************************************************************)
EXTENDS Messages

CONSTANTS Posts, Email

VARIABLES post, lead, stamped, beside, mails

SignUps == INSTANCE Leads

leadVars == <<post, lead, stamped, beside, mails>>

NoMessageYet == clock = 0 /\ left = Happenings

NoSignUpYet == \A p \in Posts : post[p] = "new"

DeskInit == MessagesInit /\ SignUps!Init

DeskNext ==
  \/ NoSignUpYet /\ MessagesNext /\ UNCHANGED leadVars
  \/ NoMessageYet /\ SignUps!Next /\ UNCHANGED messageVars

DeskSpec == DeskInit /\ [][DeskNext]_<<messageVars, leadVars>>

(* "Same email within 24h returns the existing lead": two rows for one       *)
(* address in a day only of submissions under way together. *)
OneLeadADay == SignUps!OneLeadADay

(* A stamped lead has been mailed, and once: _notify_and_mark. *)
ToldIsMailed == SignUps!ToldIsMailed

(* Threads, links and leads are whole: sms_webhooks.py, portal.py,            *)
(* marketing_leads.py. *)
DeskConsistent ==
  /\ MessagesTypeOK
  /\ NumberKeepsThread
  /\ MailedLinkOpens
  /\ OneLeadADay
  /\ ToldIsMailed
=============================================================================
