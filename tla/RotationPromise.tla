--------------------------- MODULE RotationPromise ---------------------------
(***************************************************************************)
(* What rotating refresh tokens promise whoever holds one, apart from      *)
(* databases, locks and requests: a sign-in opens a family with one good   *)
(* token, a token is exchanged for exactly one successor, and what was     *)
(* exchanged, revoked or expired is never good again.                      *)
(***************************************************************************)
CONSTANT Tokens

VARIABLES good,      \* the tokens that can be exchanged now
          spent,     \* the tokens that no longer can
          familyOf   \* the family of every token there ever was

promised == <<good, spent, familyOf>>

Unborn(t) == t \notin good \union spent

PromiseInit == good = {} /\ spent = {} /\ familyOf = [t \in Tokens |-> t]

(* A sign-in.  The family is named after its first token. *)
Open(t) ==
  /\ Unborn(t)
  /\ good' = good \union {t}
  /\ familyOf' = [familyOf EXCEPT ![t] = t]
  /\ spent' = spent

(* A token and its only successor. *)
Exchange(t, next) ==
  /\ t \in good /\ Unborn(next)
  /\ good' = (good \ {t}) \union {next}
  /\ spent' = spent \union {t}
  /\ familyOf' = [familyOf EXCEPT ![next] = familyOf[t]]

(* Sign-outs, resets, detected reuse and the calendar. *)
End(T) ==
  /\ T \subseteq good
  /\ good' = good \ T
  /\ spent' = spent \union T
  /\ familyOf' = familyOf

PromiseNext ==
  \/ \E t \in Tokens : Open(t)
  \/ \E t, next \in Tokens : Exchange(t, next)
  \/ \E T \in SUBSET good : End(T)

PromiseSpec == PromiseInit /\ [][PromiseNext]_promised
=============================================================================
