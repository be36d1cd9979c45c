-------------------------------- MODULE Messages --------------------------------
(***************************************************************************)
(* Customer threads (services/messages.py), texts coming in                *)
(* (services/sms_webhooks.py) and the customer portal's links              *)
(* (services/portal.py, services/public_tokens.py).                        *)
(*                                                                         *)
(* created_at is the start of a message's transaction, while a message     *)
(* shows once it is committed: two orders that need not agree.             *)
(***************************************************************************)
EXTENDS Integers, FiniteSetsExt

CONSTANTS Customers,    \* numbered as they were created, over all companies
          Phones, Tokens, Workers,
          OptedOut,     \* customers with sms_opted_out, which no code sets
          Null,         \* NULL
          MaxMessages,  \* bound: messages stored
          Happenings    \* bound: other things that happen

ASSUME MessagesAssumption ==
  /\ Customers \subseteq Nat /\ OptedOut \subseteq Customers
  /\ MaxMessages \in Nat /\ Happenings \in Nat
  /\ Null \notin Phones

VARIABLES
  customer,  \* customers: the phone and whether there is an email address
  message,   \* messages committed
  handler,   \* requests between their reads and their commit
  token,     \* public_tokens of the portal
  invited,   \* outbox_events of type customer.portal_invite
  clock,     \* starts and commits so far
  edits,     \* changes to the customer book so far
  left       \* what is left of Happenings

messageVars == <<customer, message, handler, token, invited, clock, edits, left>>

-----------------------------------------------------------------------------
Customer == [here : BOOLEAN, phone : Phones \union {Null}, email : BOOLEAN]

Unknown == [here |-> FALSE, phone |-> Null, email |-> FALSE]

(* begin is created_at, of a reply the moment its handler looked at the        *)
(* thread; end the commit; from is the number a text came from or a reply      *)
(* could be texted to; book is the state of the customer book the handler      *)
(* read; notice is what the outbox tells the other side.                       *)
Message == [customer : Customers, sender : {"customer", "staff"}, channel : {"sms", "portal"},
            begin : Nat, end : Nat, from : Phones \union {Null}, book : Nat,
            notice : {"office", "sms", "email", "none"}, read : BOOLEAN]

NoToken == [status |-> "none", customer |-> Null]

Idle == [op |-> "idle"]

MessagesInit ==
  /\ customer \in {[c \in Customers |-> IF c = 1 THEN row ELSE Unknown]
                     : row \in {r \in Customer : r.here}}
  /\ message = {} /\ invited = {}
  /\ handler = [w \in Workers |-> Idle]
  /\ token = [t \in Tokens |-> NoToken]
  /\ clock = 0 /\ edits = 0 /\ left = Happenings

-----------------------------------------------------------------------------
Happens == left > 0 /\ left' = left - 1

Tick == clock' = clock + 1

IsIdle(w) == handler[w].op = "idle"

HandlerBecomes(w, new) == handler' = [handler EXCEPT ![w] = new]

Known == {c \in Customers : customer[c].here}

Under(w) == {v \in Workers : handler[v].op \in {"inbound", "reading", "reply"}}

(* Room for the messages under way and one more. *)
Room(w) == Cardinality(message) + Cardinality(Under(w)) < MaxMessages

-----------------------------------------------------------------------------
(* The customer book. *)

Edit == Happens /\ edits' = edits + 1

CreateCustomer(c, phone, email) ==
  /\ c \notin Known /\ (\A b \in Customers : b < c => b \in Known) /\ Edit
  /\ customer' = [customer EXCEPT ![c] = [here |-> TRUE, phone |-> phone, email |-> email]]
  /\ UNCHANGED <<message, handler, token, invited, clock>>

UpdateCustomer(c, phone, email) ==
  LET row == [here |-> TRUE, phone |-> phone, email |-> email] IN
  /\ c \in Known /\ customer[c] # row /\ Edit
  /\ customer' = [customer EXCEPT ![c] = row]
  /\ UNCHANGED <<message, handler, token, invited, clock>>

-----------------------------------------------------------------------------
(* Messages from a customer. *)

(* Mutant: the first customer with the number will do. *)
OwnersAnyOrder(phone) == {c \in Known : customer[c].phone = phone}

(* _find_customer_by_phone: the customer created last, of whatever company. *)
Owners(phone) ==
  LET holders == {c \in Known : customer[c].phone = phone} IN
  {c \in holders : \A b \in holders : b <= c}

(* send_from_customer up to its INSERT. *)
Inbound(w, c, channel, from) ==
  /\ IsIdle(w) /\ Room(w) /\ Tick
  /\ HandlerBecomes(w, [op |-> "inbound", customer |-> c, channel |-> channel, from |-> from,
                        begin |-> clock + 1, book |-> edits])
  /\ UNCHANGED <<customer, message, token, invited, edits, left>>

(* receive_inbound_sms; a number nobody has is dropped. *)
TextArrives(w, phone) == \E c \in Owners(phone) : Inbound(w, c, "sms", phone)

(* post_message, its portal token resolved. *)
PortalPosts(w, t) ==
  token[t].status = "live" /\ Inbound(w, token[t].customer, "portal", Null)

(* The INSERT, one outbox row for each of the office, and the commit. *)
InboundCommits(w) ==
  LET r == handler[w] IN
  /\ r.op = "inbound" /\ Tick
  /\ message' = message \union
       {[customer |-> r.customer, sender |-> "customer", channel |-> r.channel,
         begin |-> r.begin, end |-> clock + 1, from |-> r.from, book |-> r.book,
         notice |-> "office", read |-> FALSE]}
  /\ HandlerBecomes(w, Idle)
  /\ UNCHANGED <<customer, token, invited, edits, left>>

-----------------------------------------------------------------------------
(* Replies of the office. *)

(* Mutant: the oldest first. *)
FirstInbound(c) ==
  LET thread == {m \in message : m.customer = c /\ m.sender = "customer"} IN
  {m \in thread : \A n \in thread : m.begin <= n.begin}

(* The customer's last message to the shop, by created_at. *)
LastInbound(c) ==
  LET thread == {m \in message : m.customer = c /\ m.sender = "customer"} IN
  {m \in thread : \A n \in thread : n.begin <= m.begin}

Reachable(c) == customer[c].phone # Null /\ c \notin OptedOut

(* prefers_sms, r being what is known of the customer. *)
PrefersSms(r) == r.from # Null /\ \E m \in LastInbound(r.customer) : m.channel = "sms"

(* What the reply is announced by: a text, an email, or nothing. *)
Notice(r) == IF PrefersSms(r) THEN "sms" ELSE IF r.email THEN "email" ELSE "none"

(* send_from_staff: the customer is read .. *)
ReplyReads(w, c) ==
  /\ IsIdle(w) /\ c \in Known /\ Room(w)
  /\ HandlerBecomes(w, [op |-> "reading", customer |-> c, book |-> edits,
                        from |-> IF Reachable(c) THEN customer[c].phone ELSE Null,
                        email |-> customer[c].email])
  /\ UNCHANGED <<customer, message, token, invited, clock, edits, left>>

(* .. then the channel of the last inbound message .. *)
ReplyLooks(w) ==
  LET r == handler[w] IN
  /\ r.op = "reading" /\ Tick
  /\ HandlerBecomes(w, [op |-> "reply", customer |-> r.customer, begin |-> clock + 1,
                        book |-> r.book, channel |-> IF PrefersSms(r) THEN "sms" ELSE "portal",
                        from |-> r.from, notice |-> Notice(r)])
  /\ UNCHANGED <<customer, message, token, invited, edits, left>>

(* .. and the reply and its notice are written and committed. *)
ReplyCommits(w) ==
  LET r == handler[w] IN
  /\ r.op = "reply" /\ Tick
  /\ message' = message \union
       {[customer |-> r.customer, sender |-> "staff", channel |-> r.channel,
         begin |-> r.begin, end |-> clock + 1, from |-> r.from, book |-> r.book,
         notice |-> r.notice, read |-> FALSE]}
  /\ HandlerBecomes(w, Idle)
  /\ UNCHANGED <<customer, token, invited, edits, left>>

(* mark_read *)
MarkRead(m) ==
  /\ ~m.read /\ Happens
  /\ message' = (message \ {m}) \union {[m EXCEPT !.read = TRUE]}
  /\ UNCHANGED <<customer, handler, token, invited, clock, edits>>

-----------------------------------------------------------------------------
(* Portal links. *)

(* send_portal_invite: issue_public_token commits the token by itself .. *)
InviteIssues(w, c, t) ==
  /\ IsIdle(w) /\ c \in Known /\ token[t].status = "none" /\ Happens
  /\ token' = [token EXCEPT ![t] = [status |-> "live", customer |-> c]]
  /\ HandlerBecomes(w, [op |-> "invite", customer |-> c, token |-> t])
  /\ UNCHANGED <<customer, message, invited, clock, edits>>

(* .. before the email with the link is queued. *)
InviteCommits(w) ==
  LET r == handler[w] IN
  /\ r.op = "invite"
  /\ invited' = invited \union {[customer |-> r.customer, token |-> r.token]}
  /\ HandlerBecomes(w, Idle)
  /\ UNCHANGED <<customer, message, token, clock, edits, left>>

(* 90 days, or revoke_public_token. *)
TokenDies(t) ==
  /\ token[t].status = "live" /\ Happens
  /\ token' = [token EXCEPT ![t] = [token[t] EXCEPT !.status = "dead"]]
  /\ UNCHANGED <<customer, message, handler, invited, clock, edits>>

WorkerDies(w) ==
  /\ ~IsIdle(w) /\ Happens
  /\ HandlerBecomes(w, Idle)
  /\ UNCHANGED <<customer, message, token, invited, clock, edits>>

-----------------------------------------------------------------------------
MessagesNext ==
  \/ \E c \in Customers, phone \in Phones \union {Null}, email \in BOOLEAN :
       CreateCustomer(c, phone, email) \/ UpdateCustomer(c, phone, email)
  \/ \E m \in message : MarkRead(m)
  \/ \E t \in Tokens : TokenDies(t)
  \/ \E w \in Workers :
       \/ \E phone \in Phones : TextArrives(w, phone)
       \/ \E t \in Tokens : PortalPosts(w, t)
       \/ \E c \in Customers : ReplyReads(w, c)
       \/ \E c \in Customers, t \in Tokens : InviteIssues(w, c, t)
       \/ InboundCommits(w) \/ ReplyLooks(w) \/ ReplyCommits(w) \/ InviteCommits(w) \/ WorkerDies(w)

-----------------------------------------------------------------------------
(* Types of the tables. *)
MessagesTypeOK ==
  /\ customer \in [Customers -> Customer]
  /\ message \subseteq Message
  /\ \A w \in Workers : handler[w].op \in {"idle", "inbound", "reading", "reply", "invite"}
  /\ token \in [Tokens -> [status : {"none", "live", "dead"}, customer : Customers \union {Null}]]
  /\ invited \subseteq [customer : Customers, token : Tokens]

From(c) == {m \in message : m.customer = c /\ m.sender = "customer"}

(* "SMS if the customer's most recent inbound message arrived via SMS": a    *)
(* reply follows a message of its customer that was stored when its handler  *)
(* looked, and that no message stored by then had been begun after, in       *)
(* whatever order messages under way together are stored.  send_from_staff. *)
ReplyFollowsCustomer ==
  \A r \in message : r.sender = "staff" =>
    LET seen == {m \in From(r.customer) : m.end < r.begin}
        latest == {m \in seen : \A n \in seen : n.begin < m.end}
        texted == \E m \in latest : m.channel = "sms"
        posted == \E m \in latest : m.channel = "portal" IN
    /\ r.channel = "sms" => texted
    /\ r.channel = "portal" => posted \/ seen = {} \/ r.from = Null

(* Texts of one number stay in one thread for as long as nobody changes the  *)
(* customer book.  _find_customer_by_phone. *)
NumberKeepsThread ==
  \A m, n \in message :
    m.sender = "customer" /\ n.sender = "customer" /\ m.from = n.from /\ m.from # Null
      /\ m.book = n.book => m.customer = n.customer

(* A link in the mail is good for its customer and no other until it         *)
(* expires, wherever the process issuing it died.  send_portal_invite. *)
MailedLinkOpens ==
  \A i \in invited : token[i.token].status # "none" /\ token[i.token].customer = i.customer
=============================================================================
