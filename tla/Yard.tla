---------------------------------- MODULE Yard ----------------------------------
(***************************************************************************)
(* A shop's customers, boats and work orders (services/customers.py,       *)
(* vessels.py, jobs.py) and the geocoding of addresses                     *)
(* (services/geocoding.py, jobs/geocode_backfill.py).                      *)
(*                                                                         *)
(* A request checks what it is given against the database and writes in a  *)
(* later statement, without locks: what it has read may be old by then.    *)
(***************************************************************************)
EXTENDS Integers, FiniteSets

CONSTANTS Customers, Vessels, Jobs,
          Workers,  \* requests that may be under way at once
          None,     \* NULL
          Keep,     \* a column a PATCH leaves alone
          Events    \* bound: edits, deletions and sweeps begun

ASSUME YardAssumption ==
  /\ Events \in Nat
  /\ Keep # None /\ {Keep, None} \intersect (Customers \union Vessels \union Jobs) = {}
  /\ Customers \intersect Vessels = {} /\ Customers \intersect Jobs = {}
  /\ Vessels \intersect Jobs = {}

VARIABLES
  customer,  \* customers: address, and the address its coordinates are of
  vessel,    \* vessels: the owner
  job,       \* jobs: whose, and on which boat
  request,   \* requests between their reads and their writes
  disturbed, \* history: jobs whose pairing was changed behind a check's back
  crossed,   \* history: customers whose address changed behind a geocoder's back
  gone,      \* history: rows deleted, whose ids never come back
  budget     \* what is left of Events

vars == <<customer, vessel, job, request, disturbed, crossed, gone, budget>>

-----------------------------------------------------------------------------
Part == {"street", "city"}

Address == [Part -> 1 .. 2]

Somewhere == [part \in Part |-> 1]

Customer == [here : BOOLEAN, address : Address, geocoded : Address \union {None}]

Job == [here : BOOLEAN, customer : Customers \union {None}, vessel : Vessels \union {None}]

NoJob == [here |-> FALSE, customer |-> None, vessel |-> None]

(* A request: the rows its write rests on, those of them that have changed. *)
Idle == [op |-> "idle", read |-> {}, stale |-> {}]

Init ==
  /\ customer \in [Customers -> {[here |-> yes, address |-> Somewhere, geocoded |-> None]
                                   : yes \in BOOLEAN}]
  /\ vessel = [v \in Vessels |-> None]
  /\ job = [j \in Jobs |-> NoJob]
  /\ request = [w \in Workers |-> Idle]
  /\ disturbed = {} /\ crossed = {} /\ gone = {}
  /\ budget = Events

-----------------------------------------------------------------------------
Event == budget > 0 /\ budget' = budget - 1

IsIdle(w) == request[w].op = "idle"

Becomes(w, new) == request' = [request EXCEPT ![w] = new]

Present == {c \in Customers : customer[c].here}

Afloat == {v \in Vessels : vessel[v] # None}

Ordered == {j \in Jobs : job[j].here}

(* Requests other than w that have read the row x have read what is old now. *)
Outdated(w, x) ==
  [v \in Workers |-> IF v = w THEN Idle
                     ELSE IF x \in request[v].read
                     THEN [request[v] EXCEPT !.stale = request[v].stale \union {x}]
                     ELSE request[v]]

Marked(set, x, changed) == IF changed THEN set \union {x} ELSE set \ {x}

-----------------------------------------------------------------------------
(* Customers. *)

(* geocode: coordinates, or none on any failure. *)
Geocode(address) == {address, None}

(* Rows the backfill has updated and not committed. *)
Held(c) == \E w \in Workers : request[w].op = "backfill" /\ c \in request[w].held

(* customers.create *)
CreateCustomer(c, address) ==
  /\ c \notin Present \union gone /\ Event
  /\ \E found \in Geocode(address) :
       customer' = [customer EXCEPT ![c] = [here |-> TRUE, address |-> address, geocoded |-> found]]
  /\ UNCHANGED <<vessel, job, request, disturbed, crossed, gone>>

(* Mutant: only the part that changes is looked up. *)
MergedWithBlank(c, part, value) == [Somewhere EXCEPT ![part] = value]

(* The row's address with the change merged in. *)
Merged(c, part, value) == [customer[c].address EXCEPT ![part] = value]

(* customers.update up to the geocoder's answer. *)
AddressLooks(w, c, part, value) ==
  /\ IsIdle(w) /\ c \in Present /\ value # customer[c].address[part] /\ Event
  /\ \E found \in Geocode(Merged(c, part, value)) :
       Becomes(w, [op |-> "address", read |-> {c}, stale |-> {},
                   part |-> part, value |-> value, geocoded |-> found])
  /\ UNCHANGED <<customer, vessel, job, disturbed, crossed, gone>>

(* The UPDATE: the columns of the PATCH and the coordinates. *)
AddressWrites(w) ==
  LET r == request[w] IN
  \E c \in r.read :
    /\ r.op = "address" /\ c \in Present /\ ~Held(c)
    /\ customer' = [customer EXCEPT ![c] =
         [here |-> TRUE, address |-> [customer[c].address EXCEPT ![r.part] = r.value],
          geocoded |-> r.geocoded]]
    /\ crossed' = Marked(crossed, c, c \in r.stale)
    /\ request' = Outdated(w, c)
    /\ UNCHANGED <<vessel, job, disturbed, gone, budget>>

(* customers.delete: the database refuses while boats or jobs refer to it. *)
DeleteCustomer(c) ==
  /\ c \in Present /\ ~Held(c) /\ Event
  /\ \A v \in Vessels : vessel[v] # c
  /\ \A j \in Ordered : job[j].customer # c
  /\ customer' = [customer EXCEPT ![c] = [here |-> FALSE, address |-> Somewhere, geocoded |-> None]]
  /\ crossed' = crossed \ {c} /\ gone' = gone \union {c}
  /\ UNCHANGED <<vessel, job, request, disturbed>>

-----------------------------------------------------------------------------
(* The backfill. *)

(* backfill_customers reads the rows without coordinates, or all of them .. *)
BackfillReads(w, force) ==
  LET rows == {c \in Present : force \/ customer[c].geocoded = None} IN
  /\ IsIdle(w) /\ rows # {} /\ Event
  /\ Becomes(w, [op |-> "backfill", read |-> rows, stale |-> {}, todo |-> rows, held |-> {},
                 found |-> [c \in rows |-> customer[c].address]])
  /\ UNCHANGED <<customer, vessel, job, disturbed, crossed, gone>>

(* .. looks each address up and updates its row, or leaves it out .. *)
BackfillFinds(w, c) ==
  LET r == request[w] IN
  /\ r.op = "backfill" /\ c \in r.todo
  /\ \/ Becomes(w, [r EXCEPT !.todo = r.todo \ {c}])
     \/ /\ c \in Present /\ ~Held(c)
        /\ Becomes(w, [r EXCEPT !.todo = r.todo \ {c}, !.held = r.held \union {c}])
  /\ UNCHANGED <<customer, vessel, job, disturbed, crossed, gone, budget>>

(* .. and commits them together. *)
BackfillCommits(w) ==
  LET r == request[w] IN
  /\ r.op = "backfill" /\ r.todo = {}
  /\ customer' = [c \in Customers |->
       IF c \in r.held
         THEN [here |-> TRUE, address |-> customer[c].address, geocoded |-> r.found[c]]
         ELSE customer[c]]
  /\ crossed' = (crossed \ r.held) \union (r.held \intersect r.stale)
  /\ Becomes(w, Idle)
  /\ UNCHANGED <<vessel, job, disturbed, gone, budget>>

-----------------------------------------------------------------------------
(* Boats. *)

(* vessels.create, vessels.update: a boat changes hands whatever jobs it has. *)
VesselGoesTo(v, c) ==
  /\ c \in Present /\ v \notin gone /\ vessel[v] # c
  /\ IF v \in Afloat THEN Event ELSE UNCHANGED budget
  /\ vessel' = [vessel EXCEPT ![v] = c]
  /\ disturbed' = disturbed \union {j \in Ordered : job[j].vessel = v}
  /\ request' = Outdated(None, v)
  /\ UNCHANGED <<customer, job, crossed, gone>>

(* vessels.delete *)
DeleteVessel(v) ==
  /\ v \in Afloat /\ (\A j \in Ordered : job[j].vessel # v) /\ Event
  /\ vessel' = [vessel EXCEPT ![v] = None]
  /\ gone' = gone \union {v}
  /\ UNCHANGED <<customer, job, request, disturbed, crossed>>

-----------------------------------------------------------------------------
(* Work orders. *)

(* _require_vessel_belongs_to_customer *)
Belongs(v, c) == v \in {None} \union {boat \in Vessels : vessel[boat] = c}

(* jobs.create, its checks. *)
CreateLooks(w, c, v) ==
  /\ IsIdle(w) /\ c \in Present /\ Belongs(v, c) /\ Jobs # Ordered \union gone
  /\ Becomes(w, [op |-> "create", read |-> {v} \ {None}, stale |-> {},
                 customer |-> c, vessel |-> v])
  /\ UNCHANGED <<customer, vessel, job, disturbed, crossed, gone, budget>>

(* The INSERT; the foreign keys hold, or it fails. *)
CreateInserts(w, j) ==
  LET r == request[w] IN
  /\ r.op = "create" /\ j \notin Ordered \union gone
  /\ r.customer \in Present /\ r.vessel \in Afloat \union {None}
  /\ job' = [job EXCEPT ![j] = [here |-> TRUE, customer |-> r.customer, vessel |-> r.vessel]]
  /\ disturbed' = Marked(disturbed, j, r.stale # {})
  /\ Becomes(w, Idle)
  /\ UNCHANGED <<customer, vessel, crossed, gone, budget>>

Or(new, old) == IF new = Keep THEN old ELSE new

(* Mutant: the pairing is looked at when the boat changes only. *)
PairingAskedOfBoat(c, v) == v # Keep

(* jobs.update: "either side may be the thing being changed". *)
PairingAsked(c, v) == c # Keep \/ v # Keep

(* jobs.update, its checks against the row as it is now. *)
UpdateLooks(w, j, c, v) ==
  LET boat == Or(v, job[j].vessel) IN
  /\ IsIdle(w) /\ j \in Ordered /\ Event
  /\ {c, v} # {Keep} /\ c \in Present \union {Keep} /\ v \in Afloat \union {None, Keep}
  /\ PairingAsked(c, v) => Belongs(boat, Or(c, job[j].customer))
  /\ Becomes(w, [op |-> "update", read |-> {j} \union ({boat} \ {None}), stale |-> {},
                 job |-> j, customer |-> c, vessel |-> v])
  /\ UNCHANGED <<customer, vessel, job, disturbed, crossed, gone>>

(* The UPDATE writes the columns of the PATCH only. *)
UpdateWrites(w) ==
  LET r == request[w]  j == r.job IN
  /\ r.op = "update" /\ j \in Ordered
  /\ r.customer \in Present \union {Keep} /\ r.vessel \in Afloat \union {None, Keep}
  /\ job' = [job EXCEPT ![j] = [here |-> TRUE, customer |-> Or(r.customer, job[j].customer),
                                vessel |-> Or(r.vessel, job[j].vessel)]]
  /\ disturbed' = Marked(disturbed, j, r.stale # {})
  /\ request' = Outdated(w, j)
  /\ UNCHANGED <<customer, vessel, crossed, gone, budget>>

(* jobs.delete *)
DeleteJob(j) ==
  /\ j \in Ordered /\ Event
  /\ job' = [job EXCEPT ![j] = NoJob]
  /\ disturbed' = disturbed \ {j} /\ gone' = gone \union {j}
  /\ UNCHANGED <<customer, vessel, request, crossed>>

(* A foreign key that does not hold any more, or a row that is gone. *)
RequestFails(w) ==
  LET r == request[w] IN
  /\ \/ r.op = "address" /\ ~(r.read \subseteq Present)
     \/ r.op = "create" /\ (Jobs = Ordered \union gone \/ r.customer \notin Present
                             \/ r.vessel \notin Afloat \union {None})
     \/ r.op = "update" /\ (r.job \notin Ordered \/ r.customer \notin Present \union {Keep}
                             \/ r.vessel \notin Afloat \union {None, Keep})
  /\ Becomes(w, Idle)
  /\ UNCHANGED <<customer, vessel, job, disturbed, crossed, gone, budget>>

WorkerDies(w) ==
  /\ ~IsIdle(w) /\ Event
  /\ Becomes(w, Idle)
  /\ UNCHANGED <<customer, vessel, job, disturbed, crossed, gone>>

-----------------------------------------------------------------------------
Next ==
  \/ \E c \in Customers :
       \/ DeleteCustomer(c) \/ \E address \in Address : CreateCustomer(c, address)
       \/ \E v \in Vessels : VesselGoesTo(v, c)
  \/ \E v \in Vessels : DeleteVessel(v)
  \/ \E j \in Jobs : DeleteJob(j)
  \/ \E w \in Workers :
       \/ \E c \in Customers, part \in Part, value \in 1 .. 2 : AddressLooks(w, c, part, value)
       \/ \E c \in Customers, v \in Vessels \union {None} : CreateLooks(w, c, v)
       \/ \E j \in Jobs :
            \/ CreateInserts(w, j)
            \/ \E c \in Customers \union {Keep}, v \in Vessels \union {None, Keep} :
                 UpdateLooks(w, j, c, v)
       \/ \E force \in BOOLEAN : BackfillReads(w, force)
       \/ \E c \in Customers : BackfillFinds(w, c)
       \/ BackfillCommits(w) \/ AddressWrites(w) \/ UpdateWrites(w)
       \/ RequestFails(w) \/ WorkerDies(w)

Spec == Init /\ [][Next]_vars

-----------------------------------------------------------------------------
(* Types of the tables; "the database refuses to orphan service history":    *)
(* what a row refers to exists.  customers.delete, vessels.delete. *)
TypeOK ==
  /\ customer \in [Customers -> Customer]
  /\ vessel \in [Vessels -> Customers \union {None}]
  /\ job \in [Jobs -> Job]
  /\ disturbed \subseteq Jobs /\ crossed \subseteq Customers
  /\ gone \intersect (Present \union Afloat \union Ordered) = {}
  /\ \A v \in Afloat : vessel[v] \in Present
  /\ \A j \in Ordered : job[j].customer \in Present /\ job[j].vessel \in Afloat \union {None}
  /\ budget \in Nat

(* "A job's vessel must be one of that job's customer's boats", whichever    *)
(* side an edit changes, unless the boat changed hands or another edit of    *)
(* the job came between an edit's checks and its write.  jobs.py. *)
BoatOfCustomer ==
  \A j \in Ordered \ disturbed : Belongs(job[j].vessel, job[j].customer)

(* A customer's coordinates are those of the whole address, although an edit *)
(* looks only a part of it over and the backfill writes what it read long    *)
(* before, unless the address changed under one of them.  customers.update. *)
CoordinatesOfAddress ==
  \A c \in Customers \ crossed : customer[c].geocoded \in {customer[c].address, None}

(* The rows exist that others refer to, and coordinates are of the address    *)
(* beside them: customers.py, vessels.py, jobs.py. *)
YardConsistent ==
  /\ TypeOK
  /\ CoordinatesOfAddress
=============================================================================
