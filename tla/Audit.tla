-------------------------------- MODULE Audit --------------------------------
(***************************************************************************)
(* The archive of denied requests (src/persistence/audit_store.py and its  *)
(* twin in postgres.py): src/runtime/security.py records a denial, every   *)
(* start of a process deletes what is older than the retention, and an     *)
(* administrator reads a tenant's events of a period page by page (GET     *)
(* /api/security/audit-events), each page in a request of its own.  An     *)
(* event has its time when it is made; until it is inserted the statement  *)
(* may wait for other processes, for which its own process stands still.   *)
(*                                                                         *)
(* Who was denied what and why is left out, and so is a request denied for *)
(* its role: its event names no customer, and no listing has it.           *)
(***************************************************************************)
EXTENDS Integers, FiniteSets

CONSTANTS
  Recorders,  \* processes that deny requests
  Tenants,
  EventIds,   \* event_id, for its order
  Periods,    \* periods <<start, end>> an administrator may ask for
  PageLimit,  \* limit
  Retention   \* security_audit_retention_days

ASSUME AuditAssumption ==
  /\ EventIds \subseteq Nat
  /\ Periods \subseteq Int \X Int
  /\ \A period \in Periods : period[1] < period[2]
  /\ PageLimit \in Nat \ {0}
  /\ Retention \in Nat \ {0}

VARIABLES
  trail,   \* security_audit_events
  denial,  \* the event each process is storing, if any
  listing  \* what an administrator has read of each tenant's events

auditVars == <<trail, denial, listing>>

Event == [id : EventIds, at : Int, tenant : Tenants]

Listing == [phase  : {"none", "open", "done"},
            period : Int \X Int,
            cursor : Nat,
            listed : SUBSET Event,
            again  : BOOLEAN,       \* history: a page repeated an event
            known  : SUBSET Event,  \* history: the events at the start
            ahead  : BOOLEAN]       \* history: one came ahead of one read

NoListing == [phase |-> "none", period |-> <<0, 0>>, cursor |-> 0,
              listed |-> {}, again |-> FALSE, known |-> {}, ahead |-> FALSE]

AuditInit ==
  /\ trail = {}
  /\ denial = [r \in Recorders |-> {}]
  /\ listing = [t \in Tenants |-> NoListing]

\* Variant: ORDER BY occurred_at ASC.
ListedBeforeAscending(e, f) ==
  e.at < f.at \/ (e.at = f.at /\ e.id < f.id)

\* ORDER BY occurred_at DESC, event_id ASC.
ListedBefore(e, f) ==
  e.at > f.at \/ (e.at = f.at /\ e.id < f.id)

(***************************************************************************)
(* _audit_denial, record, purge_before                                     *)
(***************************************************************************)

\* A request is denied: its event gets a new id and the present time.
Deny(r, t, now) ==
  /\ denial[r] = {}
  /\ \E id \in EventIds :
       /\ \A e \in trail \cup UNION {denial[s] : s \in Recorders} : e.id # id
       /\ denial' = [denial EXCEPT ![r] =
                       {[id |-> id, at |-> now, tenant |-> t]}]
  /\ UNCHANGED <<trail, listing>>

\* The event will be listed before one that the listing l has read.
ComesAhead(e, l) ==
  /\ l.phase = "open"
  /\ l.period[1] <= e.at /\ e.at < l.period[2]
  /\ \E f \in l.listed : ListedBefore(e, f)

\* The insert is committed.
Record(r) ==
  /\ denial[r] # {}
  /\ trail' = trail \cup denial[r]
  /\ denial' = [denial EXCEPT ![r] = {}]
  /\ listing' = [t \in Tenants |->
       [listing[t] EXCEPT !.ahead =
          @ \/ \E e \in denial[r] : e.tenant = t /\ ComesAhead(e, listing[t])]]

\* The event cannot be stored, and the request is denied all the same; or
\* its process dies.
Abandon(r) ==
  /\ denial' = [denial EXCEPT ![r] = {}]
  /\ UNCHANGED <<trail, listing>>

Purge(now) ==
  /\ trail' = {e \in trail : e.at >= now - Retention}
  /\ UNCHANGED <<denial, listing>>

(***************************************************************************)
(* list_for_period, page by page                                           *)
(***************************************************************************)

Rows(t, period) ==
  {e \in trail : e.tenant = t /\ period[1] <= e.at /\ e.at < period[2]}

\* LIMIT PageLimit OFFSET cursor.
Page(rows, cursor) ==
  {e \in rows : Cardinality({f \in rows : ListedBefore(f, e)})
                  \in cursor..(cursor + PageLimit - 1)}

\* Bound: one listing of a tenant's events in a behaviour, of a period that
\* has any.
OpenListing(t) ==
  /\ listing[t].phase = "none"
  /\ \E period \in Periods :
       /\ Rows(t, period) # {}
       /\ listing' =
            [listing EXCEPT ![t] =
               [NoListing EXCEPT !.phase = "open", !.period = period,
                                 !.known = Rows(t, period)]]
  /\ UNCHANGED <<trail, denial>>

\* A full page names the next cursor, one that is not is the last.
ReadPage(t) ==
  LET l == listing[t]
      page == Page(Rows(t, l.period), l.cursor)
      read == [l EXCEPT !.listed = @ \cup page,
                        !.again = @ \/ page \cap l.listed # {}] IN
  /\ l.phase = "open"
  /\ listing' = [listing EXCEPT ![t] =
                   IF Cardinality(page) = PageLimit
                   THEN [read EXCEPT !.cursor = @ + PageLimit]
                   ELSE [read EXCEPT !.phase = "done"]]
  /\ UNCHANGED <<trail, denial>>

(***************************************************************************)
(* Properties                                                              *)
(***************************************************************************)

\* The archive, the events on their way to it, and the listings.
AuditTypeOK ==
  /\ trail \subseteq Event
  /\ denial \in [Recorders -> SUBSET Event]
  /\ listing \in [Tenants -> Listing]

\* Although each page is a query of its own, and denials are recorded, late
\* ones too, and old events deleted between two of them: whoever has read all
\* pages has read every event that was there at the start and is still there,
\* and has read one twice only if a denial was recorded meanwhile that comes
\* before what had been read.
TrailIsListed ==
  \A t \in Tenants : listing[t].phase = "done" =>
    /\ listing[t].known \cap trail \subseteq listing[t].listed
    /\ listing[t].again => listing[t].ahead
=============================================================================
