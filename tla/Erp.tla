--------------------------------- MODULE Erp ---------------------------------
(***************************************************************************)
(* Loading a customer's batches from a paged ERP                           *)
(* (src/repository/erp.py): PagedERPRepository follows the links of a SAP  *)
(* Service Layer query page by page, retries a page that fails for a       *)
(* passing reason, and refuses a link it has followed before and a list    *)
(* that names a batch twice.                                               *)
(*                                                                         *)
(* The ERP itself is external.  A link is the number of rows the pages     *)
(* before it hold; goods leave and arrive between two pages, and a faulty  *)
(* server hands out a wrong link.  A batch stands for the row that         *)
(* describes it.                                                           *)
(***************************************************************************)
EXTENDS Integers, Sequences, SequencesExt

CONSTANTS
  Batches,     \* batches the ERP may hold
  DaysLeft,    \* days until a batch expires, negative once it has
  Stocked,     \* the rows at the start, in the query's order
  Jobs,        \* callers of load_batches
  PageSize,    \* odata.maxpagesize
  MaxRetries,  \* max_retries
  MaxMoves     \* bound: goods movements and wrong links in a behaviour

ASSUME ErpAssumption ==
  /\ DaysLeft \in [Batches -> Int]
  /\ Stocked \in Seq(Batches) /\ IsInjective(Stocked)
  /\ PageSize \in Nat \ {0}
  /\ MaxRetries \in Nat
  /\ MaxMoves \in Nat

VARIABLES
  rows,   \* the ERP's rows
  moves,  \* goods movements and wrong links so far
  load    \* the load_batches call of each job

erpVars == <<rows, moves, load>>

\* No page follows, and no link was followed yet.
None == 0

Links == 1..(Len(Stocked) + MaxMoves)

Load == [phase   : {"idle", "fetching", "loaded", "failed"},
         cursor  : Links \cup {None},
         seen    : SUBSET Links,        \* seen_cursors
         attempt : 0..MaxRetries,       \* tries of this page that failed
         batches : Seq(Batches),
         listed  : Seq(Batches),        \* history: the rows at the start
         steady  : BOOLEAN]             \* history: the ERP stood still since

NoLoad == [phase |-> "idle", cursor |-> None, seen |-> {}, attempt |-> 0,
           batches |-> <<>>, listed |-> <<>>, steady |-> FALSE]

NewLoad == [phase |-> "fetching", cursor |-> None, seen |-> {}, attempt |-> 0,
            batches |-> <<>>, listed |-> rows, steady |-> TRUE]

ErpInit ==
  /\ rows = Stocked
  /\ moves = 0
  /\ load = [j \in Jobs |-> NoLoad]

(***************************************************************************)
(* The ERP                                                                 *)
(***************************************************************************)

\* A load that has begun is no longer of an ERP that stands still.
Disturbed == [j \in Jobs |-> IF load[j].phase = "fetching"
                             THEN [load[j] EXCEPT !.steady = FALSE] ELSE load[j]]

GoodsLeave(i) ==
  /\ moves < MaxMoves
  /\ rows' = RemoveAt(rows, i)
  /\ moves' = moves + 1
  /\ load' = Disturbed

GoodsArrive(b, i) ==
  /\ moves < MaxMoves
  /\ b \notin ToSet(rows)
  /\ rows' = InsertAt(rows, i, b)
  /\ moves' = moves + 1
  /\ load' = Disturbed

\* The rows of a page and the link that follows it.
PageEnd(cursor) == IF cursor + PageSize < Len(rows) THEN cursor + PageSize
                   ELSE Len(rows)

PageRows(cursor) == SubSeq(rows, cursor + 1, PageEnd(cursor))

NextLink(cursor) ==
  IF cursor + PageSize < Len(rows) THEN cursor + PageSize ELSE None

(***************************************************************************)
(* load_batches                                                            *)
(***************************************************************************)

\* Variant: the page replaces the ones before it.
LastPageOnly(old, page) == page

Extended(old, page) == old \o page

\* After the last page: the list must not name a batch twice.
Finish(l) == [l EXCEPT !.phase = IF IsInjective(l.batches) THEN "loaded"
                                 ELSE "failed"]

\* A page arrived with the link next.
TakePage(l, page, next) ==
  LET more == [l EXCEPT !.batches = Extended(@, page)] IN
  IF next = None THEN Finish(more)
  ELSE IF next \in l.seen THEN [more EXCEPT !.phase = "failed"]
  ELSE [more EXCEPT !.seen = @ \cup {next}, !.cursor = next, !.attempt = 0]

FetchPage(j) ==
  /\ load[j].phase = "fetching"
  /\ load' = [load EXCEPT ![j] = TakePage(@, PageRows(@.cursor),
                                          NextLink(@.cursor))]
  /\ UNCHANGED <<rows, moves>>

\* The page is right and its link is not.
FetchWrongLink(j, next) ==
  /\ load[j].phase = "fetching"
  /\ moves < MaxMoves
  /\ next # NextLink(load[j].cursor)
  /\ moves' = moves + 1
  /\ load' = [load EXCEPT ![j] =
                [TakePage(@, PageRows(@.cursor), next) EXCEPT !.steady = FALSE]]
  /\ UNCHANGED rows

\* Variant: when the tries are used up they are counted anew.
RetryForEver(l) ==
  [l EXCEPT !.attempt = IF @ = MaxRetries THEN 0 ELSE @ + 1]

Retry(l) == IF l.attempt = MaxRetries THEN [l EXCEPT !.phase = "failed"]
            ELSE [l EXCEPT !.attempt = @ + 1]

\* A transport error, HTTP 429 or a server error.
FetchRecoverable(j) ==
  /\ load[j].phase = "fetching"
  /\ load' = [load EXCEPT ![j] = Retry(@)]
  /\ UNCHANGED <<rows, moves>>

\* Another HTTP error, or a body that is no page of batches.
FetchPermanent(j) ==
  /\ load[j].phase = "fetching"
  /\ load' = [load EXCEPT ![j].phase = "failed"]
  /\ UNCHANGED <<rows, moves>>

\* The answer to one request, whichever it is.
Fetch(j) ==
  \/ FetchPage(j)
  \/ \E next \in Links \cup {None} : FetchWrongLink(j, next)
  \/ FetchRecoverable(j)
  \/ FetchPermanent(j)

ErpNext ==
  \/ \E i \in 1..Len(rows) : GoodsLeave(i)
  \/ \E b \in Batches, i \in 1..(Len(rows) + 1) : GoodsArrive(b, i)
  \/ \E j \in Jobs : Fetch(j)

(***************************************************************************)
(* Properties                                                              *)
(***************************************************************************)

\* The call of each job, its cursor among the links the ERP may hand out.
ErpTypeOK ==
  /\ rows \in Seq(Batches)
  /\ moves \in 0..MaxMoves
  /\ load \in [Jobs -> Load]

\* While the ERP stands still, a load that ends well returns every row once
\* and in order, however many pages it took and however often one failed.
LoadIsWhole ==
  \A j \in Jobs : load[j].phase = "loaded" /\ load[j].steady =>
    load[j].batches = load[j].listed
=============================================================================
