--------------------------- MODULE PipelineProofs ---------------------------
(***************************************************************************)
(* Theorems about Pipeline for any ERP, batches, page size, thresholds,    *)
(* concurrency, attempts, actions and capacities: a load of an ERP that    *)
(* stands still is whole, a scan that ends forgot no batch and repeats no  *)
(* card a retry did not have to, and a plan respects its capacities, lets  *)
(* no batch be overtaken and covers the stock.                             *)
(***************************************************************************)
EXTENDS Pipeline, FiniteSetTheorems, SequenceTheorems, LeastNumbers

(***************************************************************************)
(* Loads                                                                   *)
(***************************************************************************)

\* A load that has ended names no batch twice; while the ERP has stood still
\* since it began, it holds the rows before its cursor.
LoadOK(l) ==
  /\ l.phase = "loaded" => IsInjective(l.batches)
  /\ l.phase = "loaded" /\ l.steady => l.batches = l.listed
  /\ l.phase = "fetching" /\ l.steady =>
       /\ l.listed = rows
       /\ l.cursor <= Len(rows)
       /\ l.batches = SubSeq(rows, 1, l.cursor)

ErpInv ==
  /\ ErpTypeOK
  /\ Len(rows) <= Len(Stocked) + moves
  /\ \A j \in Jobs : LoadOK(load[j])

\* The links a load may meet are numbers, none of them "none".
LEMMA LinksAreNat ==
  /\ Len(Stocked) \in Nat
  /\ Links \subseteq Nat \ {0}
  /\ None = 0 /\ None \in Nat
  /\ MaxRetries \in Nat /\ MaxMoves \in Nat /\ PageSize \in Nat \ {0}
  BY ErpAssumption, LenProperties DEF Links, None

LEMMA LoadFields ==
  ASSUME NEW l \in Load
  PROVE  /\ l.cursor \in Nat
         /\ l.attempt \in 0..MaxRetries
         /\ l.batches \in Seq(Batches) /\ l.listed \in Seq(Batches)
  <1>1. l.cursor \in Links \cup {None}
    BY DEF Load
  <1>2. l.cursor \in Nat
    BY <1>1, LinksAreNat, Zenon
  <1>3. l.attempt \in 0..MaxRetries
    BY DEF Load
  <1>4. l.batches \in Seq(Batches)
    BY DEF Load
  <1>5. l.listed \in Seq(Batches)
    BY DEF Load
  <1>6. QED
    BY <1>2, <1>3, <1>4, <1>5

LEMMA NoLoadType == NoLoad \in Load /\ LoadOK(NoLoad)
  <1>1. <<>> \in Seq(Batches) /\ None \in Links \cup {None}
    BY EmptySeq
  <1>2. {} \in SUBSET Links /\ 0 \in 0..MaxRetries
    BY LinksAreNat
  <1>3. QED
    BY <1>1, <1>2 DEF NoLoad, Load, LoadOK

\* A new load holds the empty prefix of the rows.
LEMMA NewLoadType ==
  ASSUME rows \in Seq(Batches)
  PROVE  NewLoad \in Load /\ LoadOK(NewLoad)
  <1>2. SubSeq(rows, 1, None) = <<>>
    BY SubSeqEmpty DEF None
  <1>3. None <= Len(rows)
    BY LenProperties DEF None
  <1>4. NewLoad \in Load
    <2>1. <<>> \in Seq(Batches) /\ None \in Links \cup {None}
      BY EmptySeq
    <2>2. {} \in SUBSET Links /\ 0 \in 0..MaxRetries
      BY LinksAreNat
    <2>3. QED
      BY <2>1, <2>2 DEF NewLoad, Load
  <1>5. LoadOK(NewLoad)
    BY <1>2, <1>3 DEF NewLoad, LoadOK
  <1>6. QED
    BY <1>4, <1>5

LEMMA ErpInvInit == ErpInit => ErpInv
  <1> SUFFICES ASSUME ErpInit
               PROVE  ErpInv
    OBVIOUS
  <1>1. ErpTypeOK
    BY NoLoadType, LinksAreNat, ErpAssumption DEF ErpInit, ErpTypeOK
  <1>2. \A j \in Jobs : LoadOK(load[j])
    BY NoLoadType DEF ErpInit
  <1>3. Len(rows) <= Len(Stocked) + moves
    BY LinksAreNat DEF ErpInit
  <1>4. QED
    BY <1>1, <1>2, <1>3 DEF ErpInv

\* The rows of a page are rows of the ERP, and on a right page they follow
\* the ones before the cursor.
LEMMA PageIsRows ==
  ASSUME rows \in Seq(Batches), NEW c \in Nat
  PROVE  /\ PageRows(c) \in Seq(Batches)
         /\ PageEnd(c) \in Nat
         /\ c <= Len(rows) => SubSeq(rows, 1, c) \o PageRows(c)
                                = SubSeq(rows, 1, PageEnd(c))
  <1>1. PageEnd(c) \in Nat /\ PageEnd(c) <= Len(rows)
    BY LenProperties, LinksAreNat DEF PageEnd
  <1>2. PageRows(c) \in Seq(Batches)
    <2>1. \A i \in (c + 1)..PageEnd(c) : rows[i] \in Batches
      BY <1>1, LenProperties
    <2>2. QED
      BY <1>1, <2>1, SubSeqProperties DEF PageRows
  <1>3. ASSUME c <= Len(rows)
        PROVE  SubSeq(rows, 1, c) \o PageRows(c) = SubSeq(rows, 1, PageEnd(c))
    <2>1. c <= PageEnd(c)
      BY <1>3, LenProperties, LinksAreNat DEF PageEnd
    <2>2. SubSeq(rows, 1, c) \o SubSeq(rows, c + 1, PageEnd(c))
            = SubSeq(rows, 1, PageEnd(c))
      <3>1. /\ 1 \in 1..(Len(rows) + 1)
            /\ c \in (1 - 1)..Len(rows)
            /\ PageEnd(c) \in c..Len(rows)
        BY <1>1, <1>3, <2>1, LenProperties
      <3>2. QED
        BY <3>1, ConcatAdjacentSubSeq
    <2>3. QED
      BY <2>2 DEF PageRows
  <1>4. QED
    BY <1>1, <1>2, <1>3

\* What taking a page makes of a load.
LEMMA TakePageShape ==
  ASSUME NEW l \in Load, l.phase = "fetching",
         NEW page \in Seq(Batches), NEW next \in Links \cup {None}
  PROVE  LET m == TakePage(l, page, next) IN
         /\ m \in Load
         /\ m.batches = l.batches \o page
         /\ m.listed = l.listed /\ m.steady = l.steady
         /\ m.phase \in {"fetching", "loaded", "failed"}
         /\ m.phase = "loaded" => next = None /\ IsInjective(m.batches)
         /\ m.phase = "fetching" => next # None /\ m.cursor = next
  <1> DEFINE more == [l EXCEPT !.batches = Extended(@, page)]
  <1>1. /\ more \in Load
        /\ more.batches = l.batches \o page
        /\ more.listed = l.listed /\ more.steady = l.steady
        /\ more.phase = "fetching"
    <2>1. l.batches \o page \in Seq(Batches)
      BY ConcatProperties DEF Load
    <2>2. QED
      BY <2>1 DEF Load, Extended
  <1> HIDE DEF more
  <1>2. CASE next = None
    <2>1. TakePage(l, page, next) = Finish(more)
      BY <1>2 DEF TakePage, more
    <2>2. QED
      BY <1>1, <1>2, <2>1 DEF Finish, Load
  <1>3. CASE next # None /\ next \in l.seen
    <2>1. TakePage(l, page, next) = [more EXCEPT !.phase = "failed"]
      BY <1>3 DEF TakePage, more
    <2>2. QED
      BY <1>1, <2>1 DEF Load
  <1>4. CASE next # None /\ next \notin l.seen
    <2> DEFINE r == [phase |-> more.phase, cursor |-> next,
                     seen |-> more.seen \cup {next}, attempt |-> 0,
                     batches |-> more.batches, listed |-> more.listed,
                     steady |-> more.steady]
    <2>1. TakePage(l, page, next) = r
      BY <1>1, <1>4 DEF TakePage, more, Load
    <2>2. next \in Links /\ 0 \in 0..MaxRetries
      BY <1>4, LinksAreNat
    <2>3. r \in Load
      BY <1>1, <2>2 DEF Load
    <2>4. /\ r.batches = more.batches /\ r.listed = more.listed
          /\ r.steady = more.steady /\ r.phase = "fetching" /\ r.cursor = next
      BY <1>1
    <2> HIDE DEF r
    <2>5. QED
      BY <1>1, <1>4, <2>1, <2>3, <2>4
  <1>5. QED
    BY <1>2, <1>3, <1>4

\* One job's load is replaced by a sound one; the rows stay.
LEMMA LoadReplaced ==
  ASSUME ErpInv, NEW j \in Jobs, NEW l \in Load, LoadOK(l),
         load' = [load EXCEPT ![j] = l],
         rows' = rows, moves' \in moves..MaxMoves
  PROVE  ErpInv'
  <1>1. /\ rows \in Seq(Batches) /\ moves \in 0..MaxMoves
        /\ load \in [Jobs -> Load]
        /\ Len(rows) <= Len(Stocked) + moves
        /\ \A k \in Jobs : LoadOK(load[k])
    BY DEF ErpInv, ErpTypeOK
  <1>2. load' \in [Jobs -> Load] /\ moves' \in 0..MaxMoves
    BY <1>1
  <1>3. \A k \in Jobs : load'[k] = IF k = j THEN l ELSE load[k]
    BY <1>1
  <1>4. \A k \in Jobs : LoadOK(load[k])'
    BY <1>1, <1>3 DEF LoadOK
  <1>5. Len(rows') <= Len(Stocked) + moves'
    BY <1>1, <1>2, LenProperties, LinksAreNat
  <1>6. QED
    BY <1>1, <1>2, <1>4, <1>5 DEF ErpInv, ErpTypeOK

\* The page the cursor stands on, with the right link: the batches go on
\* being the rows before the cursor.
LEMMA ErpInvFetchPage ==
  ASSUME ErpInv, NEW j \in Jobs, FetchPage(j)
  PROVE  ErpInv'
  <1> DEFINE l == load[j]
             c == load[j].cursor
             m == TakePage(l, PageRows(c), NextLink(c))
  <1>1. /\ rows \in Seq(Batches) /\ moves \in 0..MaxMoves
        /\ load \in [Jobs -> Load] /\ l \in Load /\ LoadOK(l)
        /\ Len(rows) <= Len(Stocked) + moves
        /\ Len(rows) \in Nat
        /\ l.phase = "fetching"
    BY LenProperties DEF ErpInv, ErpTypeOK, FetchPage
  <1>2. c \in Nat
    BY <1>1, LoadFields
  <1>3. NextLink(c) \in Links \cup {None}
    BY <1>1, <1>2, LinksAreNat DEF NextLink, Links, None
  <1>4. /\ PageRows(c) \in Seq(Batches) /\ PageEnd(c) \in Nat
        /\ c <= Len(rows) => SubSeq(rows, 1, c) \o PageRows(c)
                               = SubSeq(rows, 1, PageEnd(c))
    BY <1>1, <1>2, PageIsRows
  <1>5. /\ m \in Load
        /\ m.batches = l.batches \o PageRows(c)
        /\ m.listed = l.listed /\ m.steady = l.steady
        /\ m.phase = "loaded" => NextLink(c) = None /\ IsInjective(m.batches)
        /\ m.phase = "fetching" => NextLink(c) # None /\ m.cursor = NextLink(c)
    BY <1>1, <1>3, <1>4, TakePageShape
  <1>6. NextLink(c) = None => PageEnd(c) = Len(rows)
    BY <1>1, <1>2, LinksAreNat DEF NextLink, PageEnd, None
  <1>7. NextLink(c) # None => NextLink(c) = PageEnd(c) /\ PageEnd(c) <= Len(rows)
    BY <1>1, <1>2, LinksAreNat DEF NextLink, PageEnd, None
  <1> HIDE DEF m
  <1>8. ASSUME l.steady
        PROVE  /\ l.listed = rows
               /\ m.batches = SubSeq(rows, 1, PageEnd(c))
    BY <1>1, <1>4, <1>5, <1>8 DEF LoadOK
  <1>9. SubSeq(rows, 1, Len(rows)) = rows
    BY <1>1, SubSeqFull
  <1>10. LoadOK(m)
    BY <1>5, <1>6, <1>7, <1>8, <1>9 DEF LoadOK
  <1>11. /\ load' = [load EXCEPT ![j] = m]
         /\ rows' = rows /\ moves' \in moves..MaxMoves
    BY <1>1, LinksAreNat DEF FetchPage, m
  <1>12. QED
    BY <1>5, <1>10, <1>11, LoadReplaced, Zenon

LEMMA ErpInvFetchWrongLink ==
  ASSUME ErpInv, NEW j \in Jobs, NEW next \in Links \cup {None},
         FetchWrongLink(j, next)
  PROVE  ErpInv'
  <1> DEFINE l == load[j]
             m == TakePage(l, PageRows(l.cursor), next)
             n == [m EXCEPT !.steady = FALSE]
  <1>1. /\ rows \in Seq(Batches) /\ moves \in 0..MaxMoves
        /\ load \in [Jobs -> Load] /\ l \in Load
        /\ l.phase = "fetching"
    BY DEF ErpInv, ErpTypeOK, FetchWrongLink
  <1>2. PageRows(l.cursor) \in Seq(Batches)
    BY <1>1, LoadFields, PageIsRows
  <1>3. /\ m \in Load
        /\ m.phase = "loaded" => IsInjective(m.batches)
    BY <1>1, <1>2, TakePageShape
  <1> HIDE DEF m
  <1>4. n \in Load /\ LoadOK(n)
    BY <1>3 DEF Load, LoadOK
  <1>5. /\ load' = [load EXCEPT ![j] = n]
        /\ rows' = rows /\ moves' \in moves..MaxMoves
    BY <1>1, LinksAreNat DEF FetchWrongLink, m
  <1> HIDE DEF n
  <1>6. QED
    BY <1>4, <1>5, LoadReplaced, Zenon

LEMMA ErpInvFetchFails ==
  ASSUME ErpInv, NEW j \in Jobs, FetchRecoverable(j) \/ FetchPermanent(j)
  PROVE  ErpInv'
  <1> DEFINE l == load[j]
             n == IF FetchRecoverable(j) THEN Retry(l)
                  ELSE [l EXCEPT !.phase = "failed"]
  <1>1. /\ moves \in 0..MaxMoves
        /\ load \in [Jobs -> Load] /\ l \in Load /\ LoadOK(l)
        /\ l.phase = "fetching"
    BY DEF ErpInv, ErpTypeOK, FetchRecoverable, FetchPermanent
  <1>2. l.attempt \in 0..MaxRetries
    BY <1>1, LoadFields
  <1>3. /\ [l EXCEPT !.phase = "failed"] \in Load
        /\ LoadOK([l EXCEPT !.phase = "failed"])
    BY <1>1 DEF Load, LoadOK
  <1>4. ASSUME l.attempt # MaxRetries
        PROVE  /\ [l EXCEPT !.attempt = @ + 1] \in Load
               /\ LoadOK([l EXCEPT !.attempt = @ + 1])
    <2>1. l.attempt + 1 \in 0..MaxRetries
      BY <1>2, <1>4, LinksAreNat
    <2> DEFINE a == l.attempt + 1
    <2> HIDE DEF a
    <2>2. [l EXCEPT !.attempt = a] \in Load
      BY <1>1, <2>1 DEF Load, a
    <2>3. LoadOK([l EXCEPT !.attempt = a])
      BY <1>1 DEF Load, LoadOK
    <2>4. QED
      BY <2>2, <2>3 DEF a
  <1>5. n \in Load /\ LoadOK(n)
    BY <1>3, <1>4 DEF Retry
  <1>6. /\ load' = [load EXCEPT ![j] = n]
        /\ rows' = rows /\ moves' \in moves..MaxMoves
    BY <1>1, LinksAreNat DEF FetchRecoverable, FetchPermanent
  <1> HIDE DEF n
  <1>7. QED
    BY <1>5, <1>6, LoadReplaced, Zenon

\* Goods that move make every load under way one of a moving ERP.
LEMMA ErpInvGoods ==
  ASSUME ErpInv, moves < MaxMoves, moves' = moves + 1,
         rows' \in Seq(Batches), Len(rows') <= Len(rows) + 1,
         load' = Disturbed
  PROVE  ErpInv'
  <1>1. /\ rows \in Seq(Batches) /\ moves \in 0..MaxMoves
        /\ load \in [Jobs -> Load]
        /\ Len(rows) <= Len(Stocked) + moves
        /\ \A k \in Jobs : LoadOK(load[k])
    BY DEF ErpInv, ErpTypeOK
  <1>2. Len(rows) \in Nat /\ Len(rows') \in Nat /\ Len(Stocked) \in Nat
    BY <1>1, LenProperties, LinksAreNat
  <1>3. \A k \in Jobs : load'[k] \in Load /\ LoadOK(load[k])'
    <2> SUFFICES ASSUME NEW k \in Jobs
                 PROVE  load'[k] \in Load /\ LoadOK(load[k])'
      OBVIOUS
    <2>1. CASE load[k].phase = "fetching"
      <3>1. load'[k] = [load[k] EXCEPT !.steady = FALSE]
        BY <2>1 DEF Disturbed
      <3>2. /\ load'[k] \in Load /\ load'[k].phase = "fetching"
            /\ ~load'[k].steady
        BY <1>1, <2>1, <3>1 DEF Load
      <3>3. QED
        BY <3>2 DEF LoadOK
    <2>2. CASE load[k].phase # "fetching"
      <3>1. load'[k] = load[k]
        BY <2>2 DEF Disturbed
      <3>2. QED
        BY <1>1, <2>2, <3>1 DEF LoadOK
    <2>3. QED
      BY <2>1, <2>2
  <1>4. load' \in [Jobs -> Load]
    BY <1>3 DEF Disturbed
  <1>5. Len(rows') <= Len(Stocked) + moves' /\ moves' \in 0..MaxMoves
    <2>1. moves \in Nat /\ moves + 1 <= MaxMoves /\ MaxMoves \in Nat
      BY <1>1, LinksAreNat
    <2>2. QED
      BY <1>1, <1>2, <2>1
  <1>6. QED
    BY <1>3, <1>4, <1>5 DEF ErpInv, ErpTypeOK

LEMMA ErpInvNext == ErpInv /\ ErpNext => ErpInv'
  <1> SUFFICES ASSUME ErpInv, ErpNext
               PROVE  ErpInv'
    OBVIOUS
  <1>1. rows \in Seq(Batches) /\ Len(rows) \in Nat
    BY LenProperties DEF ErpInv, ErpTypeOK
  <1>2. ASSUME NEW i \in 1..Len(rows), GoodsLeave(i)
        PROVE  ErpInv'
    <2> DEFINE before == SubSeq(rows, 1, i - 1)
               after == SubSeq(rows, i + 1, Len(rows))
    <2>1. /\ before \in Seq(Batches) /\ Len(before) = i - 1
          /\ after \in Seq(Batches) /\ Len(after) = Len(rows) - i
      <3>1. /\ \A k \in 1..(i - 1) : rows[k] \in Batches
            /\ \A k \in (i + 1)..Len(rows) : rows[k] \in Batches
        BY <1>1, LenProperties
      <3>2. QED
        BY <1>1, <3>1, SubSeqProperties
    <2> HIDE DEF before, after
    <2>2. before \o after \in Seq(Batches) /\ Len(before \o after) <= Len(rows) + 1
      BY <1>1, <2>1, ConcatProperties
    <2>3. rows' = before \o after
      BY <1>2 DEF GoodsLeave, RemoveAt, before, after
    <2>4. QED
      BY <1>2, <2>2, <2>3, ErpInvGoods DEF GoodsLeave
  <1>3. ASSUME NEW b \in Batches, NEW i \in 1..(Len(rows) + 1), GoodsArrive(b, i)
        PROVE  ErpInv'
    <2> DEFINE before == SubSeq(rows, 1, i - 1)
               after == SubSeq(rows, i, Len(rows))
    <2>1. /\ before \in Seq(Batches) /\ Len(before) = i - 1
          /\ after \in Seq(Batches) /\ Len(after) = Len(rows) - i + 1
          /\ <<b>> \in Seq(Batches) /\ Len(<<b>>) = 1
      <3>1. /\ \A k \in 1..(i - 1) : rows[k] \in Batches
            /\ \A k \in i..Len(rows) : rows[k] \in Batches
        BY <1>1, LenProperties
      <3>2. /\ before \in Seq(Batches) /\ Len(before) = i - 1
            /\ after \in Seq(Batches) /\ Len(after) = Len(rows) - i + 1
        BY <1>1, <3>1, SubSeqProperties
      <3>3. <<b>> \in Seq(Batches) /\ Len(<<b>>) = 1
        OBVIOUS
      <3>4. QED
        BY <3>2, <3>3
    <2> HIDE DEF before, after
    <2>2. /\ before \o <<b>> \in Seq(Batches) /\ Len(before \o <<b>>) = i
      BY <2>1, ConcatProperties
    <2>3. /\ (before \o <<b>>) \o after \in Seq(Batches)
          /\ Len((before \o <<b>>) \o after) <= Len(rows) + 1
      BY <1>1, <2>1, <2>2, ConcatProperties
    <2>4. rows' = (before \o <<b>>) \o after
      BY <1>3 DEF GoodsArrive, InsertAt, before, after
    <2>5. QED
      BY <1>3, <2>3, <2>4, ErpInvGoods DEF GoodsArrive
  <1>4. ASSUME NEW j \in Jobs, Fetch(j)
        PROVE  ErpInv'
    BY <1>4, ErpInvFetchPage, ErpInvFetchWrongLink, ErpInvFetchFails DEF Fetch
  <1>5. QED
    BY <1>2, <1>3, <1>4 DEF ErpNext

\* A job begins to load, or lets its load go.
LEMMA ErpInvJob ==
  ASSUME ErpInv, NEW j \in Jobs, UNCHANGED <<rows, moves>>,
         \/ load' = [load EXCEPT ![j] = NewLoad]
         \/ load' = [load EXCEPT ![j] = NoLoad]
         \/ load' = load
  PROVE  ErpInv'
  <1>1. /\ rows' = rows /\ rows \in Seq(Batches)
        /\ moves' = moves /\ moves' \in moves..MaxMoves
    BY LinksAreNat DEF ErpInv, ErpTypeOK
  <1>2. CASE load' = load
    BY <1>1, <1>2 DEF ErpInv, ErpTypeOK, LoadOK
  <1>3. CASE load' = [load EXCEPT ![j] = NewLoad]
    BY <1>1, <1>3, NewLoadType, LoadReplaced, Zenon
  <1>4. CASE load' = [load EXCEPT ![j] = NoLoad]
    BY <1>1, <1>4, NoLoadType, LoadReplaced, Zenon
  <1>5. QED
    BY <1>2, <1>3, <1>4

(***************************************************************************)
(* Scans                                                                   *)
(***************************************************************************)

Seen(s) == {s.alerts[i] : i \in 1..(s.next - 1)}

Passed(l, s) == {l.batches[i] : i \in 1..(s.next - 1)}

AlertSet(s) == {s.alerts[i] : i \in 1..Len(s.alerts)}

Working == {"asking", "saving", "pushing", "done"}

\* The alerts are the batches within a threshold, each of them once.
AlertsOK(s, l) ==
  /\ s.next \in Nat \ {0}
  /\ s.phase \in {"loading"} \cup Working =>
       \A i, k \in 1..Len(s.alerts) : s.alerts[i] = s.alerts[k] => i = k
  /\ s.phase = "loading" =>
       /\ s.next > 1 => l.phase = "loaded" /\ s.next <= Len(l.batches) + 1
       /\ AlertSet(s) = {b \in Passed(l, s) : Alerted(b)}
  /\ s.phase \in Working =>
       /\ l.phase = "loaded"
       /\ AlertSet(s) = {b \in ToSet(l.batches) : Alerted(b)}

\* Every alert that was let in waits for its answer or has one.
AnswersOK(s) ==
  /\ IsFiniteSet(s.waiting)
  /\ Cardinality(s.waiting) <= MaxConcurrency
  /\ s.phase = "loading" => s.asked = 0
  /\ s.phase = "asking" => s.next = 1
  /\ s.phase \in Working =>
       /\ s.asked <= Len(s.alerts)
       /\ \A i \in 1..s.asked :
            s.alerts[i] \in s.waiting \/ s.outcome[s.alerts[i]] # "none"
  /\ s.phase \in Working \ {"asking"} => AllAnswered(s)
  /\ s.phase \in {"saving", "pushing"} => s.next <= Len(s.alerts) + 1

\* The batch was not saved yet in this attempt.
Unsaved(s, b) ==
  \/ s.phase \in {"loading", "asking"}
  \/ s.phase = "saving" /\ b \notin Seen(s)

\* The batch was saved in this attempt and its card not pushed.
Unpushed(s, b) ==
  /\ s.outcome[b] = "suggestion"
  /\ \/ s.phase = "saving" /\ b \in Seen(s)
     \/ s.phase = "pushing" /\ b \in AlertSet(s) \ Seen(s)

\* The batch has had its turn to be pushed in this attempt.
Turned(s, b) ==
  s.phase = "done" \/ (s.phase = "pushing" /\ b \in Seen(s))

\* The batch's turn to be saved is over.
Dealt(s, b) ==
  \/ s.phase = "saving" /\ b \in Seen(s)
  \/ s.phase \in {"pushing", "done"} /\ b \in AlertSet(s)

\* What the attempts so far, and the present one up to now, have stored and
\* pushed of a batch.
BatchOK(s, n, c, b) ==
  /\ n \in Nat /\ c \in Nat
  /\ n <= s.tries
  /\ Unsaved(s, b) => n < s.tries
  /\ c <= n
  /\ Unpushed(s, b) => c < n
  /\ c <= s.cuts + 1
  /\ ~Turned(s, b) => c <= s.cuts
  /\ Dealt(s, b) => n > 0 \/ s.outcome[b] = "error"

AttemptOK(s, l) ==
  /\ s \in Attempt
  /\ s.cuts <= s.tries
  /\ s.phase \notin {"queued", "failed", "lost"} => s.cuts < s.tries
  /\ s.phase = "queued" => s.tries = 0
  /\ AlertsOK(s, l)
  /\ AnswersOK(s)

ScanOK(j) ==
  /\ AttemptOK(scan[j], load[j])
  /\ \A b \in Batches : BatchOK(scan[j], stored[j][b], cards[j][b], b)

Tallies ==
  /\ scan \in [Scanners -> Attempt]
  /\ stored \in [Scanners -> [Batches -> Nat]]
  /\ cards \in [Scanners -> [Batches -> Nat]]
  /\ deaths \in [Scanners -> 0..MaxDeaths]

ScanInv ==
  /\ Tallies
  /\ \A j \in Scanners : ScanOK(j)

LEMMA AttemptFields ==
  ASSUME NEW s \in Attempt
  PROVE  /\ s.phase \in {"queued", "loading", "asking", "saving", "pushing",
                         "done", "failed", "lost"}
         /\ s.tries \in Nat /\ s.cuts \in Nat
         /\ s.asked \in Nat /\ s.next \in Nat
         /\ s.alerts \in Seq(Batches) /\ Len(s.alerts) \in Nat
         /\ \A i \in 1..Len(s.alerts) : s.alerts[i] \in Batches
         /\ s.waiting \in SUBSET Batches
         /\ s.outcome \in [Batches -> Outcomes]
  <1>1. /\ s.tries \in Nat /\ s.cuts \in Nat
        /\ s.asked \in Nat /\ s.next \in Nat
        /\ s.waiting \in SUBSET Batches
        /\ s.outcome \in [Batches -> Outcomes]
        /\ s.phase \in {"queued", "loading", "asking", "saving", "pushing",
                        "done", "failed", "lost"}
    BY DEF Attempt
  <1>2. s.alerts \in Seq(Batches)
    BY DEF Attempt
  <1>3. Len(s.alerts) \in Nat /\ \A i \in 1..Len(s.alerts) : s.alerts[i] \in Batches
    BY <1>2, LenProperties
  <1>4. QED
    BY <1>1, <1>2, <1>3

\* An attempt made of well-typed parts.
LEMMA AttemptMade ==
  ASSUME NEW p \in {"queued", "loading", "asking", "saving", "pushing", "done",
                    "failed", "lost"},
         NEW n \in Nat, NEW a \in Seq(Batches), NEW k \in Nat,
         NEW w \in SUBSET Batches, NEW o \in [Batches -> Outcomes],
         NEW x \in Nat, NEW c \in Nat
  PROVE  [phase |-> p, tries |-> n, alerts |-> a, asked |-> k, waiting |-> w,
          outcome |-> o, next |-> x, cuts |-> c] \in Attempt
  BY DEF Attempt

(***************************************************************************)
(* What each step makes of an attempt s, whose load is l                   *)
(***************************************************************************)

\* The attempt fails; while it was pushing that counts as a cut.
LEMMA AttemptFails ==
  ASSUME NEW s, NEW l, NEW m, NEW t \in Attempt, AttemptOK(s, l),
         s.phase \notin {"queued", "failed", "lost"},
         t.phase \in {"failed", "lost"}, t.cuts \in {s.cuts, s.cuts + 1},
         t.tries = s.tries, t.next = s.next, t.waiting = s.waiting
  PROVE  AttemptOK(t, m)
  <1>1. /\ s \in Attempt /\ s.cuts < s.tries
        /\ s.next \in Nat \ {0}
        /\ IsFiniteSet(s.waiting) /\ Cardinality(s.waiting) <= MaxConcurrency
    BY DEF AttemptOK, AlertsOK, AnswersOK
  <1>2. t.cuts \in Nat /\ t.cuts <= s.tries
    BY <1>1, AttemptFields
  <1>3. AlertsOK(t, m)
    BY <1>1 DEF AlertsOK, Working
  <1>4. AnswersOK(t)
    BY <1>1 DEF AnswersOK, Working
  <1>5. QED
    BY <1>2, <1>3, <1>4 DEF AttemptOK

\* The load goes on while the attempt waits for it, and stays once ended.
LEMMA LoadGoesOn ==
  ASSUME NEW s, NEW l, NEW m, AttemptOK(s, l), l.phase # "loaded" \/ m = l
  PROVE  AttemptOK(s, m)
  <1>1. CASE m = l
    BY <1>1
  <1>2. CASE l.phase # "loaded"
    <2>1. s \in Attempt /\ s.next \in Nat \ {0}
      BY DEF AttemptOK, AlertsOK
    <2>2. s.phase \notin Working
      BY <1>2 DEF AttemptOK, AlertsOK
    <2>3. CASE s.phase = "loading"
      <3>1. s.next = 1
        BY <1>2, <2>1, <2>3 DEF AttemptOK, AlertsOK
      <3>2. Passed(l, s) = {} /\ Passed(m, s) = {}
        BY <3>1 DEF Passed
      <3>3. AlertSet(s) = {b \in Passed(m, s) : Alerted(b)}
        BY <2>3, <3>2 DEF AttemptOK, AlertsOK
      <3>4. AlertsOK(s, m)
        BY <2>1, <2>2, <2>3, <3>1, <3>3 DEF AttemptOK, AlertsOK
      <3>5. QED
        BY <3>4 DEF AttemptOK
    <2>4. CASE s.phase # "loading"
      BY <2>1, <2>2, <2>4 DEF AttemptOK, AlertsOK
    <2>5. QED
      BY <2>3, <2>4
  <1>3. QED
    BY <1>1, <1>2

\* A new attempt has dealt with nothing yet.
LEMMA AttemptBegins ==
  ASSUME NEW s, NEW l, NEW m, AttemptOK(s, l),
         s.phase \in {"queued", "failed", "lost"}
  PROVE  LET t == NewAttempt(s.tries + 1, s.cuts) IN
         /\ AttemptOK(t, m)
         /\ \A n, c, b : BatchOK(s, n, c, b) => BatchOK(t, n, c, b)
  <1> DEFINE t == NewAttempt(s.tries + 1, s.cuts)
  <1>1. /\ s \in Attempt /\ s.cuts <= s.tries
        /\ s.tries \in Nat /\ s.cuts \in Nat
    BY AttemptFields DEF AttemptOK
  <1>2. /\ t.phase = "loading" /\ t.tries = s.tries + 1 /\ t.cuts = s.cuts
        /\ t.alerts = <<>> /\ t.asked = 0 /\ t.waiting = {} /\ t.next = 1
        /\ t.outcome = [b \in Batches |-> "none"]
    BY DEF NewAttempt
  <1>3. t \in Attempt
    <2>1. /\ s.tries + 1 \in Nat /\ s.cuts \in Nat
          /\ <<>> \in Seq(Batches) /\ {} \in SUBSET Batches
          /\ [b \in Batches |-> "none"] \in [Batches -> Outcomes]
      BY <1>1, EmptySeq DEF Outcomes
    <2>2. QED
      BY <2>1, AttemptMade DEF NewAttempt
  <1>4. Len(<<>>) = 0 /\ IsFiniteSet({}) /\ Cardinality({}) = 0
    BY FS_EmptySet, EmptySeq
  <1> HIDE DEF t
  <1>5. AlertSet(t) = {} /\ Passed(m, t) = {}
    BY <1>2, <1>4 DEF AlertSet, Passed
  <1>6. AlertsOK(t, m)
    BY <1>2, <1>4, <1>5 DEF AlertsOK, Working
  <1>7. AnswersOK(t)
    <2>1. Cardinality(t.waiting) <= MaxConcurrency
      BY <1>2, <1>4, ScanAssumption
    <2>2. QED
      BY <1>2, <1>4, <2>1 DEF AnswersOK, Working
  <1>8. AttemptOK(t, m)
    BY <1>1, <1>2, <1>3, <1>6, <1>7 DEF AttemptOK
  <1>9. \A n, c, b : BatchOK(s, n, c, b) => BatchOK(t, n, c, b)
    BY <1>1, <1>2 DEF BatchOK, Unsaved, Unpushed, Turned, Dealt
  <1>10. QED
    BY <1>8, <1>9 DEF t

\* One batch is classified.
LEMMA AttemptClassifies ==
  ASSUME NEW s, NEW l, AttemptOK(s, l), l.batches \in Seq(Batches),
         s.phase = "loading", l.phase = "loaded", IsInjective(l.batches),
         s.next <= Len(l.batches)
  PROVE  LET e == l.batches[s.next]
             t == [s EXCEPT !.alerts = IF Alerted(e) THEN Append(@, e) ELSE @,
                            !.next = @ + 1] IN
         /\ AttemptOK(t, l)
         /\ \A n, c, b : BatchOK(s, n, c, b) => BatchOK(t, n, c, b)
  <1> DEFINE e == l.batches[s.next]
             a == IF Alerted(e) THEN Append(s.alerts, e) ELSE s.alerts
             x == s.next + 1
             t == [s EXCEPT !.alerts = a, !.next = x]
  <1>1. /\ s \in Attempt /\ s.next \in Nat \ {0}
        /\ s.cuts < s.tries
        /\ s.alerts \in Seq(Batches) /\ Len(s.alerts) \in Nat
        /\ \A i \in 1..Len(s.alerts) : s.alerts[i] \in Batches
        /\ \A i, k \in 1..Len(s.alerts) : s.alerts[i] = s.alerts[k] => i = k
        /\ AlertSet(s) = {b \in Passed(l, s) : Alerted(b)}
    BY AttemptFields DEF AttemptOK, AlertsOK
  <1>2. /\ Len(l.batches) \in Nat
        /\ DOMAIN l.batches = 1..Len(l.batches)
        /\ \A i \in 1..Len(l.batches) : l.batches[i] \in Batches
    BY LenProperties
  <1>3. s.next \in 1..Len(l.batches) /\ e \in Batches
    BY <1>1, <1>2
  <1>4. /\ Append(s.alerts, e) \in Seq(Batches)
        /\ Len(Append(s.alerts, e)) = Len(s.alerts) + 1
        /\ \A i \in 1..Len(s.alerts) : Append(s.alerts, e)[i] = s.alerts[i]
        /\ Append(s.alerts, e)[Len(s.alerts) + 1] = e
    BY <1>1, <1>3, AppendProperties
  <1>5. e \notin Passed(l, s)
    <2>1. ASSUME NEW i \in 1..(s.next - 1), l.batches[i] = l.batches[s.next]
          PROVE  FALSE
      <3>1. /\ i \in DOMAIN l.batches /\ s.next \in DOMAIN l.batches
            /\ i # s.next
        BY <1>1, <1>2, <1>3
      <3>2. QED
        BY <2>1, <3>1 DEF IsInjective
    <2>2. QED
      BY <2>1 DEF Passed
  <1>6. e \notin AlertSet(s)
    BY <1>1, <1>5
  <1>7. a \in Seq(Batches) /\ x \in Nat \ {0}
    BY <1>1, <1>4
  <1>8. /\ t \in Attempt /\ t.alerts = a /\ t.next = x
        /\ t.phase = "loading" /\ t.tries = s.tries /\ t.cuts = s.cuts
        /\ t.asked = s.asked /\ t.waiting = s.waiting
    BY <1>1, <1>7 DEF Attempt
  <1>9. Passed(l, t) = Passed(l, s) \cup {e}
    <2> HIDE DEF t, a, e
    <2>1. \A i \in 1..x - 1 : i \in 1..(s.next - 1) \/ i = s.next
      BY <1>1
    <2>2. t.next - 1 = s.next
      BY <1>1, <1>8
    <2>3. QED
      BY <1>1, <1>3, <2>2 DEF Passed, e
  <1>10. AlertSet(t) = IF Alerted(e) THEN AlertSet(s) \cup {e} ELSE AlertSet(s)
    <2>1. CASE Alerted(e)
      <3>1. t.alerts = Append(s.alerts, e)
        BY <1>8, <2>1
      <3> HIDE DEF t, e
      <3>2. QED
        BY <1>1, <1>4, <2>1, <3>1 DEF AlertSet
    <2>2. CASE ~Alerted(e)
      BY <1>8, <2>2 DEF AlertSet
    <2>3. QED
      BY <2>1, <2>2
  <1>11. \A i, k \in 1..Len(a) : a[i] = a[k] => i = k
    <2>1. CASE Alerted(e)
      <3>1. a = Append(s.alerts, e)
        BY <2>1
      <3>2. \A i \in 1..Len(s.alerts) : s.alerts[i] # e
        BY <1>6 DEF AlertSet
      <3> DEFINE n == Len(s.alerts)
      <3>3. /\ Len(a) = n + 1 /\ n \in Nat
            /\ \A i \in 1..n : a[i] = s.alerts[i]
            /\ a[n + 1] = e
        BY <1>1, <1>4, <3>1
      <3> HIDE DEF a, e, n
      <3>4. \A i \in 1..(n + 1) : i \in 1..n \/ i = n + 1
        BY <3>3
      <3>5. \A i \in 1..n : a[i] # e
        BY <3>2, <3>3 DEF n
      <3>6. \A i, k \in 1..n : a[i] = a[k] => i = k
        BY <1>1, <3>3 DEF n
      <3>7. QED
        BY <3>3, <3>4, <3>5, <3>6
    <2>2. CASE ~Alerted(e)
      BY <1>1, <2>2
    <2>3. QED
      BY <2>1, <2>2
  <1> HIDE DEF t, a, e
  <1>12. AlertSet(t) = {b \in Passed(l, t) : Alerted(b)}
    BY <1>1, <1>9, <1>10
  <1>13. AlertsOK(t, l)
    <2>1. t.next <= Len(l.batches) + 1 /\ t.next \in Nat \ {0}
      BY <1>1, <1>2, <1>7, <1>8
    <2>2. QED
      BY <1>8, <1>11, <1>12, <2>1 DEF AlertsOK, Working
  <1>14. AnswersOK(t)
    BY <1>8 DEF AttemptOK, AnswersOK, Working
  <1>15. AttemptOK(t, l)
    BY <1>1, <1>8, <1>13, <1>14 DEF AttemptOK
  <1>16. \A n, c, b : BatchOK(s, n, c, b) => BatchOK(t, n, c, b)
    BY <1>8 DEF BatchOK, Unsaved, Unpushed, Turned, Dealt
  <1>17. QED
    BY <1>15, <1>16 DEF t, a, e

\* Every batch is classified.
LEMMA AttemptClassified ==
  ASSUME NEW s, NEW l, AttemptOK(s, l), l.batches \in Seq(Batches),
         s.phase = "loading", l.phase = "loaded", s.next > Len(l.batches)
  PROVE  LET t == [s EXCEPT !.phase = "asking", !.next = 1] IN
         /\ AttemptOK(t, l)
         /\ \A n, c, b : BatchOK(s, n, c, b) => BatchOK(t, n, c, b)
  <1> DEFINE t == [s EXCEPT !.phase = "asking", !.next = 1]
  <1>1. /\ s \in Attempt /\ s.next \in Nat \ {0}
        /\ s.cuts < s.tries
        /\ s.next > 1 => s.next <= Len(l.batches) + 1
        /\ \A i, k \in 1..Len(s.alerts) : s.alerts[i] = s.alerts[k] => i = k
        /\ AlertSet(s) = {b \in Passed(l, s) : Alerted(b)}
        /\ s.asked = 0 /\ Len(s.alerts) \in Nat
    BY AttemptFields DEF AttemptOK, AlertsOK, AnswersOK
  <1>2. /\ t \in Attempt /\ t.phase = "asking" /\ t.next = 1
        /\ t.alerts = s.alerts /\ t.tries = s.tries /\ t.cuts = s.cuts
        /\ t.asked = s.asked /\ t.waiting = s.waiting
    BY <1>1 DEF Attempt
  <1>3. Len(l.batches) \in Nat /\ DOMAIN l.batches = 1..Len(l.batches)
    BY LenProperties
  <1>4. s.next - 1 = Len(l.batches)
    BY <1>1, <1>3
  <1>5. Passed(l, s) = ToSet(l.batches)
    BY <1>3, <1>4 DEF Passed, ToSet
  <1> HIDE DEF t
  <1>6. AlertSet(t) = AlertSet(s)
    BY <1>2 DEF AlertSet
  <1>7. AlertsOK(t, l)
    BY <1>1, <1>2, <1>5, <1>6 DEF AlertsOK, Working
  <1>8. AnswersOK(t)
    BY <1>1, <1>2 DEF AttemptOK, AnswersOK, Working
  <1>9. AttemptOK(t, l)
    BY <1>1, <1>2, <1>7, <1>8 DEF AttemptOK
  <1>10. \A n, c, b : BatchOK(s, n, c, b) => BatchOK(t, n, c, b)
    BY <1>2 DEF BatchOK, Unsaved, Unpushed, Turned, Dealt
  <1>11. QED
    BY <1>9, <1>10 DEF t

\* One more call goes out.
LEMMA AttemptAsks ==
  ASSUME NEW s, NEW l, AttemptOK(s, l), s.phase = "asking",
         s.asked < Len(s.alerts), Cardinality(s.waiting) < MaxConcurrency
  PROVE  LET t == [s EXCEPT !.asked = @ + 1,
                            !.waiting = @ \cup {s.alerts[s.asked + 1]}] IN
         /\ AttemptOK(t, l)
         /\ \A n, c, b : BatchOK(s, n, c, b) => BatchOK(t, n, c, b)
  <1> DEFINE k == s.asked + 1
             w == s.waiting \cup {s.alerts[k]}
             t == [s EXCEPT !.asked = k, !.waiting = w]
  <1>1. /\ s \in Attempt /\ s.next \in Nat \ {0} /\ s.cuts < s.tries
        /\ s.asked \in Nat /\ Len(s.alerts) \in Nat
        /\ \A i \in 1..Len(s.alerts) : s.alerts[i] \in Batches
        /\ s.waiting \in SUBSET Batches
        /\ IsFiniteSet(s.waiting)
        /\ \A i \in 1..s.asked :
             s.alerts[i] \in s.waiting \/ s.outcome[s.alerts[i]] # "none"
    BY AttemptFields DEF AttemptOK, AlertsOK, AnswersOK, Working
  <1>2. k \in Nat /\ k \in 1..Len(s.alerts) /\ w \in SUBSET Batches
    BY <1>1
  <1>3. IsFiniteSet(w) /\ Cardinality(w) <= MaxConcurrency
    <2>1. MaxConcurrency \in Nat /\ Cardinality(s.waiting) \in Nat
      BY <1>1, ScanAssumption, FS_CardinalityType
    <2>2. /\ IsFiniteSet(w)
          /\ Cardinality(w) = Cardinality(s.waiting)
               \/ Cardinality(w) = Cardinality(s.waiting) + 1
      <3> DEFINE e == s.alerts[k]
      <3> HIDE DEF e, k
      <3>1. w = s.waiting \cup {e}
        BY DEF e
      <3> HIDE DEF w
      <3>2. QED
        BY <1>1, <3>1, FS_AddElement
    <2>3. QED
      BY <2>1, <2>2
  <1>4. /\ t \in Attempt /\ t.phase = "asking" /\ t.next = s.next
        /\ t.alerts = s.alerts /\ t.tries = s.tries /\ t.cuts = s.cuts
        /\ t.asked = k /\ t.waiting = w /\ t.outcome = s.outcome
    BY <1>1, <1>2 DEF Attempt
  <1>5. \A i \in 1..k : s.alerts[i] \in w \/ s.outcome[s.alerts[i]] # "none"
    BY <1>1
  <1> HIDE DEF t
  <1>6. AlertsOK(t, l)
    BY <1>4 DEF AttemptOK, AlertsOK, AlertSet, Working
  <1>7. AnswersOK(t)
    BY <1>2, <1>3, <1>4, <1>5 DEF AttemptOK, AnswersOK, Working
  <1>8. AttemptOK(t, l)
    BY <1>1, <1>4, <1>6, <1>7 DEF AttemptOK
  <1>9. \A n, c, b : BatchOK(s, n, c, b) => BatchOK(t, n, c, b)
    BY <1>4 DEF BatchOK, Unsaved, Unpushed, Turned, Dealt
  <1>10. QED
    BY <1>8, <1>9 DEF t

\* A call is answered.
LEMMA AttemptAnswered ==
  ASSUME NEW s, NEW l, AttemptOK(s, l), s.phase = "asking",
         NEW e \in s.waiting, NEW o \in {"suggestion", "error"}
  PROVE  LET t == [s EXCEPT !.waiting = @ \ {e}, !.outcome[e] = o] IN
         /\ AttemptOK(t, l)
         /\ \A n, c, b : BatchOK(s, n, c, b) => BatchOK(t, n, c, b)
  <1> DEFINE w == s.waiting \ {e}
             u == [s.outcome EXCEPT ![e] = o]
             t == [s EXCEPT !.waiting = w, !.outcome = u]
  <1>1. /\ s \in Attempt /\ s.next \in Nat \ {0} /\ s.cuts < s.tries
        /\ s.asked \in Nat /\ Len(s.alerts) \in Nat
        /\ \A i \in 1..Len(s.alerts) : s.alerts[i] \in Batches
        /\ s.waiting \in SUBSET Batches
        /\ s.outcome \in [Batches -> Outcomes]
        /\ IsFiniteSet(s.waiting)
        /\ Cardinality(s.waiting) <= MaxConcurrency
        /\ s.asked <= Len(s.alerts)
        /\ \A i \in 1..s.asked :
             s.alerts[i] \in s.waiting \/ s.outcome[s.alerts[i]] # "none"
    BY AttemptFields DEF AttemptOK, AlertsOK, AnswersOK, Working
  <1>2. /\ w \in SUBSET Batches /\ u \in [Batches -> Outcomes]
        /\ \A b \in Batches : u[b] = IF b = e THEN o ELSE s.outcome[b]
    BY <1>1 DEF Outcomes
  <1>3. IsFiniteSet(w) /\ Cardinality(w) <= MaxConcurrency
    <2>1. MaxConcurrency \in Nat /\ Cardinality(s.waiting) \in Nat
      BY <1>1, ScanAssumption, FS_CardinalityType
    <2>2. /\ IsFiniteSet(w)
          /\ Cardinality(w) \in Nat
          /\ Cardinality(w) <= Cardinality(s.waiting)
      BY <1>1, FS_Subset, FS_CardinalityType
    <2>3. QED
      BY <1>1, <2>1, <2>2
  <1>4. /\ t \in Attempt /\ t.phase = "asking" /\ t.next = s.next
        /\ t.alerts = s.alerts /\ t.tries = s.tries /\ t.cuts = s.cuts
        /\ t.asked = s.asked /\ t.waiting = w /\ t.outcome = u
    BY <1>1, <1>2 DEF Attempt
  <1>5. \A i \in 1..s.asked : s.alerts[i] \in w \/ u[s.alerts[i]] # "none"
    <2> SUFFICES ASSUME NEW i \in 1..s.asked, s.alerts[i] \notin w
                 PROVE  u[s.alerts[i]] # "none"
      OBVIOUS
    <2>1. s.alerts[i] \in Batches
      BY <1>1
    <2>2. QED
      BY <1>1, <1>2, <2>1
  <1>6. t = [s EXCEPT !.waiting = @ \ {e}, !.outcome[e] = o]
    BY <1>1 DEF Attempt
  <1> HIDE DEF t, u, w
  <1>7. AlertsOK(t, l)
    BY <1>4 DEF AttemptOK, AlertsOK, AlertSet, Working
  <1>8. AnswersOK(t)
    BY <1>1, <1>3, <1>4, <1>5 DEF AttemptOK, AnswersOK, Working
  <1>9. AttemptOK(t, l)
    BY <1>1, <1>4, <1>7, <1>8 DEF AttemptOK
  <1>10. \A n, c, b : BatchOK(s, n, c, b) => BatchOK(t, n, c, b)
    BY <1>4 DEF BatchOK, Unsaved, Unpushed, Turned, Dealt
  <1>11. QED
    BY <1>6, <1>9, <1>10

\* The attempt goes on to its next phase, with its counter at x.
LEMMA AttemptGathered ==
  ASSUME NEW s, NEW l, AttemptOK(s, l), s.phase = "asking", AllAnswered(s)
  PROVE  LET t == [s EXCEPT !.phase = "saving"] IN
         /\ AttemptOK(t, l)
         /\ \A n, c, b : BatchOK(s, n, c, b) => BatchOK(t, n, c, b)
  <1> DEFINE t == [s EXCEPT !.phase = "saving"]
  <1>1. s \in Attempt /\ Len(s.alerts) \in Nat /\ s.next = 1
    BY AttemptFields DEF AttemptOK, AnswersOK
  <1>2. /\ t \in Attempt /\ t.phase = "saving" /\ t.next = 1
        /\ t.alerts = s.alerts /\ t.tries = s.tries /\ t.cuts = s.cuts
        /\ t.asked = s.asked /\ t.waiting = s.waiting
        /\ t.outcome = s.outcome
    BY <1>1 DEF Attempt
  <1> HIDE DEF t
  <1>3. Seen(t) = {}
    BY <1>2 DEF Seen
  <1>4. AlertsOK(t, l)
    BY <1>2 DEF AttemptOK, AlertsOK, AlertSet, Working
  <1>5. AnswersOK(t)
    BY <1>1, <1>2 DEF AttemptOK, AnswersOK, Working, AllAnswered
  <1>6. AttemptOK(t, l)
    BY <1>2, <1>4, <1>5 DEF AttemptOK
  <1>7. \A n, c, b : BatchOK(s, n, c, b) => BatchOK(t, n, c, b)
    BY <1>2, <1>3 DEF BatchOK, Unsaved, Unpushed, Turned, Dealt
  <1>8. QED
    BY <1>6, <1>7 DEF t

\* The alert whose turn it is has not had it before.
LEMMA NextAlert ==
  ASSUME NEW s, NEW l, AttemptOK(s, l), s.phase \in {"saving", "pushing"},
         s.next <= Len(s.alerts)
  PROVE  LET t == [s EXCEPT !.next = @ + 1] IN
         /\ Current(s) \in Batches
         /\ Current(s) \in AlertSet(s) \ Seen(s)
         /\ s.outcome[Current(s)] \in {"suggestion", "error"}
         /\ AttemptOK(t, l)
         /\ t.phase = s.phase /\ t.tries = s.tries /\ t.cuts = s.cuts
         /\ t.outcome = s.outcome /\ AlertSet(t) = AlertSet(s)
         /\ Seen(t) = Seen(s) \cup {Current(s)}
  <1> DEFINE x == s.next + 1
             t == [s EXCEPT !.next = x]
             e == Current(s)
  <1>1. /\ s \in Attempt /\ s.next \in Nat \ {0}
        /\ s.asked \in Nat /\ Len(s.alerts) \in Nat
        /\ \A i \in 1..Len(s.alerts) : s.alerts[i] \in Batches
        /\ \A i, k \in 1..Len(s.alerts) : s.alerts[i] = s.alerts[k] => i = k
        /\ s.outcome \in [Batches -> Outcomes]
        /\ s.asked = Len(s.alerts) /\ s.waiting = {}
        /\ \A i \in 1..s.asked :
             s.alerts[i] \in s.waiting \/ s.outcome[s.alerts[i]] # "none"
    BY AttemptFields DEF AttemptOK, AlertsOK, AnswersOK, Working, AllAnswered
  <1>2. s.next \in 1..Len(s.alerts) /\ x \in Nat \ {0} /\ x <= Len(s.alerts) + 1
    BY <1>1
  <1>3. e \in Batches /\ e \in AlertSet(s)
    BY <1>1, <1>2 DEF Current, AlertSet
  <1>4. e \notin Seen(s)
    <2>1. ASSUME NEW i \in 1..(s.next - 1), s.alerts[i] = e
          PROVE  FALSE
      <3>1. i \in 1..Len(s.alerts) /\ i # s.next
        BY <1>1, <1>2
      <3>2. QED
        BY <1>1, <1>2, <2>1, <3>1 DEF Current
    <2>2. QED
      BY <2>1 DEF Seen
  <1>5. s.outcome[e] \in {"suggestion", "error"}
    <2>1. s.outcome[e] # "none"
      BY <1>1, <1>2 DEF Current
    <2>2. s.outcome[e] \in Outcomes
      BY <1>1, <1>3
    <2>3. QED
      BY <2>1, <2>2 DEF Outcomes
  <1>6. /\ t \in Attempt /\ t.phase = s.phase /\ t.next = x
        /\ t.alerts = s.alerts /\ t.tries = s.tries /\ t.cuts = s.cuts
        /\ t.asked = s.asked /\ t.waiting = s.waiting
        /\ t.outcome = s.outcome
    BY <1>1, <1>2 DEF Attempt
  <1> HIDE DEF t
  <1>7. AlertSet(t) = AlertSet(s)
    BY <1>6 DEF AlertSet
  <1>8. Seen(t) = Seen(s) \cup {e}
    <2>1. t.next - 1 = s.next
      BY <1>1, <1>6
    <2>2. \A i : i \in 1..s.next <=> i \in 1..(s.next - 1) \/ i = s.next
      BY <1>1
    <2>3. Seen(t) = {s.alerts[i] : i \in 1..s.next}
      BY <1>6, <2>1 DEF Seen
    <2> HIDE DEF e
    <2>4. e = s.alerts[s.next]
      BY DEF e, Current
    <2>5. QED
      BY <2>2, <2>3, <2>4 DEF Seen
  <1>9. AlertsOK(t, l)
    BY <1>2, <1>6, <1>7 DEF AttemptOK, AlertsOK, Working
  <1>10. AnswersOK(t)
    BY <1>1, <1>2, <1>6 DEF AttemptOK, AnswersOK, Working, AllAnswered
  <1>11. AttemptOK(t, l)
    BY <1>6, <1>9, <1>10 DEF AttemptOK
  <1>12. QED
    BY <1>3, <1>4, <1>5, <1>6, <1>7, <1>8, <1>11 DEF t

\* All alerts have had their turn; the next phase begins.
LEMMA TurnsOver ==
  ASSUME NEW s, NEW l, AttemptOK(s, l), s.phase \in {"saving", "pushing"},
         s.next > Len(s.alerts),
         NEW p, NEW x \in {1, s.next},
         \/ s.phase = "saving" /\ p = "pushing" /\ x = 1
         \/ s.phase = "pushing" /\ p = "done" /\ x = s.next
  PROVE  LET t == [s EXCEPT !.phase = p, !.next = x] IN
         /\ AttemptOK(t, l)
         /\ \A n, c, b : BatchOK(s, n, c, b) => BatchOK(t, n, c, b)
  <1> DEFINE t == [s EXCEPT !.phase = p, !.next = x]
  <1>1. /\ s \in Attempt /\ s.next \in Nat \ {0} /\ s.cuts < s.tries
        /\ Len(s.alerts) \in Nat /\ s.next <= Len(s.alerts) + 1
    BY AttemptFields DEF AttemptOK, AlertsOK, AnswersOK
  <1>2. s.next - 1 = Len(s.alerts) /\ x \in Nat \ {0} /\ x <= Len(s.alerts) + 1
    BY <1>1
  <1>3. Seen(s) = AlertSet(s)
    BY <1>2 DEF Seen, AlertSet
  <1>4. /\ t \in Attempt /\ t.phase = p /\ t.next = x
        /\ t.alerts = s.alerts /\ t.tries = s.tries /\ t.cuts = s.cuts
        /\ t.asked = s.asked /\ t.waiting = s.waiting
        /\ t.outcome = s.outcome
    BY <1>1, <1>2 DEF Attempt
  <1> HIDE DEF t
  <1>5. AlertSet(t) = AlertSet(s)
    BY <1>4 DEF AlertSet
  <1>6. AlertsOK(t, l)
    BY <1>2, <1>4, <1>5 DEF AttemptOK, AlertsOK, Working
  <1>7. AnswersOK(t)
    BY <1>2, <1>4 DEF AttemptOK, AnswersOK, Working, AllAnswered
  <1>8. AttemptOK(t, l)
    BY <1>1, <1>4, <1>6, <1>7 DEF AttemptOK
  <1>9. \A n, c, b : BatchOK(s, n, c, b) => BatchOK(t, n, c, b)
    <2>1. CASE s.phase = "saving"
      <3>1. Seen(t) = {}
        BY <1>4, <2>1 DEF Seen
      <3>2. QED
        BY <1>3, <1>4, <1>5, <2>1, <3>1
           DEF BatchOK, Unsaved, Unpushed, Turned, Dealt
    <2>2. CASE s.phase = "pushing"
      BY <1>3, <1>4, <1>5, <2>2
         DEF BatchOK, Unsaved, Unpushed, Turned, Dealt
    <2>3. QED
      BY <2>1, <2>2
  <1>10. QED
    BY <1>8, <1>9 DEF t

\* Saving the current outcome.
LEMMA BatchSaved ==
  ASSUME NEW s, NEW t, NEW n, NEW c, NEW b, NEW e, BatchOK(s, n, c, b),
         s.tries \in Nat,
         s.phase = "saving", e \notin Seen(s),
         s.outcome[e] \in {"suggestion", "error"},
         t.phase = "saving", t.tries = s.tries, t.cuts = s.cuts,
         t.outcome = s.outcome, Seen(t) = Seen(s) \cup {e}
  PROVE  BatchOK(t, IF b = e /\ s.outcome[e] = "suggestion" THEN n + 1 ELSE n,
                 c, b)
  <1>1. /\ n \in Nat /\ c \in Nat /\ n <= s.tries /\ c <= n
        /\ c <= s.cuts + 1 /\ c <= s.cuts
        /\ b \notin Seen(s) => n < s.tries
    BY DEF BatchOK, Unsaved, Turned
  <1>2. CASE b # e
    BY <1>2 DEF BatchOK, Unsaved, Unpushed, Turned, Dealt
  <1>3. CASE b = e /\ s.outcome[e] = "suggestion"
    BY <1>1, <1>3 DEF BatchOK, Unsaved, Unpushed, Turned, Dealt
  <1>4. CASE b = e /\ s.outcome[e] = "error"
    BY <1>1, <1>4 DEF BatchOK, Unsaved, Unpushed, Turned, Dealt
  <1>5. QED
    BY <1>2, <1>3, <1>4

\* Pushing the current card, which may arrive.
LEMMA BatchPushed ==
  ASSUME NEW s, NEW t, NEW n, NEW c, NEW b, NEW e, BatchOK(s, n, c, b),
         s.cuts \in Nat,
         s.phase = "pushing", e \in AlertSet(s) \ Seen(s),
         t.phase = "pushing", t.tries = s.tries, t.cuts = s.cuts,
         t.outcome = s.outcome, Seen(t) = Seen(s) \cup {e},
         AlertSet(t) = AlertSet(s),
         NEW d \in {c, c + 1},
         d # c => b = e /\ s.outcome[e] = "suggestion"
  PROVE  BatchOK(t, n, d, b)
  <1>1. /\ n \in Nat /\ c \in Nat /\ n <= s.tries /\ c <= n
        /\ c <= s.cuts + 1
        /\ b \notin Seen(s) => c <= s.cuts
    BY DEF BatchOK, Unsaved, Turned
  <1>2. CASE b # e
    BY <1>2 DEF BatchOK, Unsaved, Unpushed, Turned, Dealt
  <1>3. CASE b = e
    <2>1. d \in Nat /\ d <= s.cuts + 1
      BY <1>1, <1>3
    <2>2. d <= n
      BY <1>1, <1>3 DEF BatchOK, Unpushed
    <2>3. QED
      BY <1>1, <1>3, <2>1, <2>2 DEF BatchOK, Unsaved, Unpushed, Turned, Dealt
  <1>4. QED
    BY <1>2, <1>3

\* The attempt fails with the batch's card just pushed, or not.
LEMMA BatchCut ==
  ASSUME NEW s, NEW t, NEW n, NEW c, NEW b, NEW d \in Nat, BatchOK(s, n, c, b),
         t.phase \in {"failed", "lost"}, t.tries = s.tries, d <= n, d <= t.cuts,
         t.cuts \in Nat
  PROVE  BatchOK(t, n, d, b)
  BY DEF BatchOK, Unsaved, Unpushed, Turned, Dealt

(***************************************************************************)
(* The scans' invariant                                                    *)
(***************************************************************************)

LEMMA AttemptQueued ==
  ASSUME NEW p, NEW q, NEW n, NEW a, NEW k, NEW w, NEW o, NEW x, NEW c
  PROVE  [[phase |-> p, tries |-> n, alerts |-> a, asked |-> k, waiting |-> w,
           outcome |-> o, next |-> x, cuts |-> c] EXCEPT !.phase = q]
           = [phase |-> q, tries |-> n, alerts |-> a, asked |-> k, waiting |-> w,
              outcome |-> o, next |-> x, cuts |-> c]
  OBVIOUS

LEMMA ScanInvInit == Init => ScanInv
  <1> SUFFICES ASSUME Init
               PROVE  ScanInv
    OBVIOUS
  <1> DEFINE s == [phase |-> "queued", tries |-> 0, alerts |-> <<>>, asked |-> 0,
                   waiting |-> {}, outcome |-> [b \in Batches |-> "none"],
                   next |-> 1, cuts |-> 0]
  <1>1. [NewAttempt(0, 0) EXCEPT !.phase = "queued"] = s
    <2> DEFINE a == <<>>
               w == {}
               o == [b \in Batches |-> "none"]
    <2>1. /\ NewAttempt(0, 0) =
               [phase |-> "loading", tries |-> 0, alerts |-> a, asked |-> 0,
                waiting |-> w, outcome |-> o, next |-> 1, cuts |-> 0]
          /\ s = [phase |-> "queued", tries |-> 0, alerts |-> a, asked |-> 0,
                  waiting |-> w, outcome |-> o, next |-> 1, cuts |-> 0]
      BY Zenon DEF NewAttempt
    <2> HIDE DEF a, w, o, s
    <2>2. QED
      BY <2>1, AttemptQueued
  <1>2. s \in Attempt
    <2>1. /\ 0 \in Nat /\ <<>> \in Seq(Batches)
          /\ {} \in SUBSET Batches
          /\ [b \in Batches |-> "none"] \in [Batches -> Outcomes]
      BY EmptySeq DEF Outcomes
    <2>2. QED
      BY <2>1, AttemptMade
  <1>3. /\ s.phase = "queued" /\ s.tries = 0 /\ s.cuts = 0 /\ s.next = 1
        /\ s.waiting = {}
    OBVIOUS
  <1> HIDE DEF s
  <1>4. \A l : AttemptOK(s, l)
    <2>1. /\ IsFiniteSet({}) /\ Cardinality({}) = 0
          /\ 0 <= MaxConcurrency
      BY FS_EmptySet, ScanAssumption
    <2>2. QED
      BY <1>2, <1>3, <2>1 DEF AttemptOK, AlertsOK, AnswersOK, Working
  <1>5. \A b : BatchOK(s, 0, 0, b)
    BY <1>3 DEF BatchOK, Unsaved, Unpushed, Turned, Dealt
  <1>6. scan = [j \in Scanners |-> s]
    BY <1>1 DEF Init, ScanInit
  <1>7. /\ stored = [j \in Scanners |-> [b \in Batches |-> 0]]
        /\ cards = [j \in Scanners |-> [b \in Batches |-> 0]]
        /\ deaths = [j \in Scanners |-> 0]
    BY DEF Init, ScanInit
  <1>8. Tallies
    BY <1>2, <1>6, <1>7, ScanAssumption DEF Tallies
  <1>9. ASSUME NEW j \in Scanners
        PROVE  ScanOK(j)
    <2>1. /\ scan[j] = s
          /\ \A b \in Batches : stored[j][b] = 0 /\ cards[j][b] = 0
      BY <1>6, <1>7
    <2>2. AttemptOK(scan[j], load[j])
      BY <1>4, <2>1
    <2>3. \A b \in Batches : BatchOK(scan[j], stored[j][b], cards[j][b], b)
      BY <1>5, <2>1
    <2>4. QED
      BY <2>2, <2>3 DEF ScanOK
  <1>10. QED
    BY <1>8, <1>9 DEF ScanInv

\* A step of the scan j alone.
LEMMA ScanFrame ==
  ASSUME ScanInv, NEW j \in Scanners,
         NEW t, NEW st \in [Batches -> Nat], NEW cd \in [Batches -> Nat],
         scan' = [scan EXCEPT ![j] = t],
         stored' = [stored EXCEPT ![j] = st],
         cards' = [cards EXCEPT ![j] = cd],
         deaths' \in [Scanners -> 0..MaxDeaths],
         \A k \in Scanners \ {j} : load'[k] = load[k],
         AttemptOK(t, load'[j]),
         \A b \in Batches : BatchOK(t, st[b], cd[b], b)
  PROVE  ScanInv'
  <1>1. t \in Attempt
    BY DEF AttemptOK
  <1>2. /\ scan \in [Scanners -> Attempt]
        /\ stored \in [Scanners -> [Batches -> Nat]]
        /\ cards \in [Scanners -> [Batches -> Nat]]
        /\ \A k \in Scanners : ScanOK(k)
    BY DEF ScanInv, Tallies
  <1>3. /\ scan' \in [Scanners -> Attempt]
        /\ stored' \in [Scanners -> [Batches -> Nat]]
        /\ cards' \in [Scanners -> [Batches -> Nat]]
    BY <1>1, <1>2
  <1>4. /\ scan'[j] = t /\ stored'[j] = st /\ cards'[j] = cd
        /\ \A k \in Scanners \ {j} : /\ scan'[k] = scan[k]
                                     /\ stored'[k] = stored[k]
                                     /\ cards'[k] = cards[k]
    BY <1>2
  <1>5. ASSUME NEW k \in Scanners
        PROVE  /\ AttemptOK(scan'[k], load'[k])
               /\ \A b \in Batches :
                    BatchOK(scan'[k], stored'[k][b], cards'[k][b], b)
    <2>1. CASE k = j
      BY <1>4, <2>1
    <2>2. CASE k # j
      <3>1. /\ scan'[k] = scan[k] /\ stored'[k] = stored[k]
            /\ cards'[k] = cards[k] /\ load'[k] = load[k]
        BY <1>4, <2>2
      <3>2. QED
        BY <1>2, <3>1 DEF ScanOK
    <2>3. QED
      BY <2>1, <2>2
  <1>6. QED
    BY <1>3, <1>5 DEF ScanInv, Tallies, ScanOK

\* The same when the scan's tallies stay.
LEMMA ScanFrameStill ==
  ASSUME ScanInv, NEW j \in Scanners, NEW t,
         scan' = [scan EXCEPT ![j] = t],
         stored' = stored, cards' = cards,
         deaths' \in [Scanners -> 0..MaxDeaths],
         \A k \in Scanners \ {j} : load'[k] = load[k],
         AttemptOK(t, load'[j]),
         \A n, c, b : BatchOK(scan[j], n, c, b) => BatchOK(t, n, c, b)
  PROVE  ScanInv'
  <1>1. /\ stored \in [Scanners -> [Batches -> Nat]]
        /\ cards \in [Scanners -> [Batches -> Nat]]
        /\ ScanOK(j)
    BY DEF ScanInv, Tallies
  <1> DEFINE st == stored[j]
             cd == cards[j]
  <1>2. /\ st \in [Batches -> Nat] /\ cd \in [Batches -> Nat]
        /\ stored' = [stored EXCEPT ![j] = st]
        /\ cards' = [cards EXCEPT ![j] = cd]
    BY <1>1
  <1>3. \A b \in Batches : BatchOK(t, st[b], cd[b], b)
    BY <1>1 DEF ScanOK
  <1> HIDE DEF st, cd
  <1>4. QED
    BY <1>2, <1>3, ScanFrame

\* The loads of the ERP's own steps.
LEMMA ScanInvErp ==
  ASSUME ErpInv, ScanInv,
         \A k \in Scanners : load[k].phase # "loaded" \/ load'[k] = load[k],
         UNCHANGED scanVars
  PROVE  ScanInv'
  <1>1. scan' = scan /\ stored' = stored /\ cards' = cards /\ deaths' = deaths
    BY DEF scanVars
  <1>2. \A k \in Scanners : ScanOK(k)
    BY DEF ScanInv
  <1>3. ASSUME NEW k \in Scanners
        PROVE  AttemptOK(scan[k], load'[k])
    <2>1. AttemptOK(scan[k], load[k])
      BY <1>2 DEF ScanOK
    <2>2. QED
      BY <2>1, LoadGoesOn
  <1>4. QED
    BY <1>1, <1>2, <1>3 DEF ScanInv, Tallies, ScanOK

LEMMA LoadsOfErp ==
  ASSUME ErpInv, ErpNext
  PROVE  \A k \in Jobs : load[k].phase # "fetching" => load'[k] = load[k]
  <1>1. load \in [Jobs -> Load]
    BY DEF ErpInv, ErpTypeOK
  <1>2. CASE load' = Disturbed
    BY <1>2 DEF Disturbed
  <1>3. ASSUME NEW j \in Jobs, Fetch(j)
        PROVE  \A k \in Jobs : load[k].phase # "fetching" => load'[k] = load[k]
    BY <1>1, <1>3 DEF Fetch, FetchPage, FetchWrongLink, FetchRecoverable,
                      FetchPermanent
  <1>4. QED
    BY <1>2, <1>3 DEF ErpNext, GoodsLeave, GoodsArrive

LEMMA ScanInvBegin ==
  ASSUME ErpInv, ScanInv, NEW j \in Scanners, Begin(j)
  PROVE  ScanInv'
  <1> DEFINE t == NewAttempt(scan[j].tries + 1, scan[j].cuts)
  <1>1. /\ j \in Jobs /\ load \in [Jobs -> Load] /\ Scanners \subseteq Jobs
        /\ AttemptOK(scan[j], load[j])
    BY ScanAssumption DEF ErpInv, ErpTypeOK, ScanInv, ScanOK
  <1>2. /\ AttemptOK(t, load'[j])
        /\ \A n, c, b : BatchOK(scan[j], n, c, b) => BatchOK(t, n, c, b)
    BY <1>1, AttemptBegins DEF Begin
  <1>3. /\ scan' = [scan EXCEPT ![j] = t] /\ stored' = stored /\ cards' = cards
        /\ \A k \in Scanners \ {j} : load'[k] = load[k]
        /\ deaths' \in [Scanners -> 0..MaxDeaths]
    BY <1>1 DEF Begin, ScanInv, Tallies
  <1> HIDE DEF t
  <1>4. QED
    BY <1>2, <1>3, ScanFrameStill

\* Loading, classifying, asking, and the ends of saving and pushing.
LEMMA ScanInvQuiet ==
  ASSUME ErpInv, ScanInv, NEW j \in Scanners,
         \/ Classify(j) \/ Classified(j) \/ Ask(j) \/ Gathered(j)
         \/ Saved(j) \/ Pushed(j)
         \/ \E b \in Batches : Answer(j, b)
  PROVE  ScanInv'
  <1> DEFINE s == scan[j]
             l == load[j]
  <1>1. /\ j \in Jobs /\ load \in [Jobs -> Load] /\ Scanners \subseteq Jobs
        /\ AttemptOK(s, l) /\ l \in Load
        /\ l.phase = "loaded" => IsInjective(l.batches)
        /\ scan \in [Scanners -> Attempt] /\ s \in Attempt
    BY ScanAssumption DEF ErpInv, ErpTypeOK, LoadOK, ScanInv, ScanOK, Tallies
  <1>2. l.batches \in Seq(Batches)
    BY <1>1, LoadFields
  <1>3. /\ load' = load /\ stored' = stored /\ cards' = cards
        /\ deaths' \in [Scanners -> 0..MaxDeaths]
    BY DEF Classify, Classified, Ask, Gathered, Saved, Pushed, Answer, erpVars,
           ScanInv, Tallies
  <1>4. \E t : /\ scan' = [scan EXCEPT ![j] = t]
               /\ AttemptOK(t, l)
               /\ \A n, c, b : BatchOK(s, n, c, b) => BatchOK(t, n, c, b)
    <2>1. CASE Classify(j)
      <3> DEFINE e == l.batches[s.next]
                 t == [s EXCEPT !.alerts = IF Alerted(e) THEN Append(@, e) ELSE @,
                                !.next = @ + 1]
      <3>1. scan' = [scan EXCEPT ![j] = t]
        BY <1>1, <2>1 DEF Classify
      <3>2. /\ AttemptOK(t, l)
            /\ \A n, c, b : BatchOK(s, n, c, b) => BatchOK(t, n, c, b)
        BY <1>1, <1>2, <2>1, AttemptClassifies DEF Classify
      <3> HIDE DEF t, s, l
      <3>3. QED
        BY <3>1, <3>2
    <2>2. CASE Classified(j)
      <3> DEFINE t == [s EXCEPT !.phase = "asking", !.next = 1]
      <3>1. scan' = [scan EXCEPT ![j] = t]
        BY <1>1, <2>2 DEF Classified
      <3>2. /\ AttemptOK(t, l)
            /\ \A n, c, b : BatchOK(s, n, c, b) => BatchOK(t, n, c, b)
        BY <1>1, <1>2, <2>2, AttemptClassified DEF Classified
      <3> HIDE DEF t, s, l
      <3>3. QED
        BY <3>1, <3>2
    <2>3. CASE Ask(j)
      <3> DEFINE t == [s EXCEPT !.asked = @ + 1,
                                !.waiting = @ \cup {s.alerts[s.asked + 1]}]
      <3>1. scan' = [scan EXCEPT ![j] = t]
        BY <1>1, <2>3 DEF Ask
      <3>2. /\ AttemptOK(t, l)
            /\ \A n, c, b : BatchOK(s, n, c, b) => BatchOK(t, n, c, b)
        BY <1>1, <2>3, AttemptAsks DEF Ask
      <3> HIDE DEF t, s, l
      <3>3. QED
        BY <3>1, <3>2
    <2>4. CASE Gathered(j)
      <3> DEFINE t == [s EXCEPT !.phase = "saving"]
      <3>1. scan' = [scan EXCEPT ![j] = t]
        BY <1>1, <2>4 DEF Gathered
      <3>2. /\ AttemptOK(t, l)
            /\ \A n, c, b : BatchOK(s, n, c, b) => BatchOK(t, n, c, b)
        BY <1>1, <2>4, AttemptGathered DEF Gathered
      <3> HIDE DEF t, s, l
      <3>3. QED
        BY <3>1, <3>2
    <2>5. CASE Saved(j)
      <3> DEFINE t == [s EXCEPT !.phase = "pushing", !.next = 1]
      <3>1. scan' = [scan EXCEPT ![j] = t]
        BY <1>1, <2>5 DEF Saved
      <3>2. /\ AttemptOK(t, l)
            /\ \A n, c, b : BatchOK(s, n, c, b) => BatchOK(t, n, c, b)
        BY <1>1, <2>5, TurnsOver DEF Saved
      <3> HIDE DEF t, s, l
      <3>3. QED
        BY <3>1, <3>2
    <2>6. CASE Pushed(j)
      <3> DEFINE x == s.next
                 t == [s EXCEPT !.phase = "done", !.next = x]
      <3>1. scan' = [scan EXCEPT ![j] = t]
        <4>1. t = [s EXCEPT !.phase = "done"]
          BY <1>1 DEF Attempt
        <4> HIDE DEF t
        <4>2. QED
          BY <1>1, <2>6, <4>1 DEF Pushed
      <3>2. /\ AttemptOK(t, l)
            /\ \A n, c, b : BatchOK(s, n, c, b) => BatchOK(t, n, c, b)
        BY <1>1, <2>6, TurnsOver DEF Pushed
      <3> HIDE DEF t, s, l
      <3>3. QED
        BY <3>1, <3>2
    <2>7. ASSUME NEW e \in Batches, Answer(j, e)
          PROVE  \E t : /\ scan' = [scan EXCEPT ![j] = t]
                        /\ AttemptOK(t, l)
                        /\ \A n, c, b : BatchOK(s, n, c, b) => BatchOK(t, n, c, b)
      <3>1. PICK o \in {"suggestion", "error"} :
              scan' = [scan EXCEPT ![j].waiting = @ \ {e}, ![j].outcome[e] = o]
        BY <2>7 DEF Answer
      <3> DEFINE t == [s EXCEPT !.waiting = @ \ {e}, !.outcome[e] = o]
      <3>2. scan' = [scan EXCEPT ![j] = t]
        BY <1>1, <3>1
      <3>3. /\ AttemptOK(t, l)
            /\ \A n, c, b : BatchOK(s, n, c, b) => BatchOK(t, n, c, b)
        BY <1>1, <2>7, AttemptAnswered DEF Answer
      <3> HIDE DEF t, s, l
      <3>4. QED
        BY <3>2, <3>3
    <2>8. QED
      BY <2>1, <2>2, <2>3, <2>4, <2>5, <2>6, <2>7
  <1> HIDE DEF s, l
  <1>5. PICK t : /\ scan' = [scan EXCEPT ![j] = t]
                 /\ AttemptOK(t, l)
                 /\ \A n, c, b : BatchOK(s, n, c, b) => BatchOK(t, n, c, b)
    BY <1>4
  <1>6. QED
    BY <1>3, <1>5, ScanFrameStill DEF s, l

LEMMA ScanInvSave ==
  ASSUME ErpInv, ScanInv, NEW j \in Scanners, SaveNext(j)
  PROVE  ScanInv'
  <1> DEFINE s == scan[j]
             l == load[j]
             e == Current(s)
             t == [s EXCEPT !.next = @ + 1]
             st == [b \in Batches |->
                      IF b = e /\ s.outcome[e] = "suggestion"
                      THEN stored[j][b] + 1 ELSE stored[j][b]]
             cd == cards[j]
  <1>1. /\ load \in [Jobs -> Load] /\ AttemptOK(s, l)
        /\ scan \in [Scanners -> Attempt] /\ s \in Attempt
        /\ stored \in [Scanners -> [Batches -> Nat]]
        /\ cards \in [Scanners -> [Batches -> Nat]]
        /\ \A b \in Batches : BatchOK(s, stored[j][b], cards[j][b], b)
        /\ s.phase = "saving" /\ s.next <= Len(s.alerts)
        /\ s.tries \in Nat
    BY AttemptFields DEF ErpInv, ErpTypeOK, ScanInv, ScanOK, Tallies, SaveNext
  <1>2. /\ e \in Batches /\ e \in AlertSet(s) \ Seen(s)
        /\ s.outcome[e] \in {"suggestion", "error"}
        /\ AttemptOK(t, l)
        /\ t.phase = s.phase /\ t.tries = s.tries /\ t.cuts = s.cuts
        /\ t.outcome = s.outcome /\ Seen(t) = Seen(s) \cup {e}
    BY <1>1, NextAlert
  <1>3. /\ scan' = [scan EXCEPT ![j] = t]
        /\ load' = load /\ cards' = cards
        /\ deaths' \in [Scanners -> 0..MaxDeaths]
    BY <1>1 DEF SaveNext, erpVars, ScanInv, Tallies
  <1> HIDE DEF t, s, l
  <1>4. stored' = [stored EXCEPT ![j] = st]
    <2>1. CASE s.outcome[e] = "suggestion"
      <3>1. stored' = [stored EXCEPT ![j][e] = @ + 1]
        BY <2>1 DEF SaveNext, s
      <3>2. [stored[j] EXCEPT ![e] = @ + 1] = st
        BY <1>1, <1>2, <2>1
      <3> HIDE DEF st, e
      <3>3. QED
        BY <1>1, <3>1, <3>2
    <2>2. CASE s.outcome[e] # "suggestion"
      <3>1. stored' = stored
        BY <2>2 DEF SaveNext, s
      <3>2. stored[j] = st
        BY <1>1, <2>2
      <3> HIDE DEF st, e
      <3>3. QED
        BY <1>1, <3>1, <3>2
    <2>3. QED
      BY <2>1, <2>2
  <1>5. st \in [Batches -> Nat] /\ cd \in [Batches -> Nat]
    BY <1>1
  <1>6. \A b \in Batches : BatchOK(t, st[b], cd[b], b)
    <2> SUFFICES ASSUME NEW b \in Batches
                 PROVE  BatchOK(t, st[b], cd[b], b)
      OBVIOUS
    <2>1. BatchOK(s, stored[j][b], cards[j][b], b)
      BY <1>1
    <2> HIDE DEF e
    <2>2. BatchOK(t, IF b = e /\ s.outcome[e] = "suggestion"
                     THEN stored[j][b] + 1 ELSE stored[j][b], cards[j][b], b)
      BY <1>1, <1>2, <2>1, BatchSaved
    <2>3. QED
      BY <2>2
  <1>7. /\ cards' = [cards EXCEPT ![j] = cd]
        /\ AttemptOK(t, load'[j])
        /\ \A k \in Scanners \ {j} : load'[k] = load[k]
    BY <1>1, <1>2, <1>3 DEF l
  <1> HIDE DEF st, cd, e
  <1>8. QED
    BY <1>3, <1>4, <1>5, <1>6, <1>7, ScanFrame

LEMMA ScanInvPush ==
  ASSUME ErpInv, ScanInv, NEW j \in Scanners, PushNext(j)
  PROVE  ScanInv'
  <1> DEFINE s == scan[j]
             l == load[j]
             e == Current(s)
             t == [s EXCEPT !.next = @ + 1]
             st == stored[j]
             one == [cards[j] EXCEPT ![e] = @ + 1]
  <1>1. /\ load \in [Jobs -> Load] /\ AttemptOK(s, l)
        /\ scan \in [Scanners -> Attempt] /\ s \in Attempt
        /\ stored \in [Scanners -> [Batches -> Nat]]
        /\ cards \in [Scanners -> [Batches -> Nat]]
        /\ \A b \in Batches : BatchOK(s, stored[j][b], cards[j][b], b)
        /\ s.phase = "pushing" /\ s.next <= Len(s.alerts)
        /\ s.cuts \in Nat
    BY AttemptFields DEF ErpInv, ErpTypeOK, ScanInv, ScanOK, Tallies, PushNext
  <1>2. /\ e \in Batches /\ e \in AlertSet(s) \ Seen(s)
        /\ AttemptOK(t, l)
        /\ t.phase = s.phase /\ t.tries = s.tries /\ t.cuts = s.cuts
        /\ t.outcome = s.outcome /\ Seen(t) = Seen(s) \cup {e}
        /\ AlertSet(t) = AlertSet(s)
    BY <1>1, NextAlert
  <1>3. /\ scan' = [scan EXCEPT ![j] = t]
        /\ load' = load /\ stored' = stored
        /\ deaths' \in [Scanners -> 0..MaxDeaths]
    BY <1>1 DEF PushNext, erpVars, ScanInv, Tallies
  <1>4. PICK cd \in {cards[j], one} :
          /\ cards' = [cards EXCEPT ![j] = cd]
          /\ cd = cards[j] \/ s.outcome[e] = "suggestion"
    <2>1. CASE cards' = cards
      <3>1. cards' = [cards EXCEPT ![j] = cards[j]]
        BY <1>1, <2>1
      <3>2. QED
        BY <3>1
    <2>2. CASE /\ s.outcome[e] = "suggestion"
               /\ cards' = [cards EXCEPT ![j][e] = @ + 1]
      <3>1. cards' = [cards EXCEPT ![j] = one]
        BY <1>1, <2>2
      <3>2. QED
        BY <2>2, <3>1
    <2>3. QED
      BY <2>1, <2>2 DEF PushNext
  <1> HIDE DEF t, s, l
  <1>5. /\ st \in [Batches -> Nat] /\ cd \in [Batches -> Nat]
        /\ \A b \in Batches : /\ cd[b] \in {cards[j][b], cards[j][b] + 1}
                              /\ cd[b] # cards[j][b] =>
                                   b = e /\ s.outcome[e] = "suggestion"
    <2>1. /\ one \in [Batches -> Nat]
          /\ \A b \in Batches : one[b] = IF b = e THEN cards[j][b] + 1
                                                 ELSE cards[j][b]
      BY <1>1, <1>2
    <2> HIDE DEF one
    <2>2. QED
      BY <1>1, <1>4, <2>1
  <1>6. \A b \in Batches : BatchOK(t, st[b], cd[b], b)
    <2> SUFFICES ASSUME NEW b \in Batches
                 PROVE  BatchOK(t, st[b], cd[b], b)
      OBVIOUS
    <2>1. BatchOK(s, stored[j][b], cards[j][b], b)
      BY <1>1
    <2> DEFINE d == cd[b]
    <2>2. /\ d \in {cards[j][b], cards[j][b] + 1}
          /\ d # cards[j][b] => b = e /\ s.outcome[e] = "suggestion"
      BY <1>5
    <2>3. s.phase = "pushing" /\ t.phase = "pushing" /\ s.cuts \in Nat
      BY <1>1, <1>2
    <2> HIDE DEF e, d
    <2>4. BatchOK(t, stored[j][b], d, b)
      BY <1>2, <2>1, <2>2, <2>3, BatchPushed
    <2>5. QED
      BY <2>4 DEF d
  <1>7. /\ stored' = [stored EXCEPT ![j] = st]
        /\ AttemptOK(t, load'[j])
        /\ \A k \in Scanners \ {j} : load'[k] = load[k]
    BY <1>1, <1>2, <1>3 DEF l
  <1> HIDE DEF st, e, one
  <1>8. QED
    BY <1>3, <1>4, <1>5, <1>6, <1>7, ScanFrame

\* The attempt fails, by an error or with its process.
LEMMA ScanInvFails ==
  ASSUME ErpInv, ScanInv, NEW j \in Scanners,
         LoadFailed(j) \/ SaveFails(j) \/ PushBreaks(j) \/ Die(j)
  PROVE  ScanInv'
  <1> DEFINE s == scan[j]
             l == load[j]
             e == Current(s)
             k == IF s.phase = "pushing" THEN s.cuts + 1 ELSE s.cuts
             p == IF Die(j) THEN "lost" ELSE "failed"
             t == [s EXCEPT !.phase = p, !.cuts = k]
             st == stored[j]
             one == [cards[j] EXCEPT ![e] = @ + 1]
  <1>1. /\ load \in [Jobs -> Load] /\ AttemptOK(s, l)
        /\ scan \in [Scanners -> Attempt] /\ s \in Attempt
        /\ stored \in [Scanners -> [Batches -> Nat]]
        /\ cards \in [Scanners -> [Batches -> Nat]]
        /\ \A b \in Batches : BatchOK(s, stored[j][b], cards[j][b], b)
        /\ s.cuts \in Nat /\ j \in Jobs /\ Scanners \subseteq Jobs
        /\ s.phase \in {"loading", "asking", "saving", "pushing", "done"}
             \cup {"queued", "failed", "lost"}
    BY AttemptFields, ScanAssumption
       DEF ErpInv, ErpTypeOK, ScanInv, ScanOK, Tallies
  <1>2. s.phase \notin {"queued", "failed", "lost", "done"}
    BY DEF LoadFailed, SaveFails, PushBreaks, Die
  <1>3. /\ AttemptOK(t, load'[j])
        /\ t.phase \in {"failed", "lost"} /\ t.cuts = k /\ t.tries = s.tries
    <2>1. p \in {"failed", "lost"} /\ k \in {s.cuts, s.cuts + 1} /\ k \in Nat
      BY <1>1
    <2>2. AttemptOK(s, l) /\ s \in Attempt
      BY <1>1
    <2>3. s.phase \notin {"queued", "failed", "lost"}
      BY <1>2
    <2> HIDE DEF p, k, s, l, e, st, one
    <2>4. /\ t \in Attempt /\ t.phase = p /\ t.cuts = k /\ t.tries = s.tries
          /\ t.next = s.next /\ t.waiting = s.waiting
      BY <2>1, <2>2 DEF Attempt
    <2> HIDE DEF t
    <2>5. QED
      BY <2>1, <2>2, <2>3, <2>4, AttemptFails
  <1>4. scan' = [scan EXCEPT ![j] = t]
    <2>1. CASE Die(j)
      BY <1>1, <2>1 DEF Die
    <2>2. CASE ~Die(j) /\ (LoadFailed(j) \/ SaveFails(j))
      <3>1. t = [s EXCEPT !.phase = "failed"]
        BY <1>1, <2>2 DEF Attempt, LoadFailed, SaveFails
      <3> HIDE DEF t
      <3>2. QED
        BY <2>2, <3>1 DEF LoadFailed, SaveFails
    <2>3. CASE ~Die(j) /\ PushBreaks(j)
      <3>1. p = "failed" /\ k = s.cuts + 1
        BY <2>3 DEF PushBreaks
      <3> HIDE DEF p, k
      <3>2. QED
        BY <1>1, <2>3, <3>1 DEF PushBreaks
    <2>4. QED
      BY <2>1, <2>2, <2>3
  <1>5. /\ stored' = stored
        /\ \A i \in Scanners \ {j} : load'[i] = load[i]
        /\ deaths' \in [Scanners -> 0..MaxDeaths]
    <2>1. deaths \in [Scanners -> 0..MaxDeaths]
      BY DEF ScanInv, Tallies
    <2>2. /\ stored' = stored
          /\ \A i \in Scanners \ {j} : load'[i] = load[i]
      BY <1>1 DEF LoadFailed, SaveFails, PushBreaks, Die, erpVars
    <2>3. CASE Die(j)
      BY <2>1, <2>2, <2>3, ScanAssumption DEF Die
    <2>4. CASE LoadFailed(j) \/ SaveFails(j) \/ PushBreaks(j)
      BY <2>1, <2>2, <2>4 DEF LoadFailed, SaveFails, PushBreaks
    <2>5. QED
      BY <2>3, <2>4
  <1>6. PICK cd \in {cards[j], one} :
          /\ cards' = [cards EXCEPT ![j] = cd]
          /\ \/ cd = cards[j]
             \/ /\ s.phase = "pushing" /\ s.next <= Len(s.alerts)
                /\ s.outcome[e] = "suggestion"
    <2>1. CASE cards' = cards
      <3>1. cards' = [cards EXCEPT ![j] = cards[j]]
        BY <1>1, <2>1
      <3>2. QED
        BY <3>1
    <2>2. CASE cards' # cards
      <3>1. PushBreaks(j)
        BY <2>2 DEF LoadFailed, SaveFails, Die
      <3>2. cards' = [cards EXCEPT ![j][e] = @ + 1]
        BY <2>2, <3>1 DEF PushBreaks
      <3>3. cards' = [cards EXCEPT ![j] = one]
        BY <1>1, <3>2
      <3>4. QED
        BY <3>1, <3>3 DEF PushBreaks
    <2>3. QED
      BY <2>1, <2>2
  <1> HIDE DEF t
  <1>7. \A b \in Batches : BatchOK(t, st[b], cd[b], b)
    <2> SUFFICES ASSUME NEW b \in Batches
                 PROVE  BatchOK(t, st[b], cd[b], b)
      OBVIOUS
    <2>1. /\ BatchOK(s, st[b], cards[j][b], b)
          /\ st[b] \in Nat /\ cards[j][b] \in Nat /\ k \in Nat
      BY <1>1
    <2>2. /\ cards[j][b] <= st[b]
          /\ cards[j][b] <= k
      BY <1>1, <1>2, <2>1 DEF BatchOK, Turned
    <2>3. cd[b] \in Nat /\ cd[b] <= st[b] /\ cd[b] <= k
      <3>1. CASE cd = cards[j]
        BY <2>1, <2>2, <3>1
      <3>2. CASE cd # cards[j]
        <4>1. /\ s.phase = "pushing" /\ s.next <= Len(s.alerts)
              /\ s.outcome[e] = "suggestion" /\ cd = one
          BY <1>6, <3>2
        <4>2. e \in Batches /\ e \in AlertSet(s) \ Seen(s)
          BY <1>1, <4>1, NextAlert
        <4>3. CASE b # e
          <5>1. one[b] = cards[j][b]
            BY <1>1, <4>3
          <5>2. QED
            BY <2>1, <2>2, <4>1, <5>1
        <4>4. CASE b = e
          <5>1. one[b] = cards[j][b] + 1
            BY <1>1, <4>2, <4>4
          <5>2. cards[j][b] < st[b]
            BY <2>1, <4>1, <4>2, <4>4 DEF BatchOK, Unpushed
          <5>3. cards[j][b] <= s.cuts
            BY <2>1, <4>1, <4>2, <4>4 DEF BatchOK, Turned
          <5>4. k = s.cuts + 1
            BY <4>1
          <5> HIDE DEF k, one, st
          <5>5. cd[b] = cards[j][b] + 1
            BY <4>1, <5>1
          <5>6. QED
            BY <1>1, <2>1, <5>2, <5>3, <5>4, <5>5
        <4>5. QED
          BY <4>3, <4>4
      <3>3. QED
        BY <3>1, <3>2
    <2> HIDE DEF k, s, st
    <2>4. QED
      BY <1>3, <2>1, <2>3, BatchCut
  <1>8. st \in [Batches -> Nat] /\ cd \in [Batches -> Nat]
    BY <1>1, <1>6
  <1>9. stored' = [stored EXCEPT ![j] = st]
    BY <1>1, <1>5
  <1> HIDE DEF st, one, e, k, s
  <1>10. QED
    BY <1>3, <1>4, <1>5, <1>6, <1>7, <1>8, <1>9, ScanFrame

(***************************************************************************)
(* Plans                                                                   *)
(***************************************************************************)

\* A batch gets no more than its stock, and less only where nothing is left.
ShareOK(p, b) ==
  /\ p.given[b].qty <= Stock[b]
  /\ p.given[b].qty < Stock[b] => p.remaining[p.given[b].action] = 0

\* What has been allocated of an action and what is left of it add up; the
\* batches had their turns in order, one that got nothing left nothing, and
\* one that got less than its stock left nothing of its action.
AllocationOK(p) ==
  /\ \A b \in Batches : p.given[b].action # NoAction => ShareOK(p, b)
  /\ \A a \in ActionSet : p.used[a] + p.remaining[a] = p.capacity[a]
  /\ \A b \in Batches : p.given[b].action = NoAction => p.given[b].qty = 0
  /\ \A b \in Batches : b \in p.todo => p.given[b].action = NoAction
  /\ \A b, c \in Batches :
       p.given[b].action # NoAction /\ c \in p.todo => Before(b, c)
  /\ \A b \in Batches : PassedOver(p, b) =>
       \A a \in ActionSet : p.remaining[a] = 0
  /\ \A b, c \in Batches :
       PassedOver(p, b) /\ Before(b, c) => p.given[c].qty = 0

Assigned(p) == {b \in Batches : p.given[b].action # NoAction}

PlanOK(p, l) ==
  /\ p \in Plan
  /\ AllocationOK(p)
  /\ p.phase \in {"idle", "loading"} => p.todo = {} /\ Assigned(p) = {}
  /\ p.phase \in {"allocating", "saved"} =>
       /\ l.phase = "loaded"
       /\ Assigned(p) \cup p.todo = ToSet(l.batches)
  /\ p.phase = "saved" => p.todo = {}

PlanInv ==
  /\ PlanTypeOK
  /\ \A j \in Planners : PlanOK(plan[j], load[j])

\* Some number of a list is the greatest, and one of those comes first.
LEMMA FirstGreatest ==
  ASSUME NEW n \in Nat \ {0}, NEW v \in [1..n -> Nat]
  PROVE  \E i \in 1..n : \A k \in 1..n :
           v[k] <= v[i] /\ (v[k] = v[i] => i <= k)
  <1> DEFINE Tops(m, i) == i \in 1..m /\ \A k \in 1..m : v[k] <= v[i]
             Topless == {m \in 1..n : \A i \in 1..n : ~ Tops(m, i)}
             Top == {i \in 1..n : Tops(n, i)}
  <1>1. Topless = {}
    <2>1. SUFFICES ASSUME Topless # {}
                   PROVE  FALSE
      OBVIOUS
    <2>2. Topless \in SUBSET Nat
      OBVIOUS
    <2> HIDE DEF Topless
    <2>3. PICK m \in Topless : \A y \in Topless : m <= y
      BY <2>1, <2>2, LeastNumber
    <2>4. m \in 1..n /\ \A i \in 1..n : ~ Tops(m, i)
      BY <2>3 DEF Topless
    <2>5. CASE m = 1
      <3>1. 1 \in 1..n /\ \A k \in 1..m : k = 1
        BY <2>5
      <3>2. v[1] \in Nat
        BY <3>1
      <3>3. v[1] <= v[1]
        BY <3>2
      <3>4. Tops(m, 1)
        BY <2>5, <3>1, <3>3
      <3>5. QED
        BY <2>4, <3>1, <3>4
    <2>6. CASE m # 1
      <3>1. m - 1 \in 1..n /\ ~ (m <= m - 1)
        BY <2>4, <2>6
      <3>2. m - 1 \notin Topless
        BY <2>3, <3>1
      <3>3. PICK i \in 1..n : Tops(m - 1, i)
        BY <3>1, <3>2 DEF Topless
      <3>4. /\ i \in 1..m /\ m \in 1..m /\ v[i] \in Nat /\ v[m] \in Nat
            /\ \A k \in 1..m : k \in 1..(m - 1) \/ k = m
            /\ \A k \in 1..m : v[k] \in Nat
        BY <2>4, <3>1, <3>3
      <3>5. CASE v[m] <= v[i]
        <4>1. Tops(m, i)
          BY <3>3, <3>4, <3>5
        <4>2. QED
          BY <2>4, <4>1
      <3>6. CASE v[i] < v[m]
        <4>1. \A k \in 1..(m - 1) : v[k] <= v[i] /\ k \in 1..m
          BY <2>4, <3>3
        <4>2. \A k \in 1..(m - 1) : v[k] <= v[m]
          BY <3>4, <3>6, <4>1
        <4>3. v[m] <= v[m]
          BY <3>4
        <4>4. \A k \in 1..m : v[k] <= v[m]
          BY <3>4, <4>2, <4>3
        <4>5. Tops(m, m)
          BY <3>4, <4>4
        <4>6. QED
          BY <2>4, <4>5
      <3>7. QED
        BY <3>4, <3>5, <3>6
    <2>7. QED
      BY <2>5, <2>6
  <1>2. PICK t \in 1..n : Tops(n, t)
    <2>1. n \in 1..n
      OBVIOUS
    <2>2. n \notin Topless
      BY <1>1
    <2>3. QED
      BY <2>1, <2>2
  <1>3. Top # {} /\ Top \in SUBSET Nat
    BY <1>2
  <1> HIDE DEF Topless
  <1>4. PICK i \in Top : \A y \in Top : i <= y
    <2> HIDE DEF Top, Tops
    <2>1. QED
      BY <1>3, LeastNumber
  <1>5. i \in 1..n /\ \A k \in 1..n : v[k] <= v[i]
    BY <1>4
  <1>6. ASSUME NEW k \in 1..n, v[k] = v[i]
        PROVE  i <= k
    <2>1. k \in Top
      BY <1>5, <1>6
    <2>2. QED
      BY <1>4, <2>1
  <1>7. QED
    BY <1>5, <1>6

\* Roomiest chooses an action with the most capacity left.
LEMMA RoomiestIs ==
  ASSUME NEW r \in [ActionSet -> Nat]
  PROVE  /\ Roomiest(r) \in ActionSet
         /\ \A a \in ActionSet : r[a] <= r[Roomiest(r)]
  <1> DEFINE n == Len(Enabled)
             v == [i \in 1..n |-> r[Enabled[i]]]
             First(x) == \A k \in DOMAIN Enabled :
                           /\ r[Enabled[k]] <= r[Enabled[x]]
                           /\ r[Enabled[k]] = r[Enabled[x]] => x <= k
             y == CHOOSE x \in DOMAIN Enabled : First(x)
  <1>1. /\ n \in Nat \ {0} /\ DOMAIN Enabled = 1..n
        /\ \A i \in 1..n : Enabled[i] \in ActionSet
        /\ ActionSet = {Enabled[i] : i \in 1..n}
    BY PlannerAssumption, EmptySeq, LenProperties DEF ActionSet, ToSet
  <1> HIDE DEF n
  <1>2. v \in [1..n -> Nat]
    BY <1>1
  <1>3. \E x \in DOMAIN Enabled : First(x)
    <2>1. PICK i \in 1..n : \A k \in 1..n :
            v[k] <= v[i] /\ (v[k] = v[i] => i <= k)
      <3> HIDE DEF v
      <3>1. QED
        BY <1>1, <1>2, FirstGreatest
    <2>2. QED
      BY <1>1, <2>1
  <1>4. y \in DOMAIN Enabled /\ First(y)
    BY <1>3
  <1>5. Roomiest(r) = Enabled[y]
    BY DEF Roomiest
  <1> HIDE DEF y
  <1>6. /\ Enabled[y] \in ActionSet
        /\ \A k \in 1..n : r[Enabled[k]] <= r[Enabled[y]]
    BY <1>1, <1>4
  <1>7. QED
    BY <1>1, <1>5, <1>6

LEMMA NoPlanIs ==
  /\ NoCapacity \in [ActionSet -> Nat]
  /\ Unassigned \in Assignment
  /\ NoPlan \in Plan
  <1>1. NoCapacity \in [ActionSet -> Nat]
    BY DEF NoCapacity
  <1>2. Unassigned \in Assignment
    BY DEF Unassigned, Assignment
  <1>3. QED
    BY <1>1, <1>2 DEF NoPlan, Plan

\* A request starts with every capacity unused and no batch allocated.
LEMMA FreshPlan ==
  ASSUME NEW p \in Plan, p.phase \in {"idle", "loading"},
         p.remaining = p.capacity, p.used = NoCapacity, p.todo = {},
         p.given = [b \in Batches |-> Unassigned],
         NEW l
  PROVE  PlanOK(p, l)
  <1>1. \A b \in Batches : p.given[b].action = NoAction /\ p.given[b].qty = 0
    BY DEF Unassigned
  <1>2. Assigned(p) = {} /\ \A b \in Batches : ~ PassedOver(p, b)
    BY <1>1 DEF Assigned, PassedOver
  <1>3. \A a \in ActionSet : p.used[a] + p.remaining[a] = p.capacity[a]
    <2>1. \A a \in ActionSet : p.capacity[a] \in Nat /\ p.used[a] = 0
      BY DEF Plan, NoCapacity
    <2>2. QED
      BY <2>1
  <1>4. AllocationOK(p)
    BY <1>1, <1>2, <1>3 DEF AllocationOK
  <1>5. QED
    BY <1>2, <1>4 DEF PlanOK

LEMMA BeforeIsStrict ==
  ASSUME NEW b \in Batches, NEW c \in Batches, Before(b, c)
  PROVE  ~ Before(c, b)
  <1>1. /\ DaysLeft[b] \in Int /\ DaysLeft[c] \in Int
        /\ Id[b] \in Nat /\ Id[c] \in Nat
    BY ErpAssumption, PlannerAssumption
  <1>2. QED
    BY <1>1 DEF Before

\* One turn of the loop keeps the books.
LEMMA AllocatedOK ==
  ASSUME NEW p \in Plan, AllocationOK(p),
         NEW b \in p.todo, \A c \in p.todo \ {b} : Before(b, c)
  PROVE  LET q == Allocated(p, b) IN
         /\ q \in Plan /\ AllocationOK(q)
         /\ q.phase = p.phase /\ q.todo = p.todo \ {b}
         /\ Assigned(q) = Assigned(p) \cup {b}
  <1> DEFINE a == Roomiest(p.remaining)
             amount == Quantity(Stock[b], p.remaining[a])
             rem == [p.remaining EXCEPT ![a] = @ - amount]
             us == [p.used EXCEPT ![a] = @ + amount]
             share == [action |-> a, qty |-> amount]
             gv == [p.given EXCEPT ![b] = share]
             q == Allocated(p, b)
  <1>1. /\ p.remaining \in [ActionSet -> Nat] /\ p.used \in [ActionSet -> Nat]
        /\ p.capacity \in [ActionSet -> Nat]
        /\ p.todo \in SUBSET Batches /\ b \in Batches
        /\ p.given \in [Batches -> Assignment]
    BY DEF Plan
  <1>2. /\ a \in ActionSet
        /\ \A x \in ActionSet : p.remaining[x] <= p.remaining[a]
    BY <1>1, RoomiestIs
  <1> HIDE DEF a
  <1>3. /\ Stock[b] \in Nat /\ p.remaining[a] \in Nat /\ p.used[a] \in Nat
        /\ NoAction \notin ActionSet
    BY <1>1, <1>2, PlannerAssumption
  <1>4. /\ amount \in Nat /\ amount <= p.remaining[a]
        /\ amount = 0 /\ Stock[b] > 0 => p.remaining[a] = 0
        /\ p.remaining[a] = 0 => amount = 0
        /\ amount <= Stock[b]
        /\ amount < Stock[b] => p.remaining[a] - amount = 0
    BY <1>3 DEF Quantity
  <1> HIDE DEF amount
  <1>5. /\ rem \in [ActionSet -> Nat] /\ us \in [ActionSet -> Nat]
        /\ rem[a] = p.remaining[a] - amount /\ us[a] = p.used[a] + amount
        /\ \A x \in ActionSet \ {a} : rem[x] = p.remaining[x]
                                      /\ us[x] = p.used[x]
    BY <1>1, <1>2, <1>3, <1>4
  <1>6. share \in Assignment
    BY <1>2, <1>4 DEF Assignment
  <1>7. /\ share.action = a /\ share.qty = amount
    OBVIOUS
  <1> HIDE DEF share
  <1>8. /\ gv \in [Batches -> Assignment]
        /\ gv[b] = share
        /\ \A c \in Batches \ {b} : gv[c] = p.given[c]
    BY <1>1, <1>6
  <1>9. q = [p EXCEPT !.remaining = rem, !.used = us,
                      !.todo = @ \ {b}, !.given = gv]
    BY DEF Plan, Allocated, a, amount, share
  <1> HIDE DEF rem, us, gv, q
  <1>10. /\ q.remaining = rem /\ q.used = us /\ q.given = gv
         /\ q.todo = p.todo \ {b} /\ q.phase = p.phase
         /\ q.capacity = p.capacity
    BY <1>9 DEF Plan
  <1>11. q \in Plan
    BY <1>5, <1>8, <1>9 DEF Plan
  <1>12. /\ p.given[b].action = NoAction
         /\ \A c \in Batches : p.given[c].action = NoAction
                                 => p.given[c].qty = 0
         /\ \A c, d \in Batches :
              p.given[c].action # NoAction /\ d \in p.todo => Before(c, d)
         /\ \A c \in Batches : c \in p.todo => p.given[c].action = NoAction
    BY <1>1 DEF AllocationOK
  <1>13. \A c \in Batches \ {b} : PassedOver(q, c) => PassedOver(p, c)
    BY <1>8, <1>10 DEF PassedOver
  <1>14. PassedOver(q, b) => p.remaining[a] = 0
    BY <1>4, <1>7, <1>8, <1>10 DEF PassedOver
  <1>15. ASSUME NEW c \in Batches, PassedOver(q, c)
         PROVE  \A x \in ActionSet : p.remaining[x] = 0
    <2>1. CASE c = b
      <3>1. \A x \in ActionSet : p.remaining[x] \in Nat
        BY <1>1
      <3>2. QED
        BY <1>2, <1>14, <1>15, <2>1, <3>1
    <2>2. CASE c # b
      BY <1>13, <1>15, <2>2 DEF AllocationOK
    <2>3. QED
      BY <2>1, <2>2
  <1>16. \A x \in ActionSet : us[x] + rem[x] = q.capacity[x]
    <2> SUFFICES ASSUME NEW x \in ActionSet
                 PROVE  us[x] + rem[x] = q.capacity[x]
      OBVIOUS
    <2>1. /\ p.used[x] + p.remaining[x] = p.capacity[x]
          /\ p.used[x] \in Nat /\ p.remaining[x] \in Nat
          /\ p.capacity[x] \in Nat
      BY <1>1 DEF AllocationOK
    <2>2. QED
      BY <1>3, <1>4, <1>5, <1>10, <2>1
  <1>17. \A c \in Batches : gv[c].action = NoAction => gv[c].qty = 0
    BY <1>2, <1>3, <1>7, <1>8, <1>12
  <1>18. \A c \in Batches : c \in q.todo => gv[c].action = NoAction
    BY <1>8, <1>10, <1>12
  <1>19. \A c, d \in Batches :
           gv[c].action # NoAction /\ d \in q.todo => Before(c, d)
    BY <1>8, <1>10, <1>12
  <1>20. ASSUME NEW c \in Batches, PassedOver(q, c)
         PROVE  \A x \in ActionSet : rem[x] = 0
    <2>1. \A x \in ActionSet : p.remaining[x] = 0
      BY <1>15, <1>20
    <2>2. QED
      BY <1>2, <1>4, <1>5, <2>1
  <1>21. ASSUME NEW c \in Batches, NEW d \in Batches,
                PassedOver(q, c), Before(c, d)
         PROVE  gv[d].qty = 0
    <2>1. CASE d = b
      BY <1>2, <1>4, <1>7, <1>8, <1>15, <1>21, <2>1
    <2>2. CASE d # b /\ c = b
      <3>1. ~ Before(d, b)
        BY <1>1, <1>21, <2>2, BeforeIsStrict
      <3>2. p.given[d].action = NoAction
        BY <1>1, <1>12, <3>1
      <3>3. QED
        BY <1>8, <1>12, <2>2, <3>2
    <2>3. CASE d # b /\ c # b
      <3>1. PassedOver(p, c)
        BY <1>13, <1>21, <2>3
      <3>2. p.given[d].qty = 0
        BY <1>21, <3>1 DEF AllocationOK
      <3>3. QED
        BY <1>8, <2>3, <3>2
    <2>4. QED
      BY <2>1, <2>2, <2>3
  <1>22. ASSUME NEW c \in Batches, q.given[c].action # NoAction
         PROVE  ShareOK(q, c)
    <2>1. CASE c = b
      BY <1>4, <1>5, <1>7, <1>8, <1>10, <2>1 DEF ShareOK
    <2>2. CASE c # b
      <3>1. q.given[c] = p.given[c] /\ ShareOK(p, c)
        BY <1>8, <1>10, <1>22, <2>2 DEF AllocationOK
      <3>2. p.given[c].action \in ActionSet
        BY <1>1, <1>22, <3>1 DEF Assignment
      <3>3. p.remaining[p.given[c].action] = 0 => rem[p.given[c].action] = 0
        BY <1>4, <1>5, <3>2
      <3>4. QED
        BY <1>10, <3>1, <3>3 DEF ShareOK
    <2>3. QED
      BY <2>1, <2>2
  <1>23. AllocationOK(q)
    BY <1>10, <1>16, <1>17, <1>18, <1>19, <1>20, <1>21, <1>22 DEF AllocationOK
  <1>24. Assigned(q) = Assigned(p) \cup {b}
    BY <1>1, <1>2, <1>3, <1>7, <1>8, <1>10 DEF Assigned
  <1>25. QED
    BY <1>10, <1>11, <1>23, <1>24 DEF q

\* Another phase, or a list of batches for a plan that has none yet, leaves
\* the books as they are.
LEMMA PhasePlan ==
  ASSUME NEW p \in Plan, NEW q \in Plan, AllocationOK(p),
         q.capacity = p.capacity, q.remaining = p.remaining,
         q.used = p.used, q.given = p.given,
         q.todo = p.todo \/ Assigned(p) = {}
  PROVE  AllocationOK(q) /\ Assigned(q) = Assigned(p)
  <1>1. Assigned(q) = Assigned(p)
        /\ \A b \in Batches : PassedOver(q, b) <=> PassedOver(p, b)
    BY DEF Assigned, PassedOver
  <1>2. /\ \A b \in Batches : b \in q.todo => q.given[b].action = NoAction
        /\ \A b, c \in Batches :
             q.given[b].action # NoAction /\ c \in q.todo => Before(b, c)
    <2>1. CASE q.todo = p.todo
      BY <2>1 DEF AllocationOK
    <2>2. CASE Assigned(p) = {}
      BY <2>2 DEF Assigned
    <2>3. QED
      BY <2>1, <2>2
  <1>3. AllocationOK(q)
    BY <1>1, <1>2 DEF AllocationOK, ShareOK
  <1>4. QED
    BY <1>1, <1>3

LEMMA PlanFrame ==
  ASSUME PlanInv, NEW j \in Planners, NEW p,
         plan' = [plan EXCEPT ![j] = p], PlanOK(p, load'[j]),
         \A k \in Planners \ {j} : load'[k] = load[k]
  PROVE  PlanInv'
  <1>1. p \in Plan /\ plan \in [Planners -> Plan]
    BY DEF PlanOK, PlanInv, PlanTypeOK
  <1>2. PlanTypeOK'
    BY <1>1 DEF PlanTypeOK
  <1>3. ASSUME NEW k \in Planners
        PROVE  PlanOK(plan'[k], load'[k])
    <2>1. CASE k = j
      BY <1>1, <2>1
    <2>2. CASE k # j
      <3>1. plan'[k] = plan[k] /\ load'[k] = load[k]
        BY <1>1, <2>2
      <3>2. QED
        BY <3>1 DEF PlanInv
    <2>3. QED
      BY <2>1, <2>2
  <1>4. QED
    BY <1>2, <1>3 DEF PlanInv

\* A plan depends on a load that has ended well, and on no other.
LEMMA PlanStill ==
  ASSUME PlanInv, plan' = plan,
         \A k \in Planners : load[k].phase # "loaded" \/ load'[k] = load[k]
  PROVE  PlanInv'
  <1>1. ASSUME NEW k \in Planners
        PROVE  PlanOK(plan[k], load'[k])
    <2>1. PlanOK(plan[k], load[k])
      BY DEF PlanInv
    <2>2. QED
      BY <2>1 DEF PlanOK
  <1>2. QED
    BY <1>1 DEF PlanInv, PlanTypeOK

LEMMA PlanInvInit == PlanInit => PlanInv
  <1> SUFFICES ASSUME PlanInit
               PROVE  PlanInv
    OBVIOUS
  <1>1. PlanTypeOK
    BY NoPlanIs DEF PlanInit, PlanTypeOK
  <1>2. \A l : PlanOK(NoPlan, l)
    <2>1. /\ NoPlan \in Plan /\ NoPlan.phase = "idle"
          /\ NoPlan.remaining = NoPlan.capacity /\ NoPlan.used = NoCapacity
          /\ NoPlan.todo = {} /\ NoPlan.given = [b \in Batches |-> Unassigned]
      BY NoPlanIs DEF NoPlan
    <2>2. QED
      BY <2>1, FreshPlan
  <1>3. QED
    BY <1>1, <1>2 DEF PlanInit, PlanInv

LEMMA PlanInvRequest ==
  ASSUME ErpInv, PlanInv, NEW j \in Planners, Request(j)
  PROVE  PlanInv'
  <1>1. PICK capacity \in Capacities :
          plan' = [plan EXCEPT ![j] = [NoPlan EXCEPT !.phase = "loading",
                                                     !.capacity = capacity,
                                                     !.remaining = capacity]]
    BY DEF Request
  <1> DEFINE p == [NoPlan EXCEPT !.phase = "loading", !.capacity = capacity,
                                 !.remaining = capacity]
  <1>2. PlanOK(p, load'[j])
    <2>1. capacity \in [ActionSet -> Nat]
      BY PlannerAssumption
    <2>2. /\ p.phase = "loading" /\ p.capacity = capacity
          /\ p.remaining = capacity /\ p.used = NoCapacity
          /\ p.todo = {} /\ p.given = [b \in Batches |-> Unassigned]
      BY DEF NoPlan
    <2>3. p \in Plan
      BY <2>1, NoPlanIs DEF NoPlan, Plan
    <2> HIDE DEF p
    <2>4. QED
      BY <2>2, <2>3, FreshPlan
  <1>3. \A k \in Planners \ {j} : load'[k] = load[k]
    BY PlannerAssumption DEF Request, ErpInv, ErpTypeOK
  <1>4. plan' = [plan EXCEPT ![j] = p]
    BY <1>1
  <1> HIDE DEF p
  <1>5. QED
    BY <1>2, <1>3, <1>4, PlanFrame

LEMMA PlanInvWork ==
  ASSUME ErpInv, PlanInv, NEW j \in Planners,
         Refuse(j) \/ StartAllocation(j) \/ Allocate(j) \/ Conclude(j)
  PROVE  PlanInv'
  <1> DEFINE p == plan[j]
             l == load[j]
  <1>1. /\ plan \in [Planners -> Plan] /\ p \in Plan
        /\ PlanOK(p, l) /\ AllocationOK(p)
        /\ p.todo \in SUBSET Batches
    BY DEF PlanInv, PlanTypeOK, PlanOK, Plan
  <1>2. load' = load
    BY DEF Refuse, StartAllocation, Allocate, Conclude, erpVars
  <1>3. ASSUME NEW q, plan' = [plan EXCEPT ![j] = q], PlanOK(q, l)
        PROVE  PlanInv'
    <2>1. PlanOK(q, load'[j]) /\ \A k \in Planners \ {j} : load'[k] = load[k]
      BY <1>2, <1>3
    <2>2. QED
      BY <1>3, <2>1, PlanFrame
  <1>4. ASSUME NEW phase \in {"idle", "loading", "allocating", "saved",
                              "refused"},
               NEW todo \in SUBSET Batches,
               todo = p.todo \/ Assigned(p) = {},
               plan' = [plan EXCEPT ![j] = [p EXCEPT !.phase = phase,
                                                     !.todo = todo]],
               \/ phase = "refused"
               \/ /\ phase \in {"allocating", "saved"}
                  /\ l.phase = "loaded"
                  /\ Assigned(p) \cup todo = ToSet(l.batches)
                  /\ phase = "saved" => todo = {}
        PROVE  PlanInv'
    <2> DEFINE q == [p EXCEPT !.phase = phase, !.todo = todo]
    <2>1. /\ q \in Plan /\ AllocationOK(q)
          /\ q.phase = phase /\ q.todo = todo /\ Assigned(q) = Assigned(p)
      <3>1. /\ q.phase = phase /\ q.todo = todo
            /\ q.capacity = p.capacity /\ q.remaining = p.remaining
            /\ q.used = p.used /\ q.given = p.given
        BY <1>1 DEF Plan
      <3>2. q \in Plan
        BY <1>1 DEF Plan
      <3> HIDE DEF p, l, q
      <3>3. QED
        BY <1>1, <1>4, <3>1, <3>2, PhasePlan
    <2>2. plan' = [plan EXCEPT ![j] = q]
      BY <1>4
    <2> HIDE DEF q, p, l
    <2>3. PlanOK(q, l)
      BY <1>4, <2>1 DEF PlanOK
    <2>4. QED
      BY <1>3, <2>2, <2>3
  <1>5. \A phase : [p EXCEPT !.phase = phase]
                     = [p EXCEPT !.phase = phase, !.todo = p.todo]
    BY <1>1 DEF Plan
  <1>6. CASE Refuse(j)
    <2>1. plan' = [plan EXCEPT ![j] = [p EXCEPT !.phase = "refused"]]
      BY <1>6 DEF Refuse
    <2>2. plan' = [plan EXCEPT ![j] = [p EXCEPT !.phase = "refused",
                                                !.todo = p.todo]]
      BY <1>5, <2>1
    <2> HIDE DEF p, l
    <2>3. QED
      BY <1>1, <1>4, <2>2
  <1>7. CASE StartAllocation(j)
    <2>1. /\ plan' = [plan EXCEPT ![j] = [p EXCEPT !.phase = "allocating",
                                                   !.todo = ToSet(l.batches)]]
          /\ p.phase = "loading" /\ l.phase = "loaded"
      BY <1>7 DEF StartAllocation
    <2>2. Assigned(p) = {}
      BY <1>1, <2>1 DEF PlanOK
    <2>3. ToSet(l.batches) \in SUBSET Batches
      <3>1. l.batches \in Seq(Batches)
        BY PlannerAssumption, LoadFields DEF ErpInv, ErpTypeOK
      <3>2. QED
        BY <3>1, LenProperties DEF ToSet
    <2>4. Assigned(p) \cup ToSet(l.batches) = ToSet(l.batches)
      BY <2>2
    <2> HIDE DEF p, l
    <2>5. QED
      BY <1>4, <2>1, <2>2, <2>3, <2>4
  <1>8. CASE Allocate(j)
    <2>1. PICK b \in p.todo :
            /\ \A c \in p.todo \ {b} : Before(b, c)
            /\ plan' = [plan EXCEPT ![j] = Allocated(p, b)]
            /\ p.phase = "allocating"
      BY <1>8 DEF Allocate
    <2> DEFINE q == Allocated(p, b)
    <2> HIDE DEF p, l
    <2>2. /\ q \in Plan /\ AllocationOK(q)
          /\ q.phase = p.phase /\ q.todo = p.todo \ {b}
          /\ Assigned(q) = Assigned(p) \cup {b}
      BY <1>1, <2>1, AllocatedOK
    <2>3. plan' = [plan EXCEPT ![j] = q]
      BY <2>1
    <2> HIDE DEF q
    <2>4. PlanOK(q, l)
      BY <1>1, <2>1, <2>2 DEF PlanOK
    <2>5. QED
      BY <1>3, <2>3, <2>4
  <1>9. CASE Conclude(j)
    <2>1. PICK phase \in {"saved", "refused"} :
            plan' = [plan EXCEPT ![j] = [p EXCEPT !.phase = phase]]
      BY <1>9 DEF Conclude
    <2>2. plan' = [plan EXCEPT ![j] = [p EXCEPT !.phase = phase,
                                                !.todo = p.todo]]
      BY <1>5, <2>1
    <2>3. p.phase = "allocating" /\ p.todo = {}
      BY <1>9 DEF Conclude
    <2>4. l.phase = "loaded" /\ Assigned(p) \cup p.todo = ToSet(l.batches)
      BY <1>1, <2>3 DEF PlanOK
    <2> HIDE DEF p, l
    <2>5. QED
      BY <1>1, <1>4, <2>2, <2>3, <2>4
  <1>10. QED
    BY <1>6, <1>7, <1>8, <1>9

(***************************************************************************)
(* The invariant of the composition                                        *)
(***************************************************************************)

PipelineInv == ErpInv /\ ScanInv /\ PlanInv

LEMMA PipelineInvInit == Init => PipelineInv
  BY ErpInvInit, ScanInvInit, PlanInvInit DEF Init, PipelineInv

LEMMA ErpStepKeeps ==
  ASSUME PipelineInv, ErpStep
  PROVE  PipelineInv'
  <1>1. ErpInv /\ ScanInv /\ PlanInv
    BY DEF PipelineInv
  <1>2. ErpNext /\ UNCHANGED scanVars /\ plan' = plan
    BY DEF ErpStep
  <1>3. ErpInv'
    BY <1>1, <1>2, ErpInvNext
  <1>4. \A k \in Jobs : load[k].phase # "loaded" \/ load'[k] = load[k]
    BY <1>1, <1>2, LoadsOfErp
  <1>5. ScanInv'
    <2>1. \A k \in Scanners : load[k].phase # "loaded" \/ load'[k] = load[k]
      BY <1>4, ScanAssumption
    <2>2. QED
      BY <1>1, <1>2, <2>1, ScanInvErp
  <1>6. PlanInv'
    <2>1. \A k \in Planners : load[k].phase # "loaded" \/ load'[k] = load[k]
      BY <1>4, PlannerAssumption
    <2>2. QED
      BY <1>1, <1>2, <2>1, PlanStill
  <1>7. QED
    BY <1>3, <1>5, <1>6 DEF PipelineInv

LEMMA ScanStepKeeps ==
  ASSUME PipelineInv, NEW j \in Scanners, ScanStep(j)
  PROVE  PipelineInv'
  <1>1. ErpInv /\ ScanInv /\ PlanInv /\ j \in Jobs /\ load \in [Jobs -> Load]
    BY ScanAssumption DEF PipelineInv, ErpInv, ErpTypeOK
  <1>2. plan' = plan /\ (Begin(j) \/ Proceed(j) \/ Die(j))
    BY DEF ScanStep
  <1>3. /\ UNCHANGED <<rows, moves>>
        /\ \/ load' = [load EXCEPT ![j] = NewLoad]
           \/ load' = [load EXCEPT ![j] = NoLoad]
           \/ load' = load
    <2>1. CASE Begin(j)
      BY <2>1 DEF Begin
    <2>2. CASE Die(j)
      BY <2>2 DEF Die
    <2>3. CASE Proceed(j)
      BY <2>3 DEF Proceed, LoadFailed, Classify, Classified, Ask, Gathered,
                  SaveNext, SaveFails, Saved, PushNext, PushBreaks, Pushed,
                  Answer, erpVars
    <2>4. QED
      BY <1>2, <2>1, <2>2, <2>3
  <1>4. ErpInv'
    BY <1>1, <1>3, ErpInvJob
  <1>5. ScanInv'
    BY <1>1, <1>2, ScanInvBegin, ScanInvQuiet, ScanInvSave, ScanInvPush,
       ScanInvFails DEF Proceed
  <1>6. PlanInv'
    <2>1. \A k \in Planners : k \in Jobs /\ k # j
      BY JobsAssumption, PlannerAssumption
    <2>2. \A k \in Planners : load'[k] = load[k]
      BY <1>1, <1>3, <2>1
    <2>3. QED
      BY <1>1, <1>2, <2>2, PlanStill
  <1>7. QED
    BY <1>4, <1>5, <1>6 DEF PipelineInv

LEMMA PlanStepKeeps ==
  ASSUME PipelineInv, NEW j \in Planners, PlanStep(j)
  PROVE  PipelineInv'
  <1>1. ErpInv /\ ScanInv /\ PlanInv /\ j \in Jobs /\ load \in [Jobs -> Load]
    BY PlannerAssumption DEF PipelineInv, ErpInv, ErpTypeOK
  <1>2. /\ UNCHANGED scanVars
        /\ \/ Request(j) \/ Refuse(j) \/ StartAllocation(j)
           \/ Allocate(j) \/ Conclude(j)
    BY DEF PlanStep
  <1>3. /\ UNCHANGED <<rows, moves>>
        /\ load' = [load EXCEPT ![j] = NewLoad] \/ load' = load
    BY <1>2 DEF Request, Refuse, StartAllocation, Allocate, Conclude, erpVars
  <1>4. ErpInv'
    BY <1>1, <1>3, ErpInvJob
  <1>5. ScanInv'
    <2>1. \A k \in Scanners : k \in Jobs /\ k # j
      BY JobsAssumption, ScanAssumption
    <2>2. \A k \in Scanners : load'[k] = load[k]
      BY <1>1, <1>3, <2>1
    <2>3. QED
      BY <1>1, <1>2, <2>2, ScanInvErp
  <1>6. PlanInv'
    BY <1>1, <1>2, PlanInvRequest, PlanInvWork
  <1>7. QED
    BY <1>4, <1>5, <1>6 DEF PipelineInv

LEMMA PipelineInvNext == PipelineInv /\ [Next]_pipelineVars => PipelineInv'
  <1> SUFFICES ASSUME PipelineInv, [Next]_pipelineVars
               PROVE  PipelineInv'
    OBVIOUS
  <1>1. CASE Next
    BY <1>1, ErpStepKeeps, ScanStepKeeps, PlanStepKeeps DEF Next
  <1>2. CASE UNCHANGED pipelineVars
    <2>1. /\ UNCHANGED <<rows, moves, load>> /\ UNCHANGED scanVars
          /\ plan' = plan /\ load' = load
      BY <1>2 DEF pipelineVars, erpVars
    <2>2. ErpInv /\ ScanInv /\ PlanInv
      BY DEF PipelineInv
    <2>3. ErpInv'
      BY <2>1, <2>2 DEF ErpInv, ErpTypeOK, LoadOK
    <2>4. ScanInv'
      BY <2>1, <2>2, ScanInvErp
    <2>5. PlanInv'
      BY <2>1, <2>2, PlanStill
    <2>6. QED
      BY <2>3, <2>4, <2>5 DEF PipelineInv
  <1>3. QED
    BY <1>1, <1>2

LEMMA Invariance == Spec => []PipelineInv
  BY PipelineInvInit, PipelineInvNext, PTL DEF Spec

(***************************************************************************)
(* Theorems                                                                *)
(***************************************************************************)

\* The loads, the attempts, their tallies and the plans stay within their
\* types: a scan never has more LLM calls in flight than its semaphore
\* admits, and no batch is stored more often than it was tried.
THEOREM TypeCorrect == Spec => []TypeOK
  <1>1. PipelineInv => TypeOK
    <2> SUFFICES ASSUME PipelineInv
                 PROVE  TypeOK
      OBVIOUS
    <2>1. ErpTypeOK /\ PlanTypeOK /\ ScanInv /\ Tallies
      BY DEF PipelineInv, ErpInv, PlanInv, ScanInv
    <2>2. \A j \in Scanners : Cardinality(scan[j].waiting) <= MaxConcurrency
      BY <2>1 DEF ScanInv, ScanOK, AttemptOK, AnswersOK
    <2>3. \A j \in Scanners, b \in Batches : stored[j][b] <= scan[j].tries
      BY <2>1 DEF ScanInv, ScanOK, BatchOK
    <2>4. ScanTypeOK
      BY <2>1, <2>2, <2>3 DEF ScanTypeOK, Tallies
    <2>5. QED
      BY <2>1, <2>4 DEF TypeOK
  <1>2. QED
    BY <1>1, Invariance, PTL

\* However many pages a load takes and however often one fails, the batches
\* it returns are the ERP's rows, as long as the ERP stood still.
THEOREM LoadTheorem == Spec => []LoadIsWhole
  <1>1. PipelineInv => LoadIsWhole
    BY DEF PipelineInv, ErpInv, LoadOK, LoadIsWhole
  <1>2. QED
    BY <1>1, Invariance, PTL

\* A scan that is done has a suggestion or an error for every batch the ERP
\* listed throughout the load and that is within the yellow threshold.
THEOREM CoverageTheorem == Spec => []NoBatchForgotten
  <1>1. PipelineInv => NoBatchForgotten
    <2> SUFFICES ASSUME PipelineInv, NEW j \in Scanners,
                        scan[j].phase = "done", load[j].steady,
                        NEW b \in ToSet(load[j].listed), DaysLeft[b] <= Yellow
                 PROVE  stored[j][b] > 0 \/ scan[j].outcome[b] = "error"
      BY DEF NoBatchForgotten
    <2>1. /\ ErpInv /\ AttemptOK(scan[j], load[j])
          /\ \A c \in Batches : BatchOK(scan[j], stored[j][c], cards[j][c], c)
          /\ j \in Jobs
      BY ScanAssumption DEF PipelineInv, ScanInv, ScanOK
    <2>2. /\ load[j].phase = "loaded"
          /\ AlertSet(scan[j]) = {c \in ToSet(load[j].batches) : Alerted(c)}
      BY <2>1 DEF AttemptOK, AlertsOK, Working
    <2>3. load[j].batches = load[j].listed
      BY <2>1, <2>2 DEF ErpInv, LoadOK
    <2>4. b \in Batches
      <3>1. load[j].listed \in Seq(Batches)
        BY <2>1, LoadFields DEF ErpInv, ErpTypeOK
      <3>2. QED
        BY <3>1, LenProperties DEF ToSet
    <2>5. Alerted(b)
      BY <2>4, ErpAssumption, ScanAssumption DEF Alerted, Severity
    <2>6. Dealt(scan[j], b)
      BY <2>2, <2>3, <2>5 DEF Dealt
    <2>7. QED
      BY <2>1, <2>4, <2>6 DEF BatchOK
  <1>2. QED
    BY <1>1, Invariance, PTL

\* Every card has its suggestion in the store, and a batch has one card more
\* than attempts were cut off while pushing, at most.
THEOREM CardTheorem == Spec => []CardsMatchStore
  <1>1. PipelineInv => CardsMatchStore
    BY DEF PipelineInv, ScanInv, ScanOK, BatchOK, CardsMatchStore
  <1>2. QED
    BY <1>1, Invariance, PTL

\* No plan gives an action more than its capacity, for any stock, capacities
\* and order of the batches.
THEOREM CapacityTheorem == Spec => []CapacityRespected
  <1>1. PipelineInv => CapacityRespected
    <2> SUFFICES ASSUME PipelineInv, NEW j \in Planners, NEW a \in ActionSet
                 PROVE  plan[j].used[a] <= plan[j].capacity[a]
      BY DEF CapacityRespected
    <2>1. plan[j] \in Plan /\ AllocationOK(plan[j])
      BY DEF PipelineInv, PlanInv, PlanOK
    <2>2. /\ plan[j].used[a] \in Nat /\ plan[j].remaining[a] \in Nat
          /\ plan[j].capacity[a] \in Nat
      BY <2>1 DEF Plan
    <2>3. plan[j].used[a] + plan[j].remaining[a] = plan[j].capacity[a]
      BY <2>1 DEF AllocationOK
    <2>4. QED
      BY <2>2, <2>3
  <1>2. QED
    BY <1>1, Invariance, PTL

\* Once a batch got nothing, none that expires later gets anything: nothing
\* was left in any action.
THEOREM OrderTheorem == Spec => []NoneOvertaken
  <1>1. PipelineInv => NoneOvertaken
    BY DEF PipelineInv, PlanInv, PlanOK, AllocationOK, NoneOvertaken
  <1>2. QED
    BY <1>1, Invariance, PTL

\* A saved plan assigns exactly the batches of an ERP that stood still.
THEOREM StockTheorem == Spec => []PlanCoversStock
  <1>1. PipelineInv => PlanCoversStock
    <2> SUFFICES ASSUME PipelineInv, NEW j \in Planners,
                        plan[j].phase = "saved", load[j].steady
                 PROVE  Assigned(plan[j]) = ToSet(load[j].listed)
      BY DEF PlanCoversStock, Assigned
    <2>1. PlanOK(plan[j], load[j]) /\ LoadOK(load[j])
      BY PlannerAssumption DEF PipelineInv, PlanInv, ErpInv
    <2>2. /\ load[j].phase = "loaded" /\ plan[j].todo = {}
          /\ Assigned(plan[j]) \cup plan[j].todo = ToSet(load[j].batches)
      BY <2>1 DEF PlanOK
    <2>3. load[j].batches = load[j].listed
      BY <2>1, <2>2 DEF LoadOK
    <2>4. QED
      BY <2>2, <2>3
  <1>2. QED
    BY <1>1, Invariance, PTL

\* What a plan gives of a batch: at most its stock, and less only when the
\* action it was given to is used up.
SharesAreFull ==
  \A j \in Planners, b \in Batches :
    plan[j].given[b].action # NoAction => ShareOK(plan[j], b)

\* No plan gives away stock a batch does not have, and none leaves stock
\* beside capacity of its own action, for any stocks and capacities.
THEOREM ShareTheorem == Spec => []SharesAreFull
  <1>1. PipelineInv => SharesAreFull
    BY DEF PipelineInv, PlanInv, PlanOK, AllocationOK, SharesAreFull
  <1>2. QED
    BY <1>1, Invariance, PTL

(***************************************************************************)
(* Progress: what a scan and a load have behind them only grows, and is    *)
(* bounded, so neither can go on for ever.  With the fairness of Pipeline  *)
(* this is why ScansEnd holds.                                             *)
(***************************************************************************)

\* How far an attempt is.
Stage == [queued |-> 0, loading |-> 1, asking |-> 2, saving |-> 3,
          pushing |-> 4, done |-> 5, failed |-> 5, lost |-> 5]

\* The attempt t is ahead of s: by attempts, phases, items, calls, answers.
Ahead(s, t) ==
  \/ t.tries > s.tries
  \/ t.tries = s.tries /\ Stage[t.phase] > Stage[s.phase]
  \/ /\ t.tries = s.tries /\ t.phase = s.phase
     /\ \/ t.next > s.next
        \/ t.next = s.next /\ t.asked > s.asked
        \/ /\ t.next = s.next /\ t.asked = s.asked
           /\ t.waiting \subseteq s.waiting /\ t.waiting # s.waiting

ScansAdvance ==
  [][\A j \in Scanners : scan'[j] # scan[j] => Ahead(scan[j], scan'[j])]_pipelineVars

\* A scan has no more attempts than an error may make it take and one for
\* every process that died under it.
TriesBounded ==
  \A j \in Scanners :
    /\ scan[j].tries <= MaxAttempts + deaths[j]
    /\ scan[j].phase = "lost" => scan[j].tries < MaxAttempts + deaths[j]

\* What a scan and its attempt may have behind them.
AttemptsBounded ==
  \A j \in Scanners :
    /\ scan[j].tries <= MaxAttempts + deaths[j]
    /\ scan[j].phase = "loading" =>
         scan[j].next = 1 \/ scan[j].next <= Len(load[j].batches) + 1
    /\ scan[j].phase \in {"asking", "saving", "pushing"} =>
         /\ scan[j].next <= Len(scan[j].alerts) + 1
         /\ scan[j].asked <= Len(scan[j].alerts)
         /\ Cardinality(scan[j].waiting) <= MaxConcurrency

\* A step of a scan puts it ahead and leaves the other scans alone.
LEMMA ScanMoves ==
  ASSUME ScanInv, NEW j \in Scanners, Begin(j) \/ Proceed(j) \/ Die(j)
  PROVE  /\ Ahead(scan[j], scan'[j])
         /\ \A k \in Scanners \ {j} : scan'[k] = scan[k]
  <1>1. scan \in [Scanners -> Attempt] /\ scan[j] \in Attempt
    BY DEF ScanInv, Tallies
  <1>2. /\ scan[j].tries \in Nat /\ scan[j].next \in Nat /\ scan[j].asked \in Nat
        /\ scan[j].waiting \in SUBSET Batches
    BY <1>1, AttemptFields
  <1>3. CASE Begin(j)
    <2>1. scan'[j] = NewAttempt(scan[j].tries + 1, scan[j].cuts)
      BY <1>1, <1>3 DEF Begin
    <2>2. scan'[j].tries = scan[j].tries + 1
      BY <2>1 DEF NewAttempt
    <2>3. QED
      BY <1>1, <1>2, <1>3, <2>2 DEF Begin, Ahead
  <1>4. CASE LoadFailed(j) \/ Classified(j) \/ Gathered(j) \/ SaveFails(j)
             \/ Saved(j) \/ PushBreaks(j) \/ Pushed(j) \/ Die(j)
    <2>1. /\ scan'[j].tries = scan[j].tries
          /\ Stage[scan'[j].phase] > Stage[scan[j].phase]
      BY <1>1, <1>4 DEF LoadFailed, Classified, Gathered, SaveFails, Saved,
           PushBreaks, Pushed, Die, Stage, Attempt
    <2>2. QED
      BY <1>1, <1>4, <2>1 DEF LoadFailed, Classified, Gathered, SaveFails,
           Saved, PushBreaks, Pushed, Die, Ahead
  <1>5. CASE Classify(j) \/ SaveNext(j) \/ PushNext(j)
    <2>1. /\ scan'[j].tries = scan[j].tries /\ scan'[j].phase = scan[j].phase
          /\ scan'[j].next = scan[j].next + 1
      BY <1>1, <1>5 DEF Classify, SaveNext, PushNext, Attempt
    <2>2. QED
      BY <1>1, <1>2, <1>5, <2>1 DEF Classify, SaveNext, PushNext, Ahead
  <1>6. CASE Ask(j)
    <2>1. /\ scan'[j].tries = scan[j].tries /\ scan'[j].phase = scan[j].phase
          /\ scan'[j].next = scan[j].next /\ scan'[j].asked = scan[j].asked + 1
      BY <1>1, <1>6 DEF Ask, Attempt
    <2>2. QED
      BY <1>1, <1>2, <1>6, <2>1 DEF Ask, Ahead
  <1>7. ASSUME NEW b \in Batches, Answer(j, b)
        PROVE  /\ Ahead(scan[j], scan'[j])
               /\ \A k \in Scanners \ {j} : scan'[k] = scan[k]
    <2>1. PICK o \in {"suggestion", "error"} :
            scan' = [scan EXCEPT ![j].waiting = @ \ {b}, ![j].outcome[b] = o]
      BY <1>7 DEF Answer
    <2>2. /\ scan'[j].tries = scan[j].tries /\ scan'[j].phase = scan[j].phase
          /\ scan'[j].next = scan[j].next /\ scan'[j].asked = scan[j].asked
          /\ scan'[j].waiting = scan[j].waiting \ {b}
      BY <1>1, <2>1 DEF Attempt
    <2>3. b \in scan[j].waiting
      BY <1>7 DEF Answer
    <2>4. QED
      BY <1>1, <2>1, <2>2, <2>3 DEF Ahead
  <1>8. QED
    BY <1>3, <1>4, <1>5, <1>6, <1>7 DEF Proceed

\* No step takes a scan back: within an attempt it only comes to later
\* batches, calls and answers, and to an earlier phase only by a new attempt.
THEOREM ScanAdvanceTheorem == Spec => ScansAdvance
  <1>1. ASSUME PipelineInv, [Next]_pipelineVars, NEW j \in Scanners,
               scan'[j] # scan[j]
        PROVE  Ahead(scan[j], scan'[j])
    <2>1. ScanInv
      BY <1>1 DEF PipelineInv
    <2>2. PICK k \in Scanners : Begin(k) \/ Proceed(k) \/ Die(k)
      BY <1>1 DEF Next, ErpStep, PlanStep, ScanStep, pipelineVars, scanVars
    <2>3. k = j
      BY <1>1, <2>1, <2>2, ScanMoves
    <2>4. QED
      BY <2>1, <2>2, <2>3, ScanMoves
  <1>2. PipelineInv /\ [Next]_pipelineVars =>
          \A j \in Scanners : scan'[j] # scan[j] => Ahead(scan[j], scan'[j])
    BY <1>1
  <1>3. QED
    BY <1>2, Invariance, PTL DEF Spec, ScansAdvance

\* An attempt begins only in the scan's bound, and a death raises it.
LEMMA TriesBoundedStep ==
  PipelineInv /\ TriesBounded /\ [Next]_pipelineVars => TriesBounded'
  <1> SUFFICES ASSUME PipelineInv, TriesBounded, [Next]_pipelineVars
               PROVE  TriesBounded'
    OBVIOUS
  <1>1. /\ scan \in [Scanners -> Attempt] /\ deaths \in [Scanners -> 0..MaxDeaths]
        /\ ScanInv
    BY DEF PipelineInv, ScanInv, Tallies
  <1>2. CASE UNCHANGED scanVars
    BY <1>2 DEF scanVars, TriesBounded
  <1>3. ASSUME NEW j \in Scanners, ScanStep(j)
        PROVE  TriesBounded'
    <2>1. /\ scan[j].tries \in Nat /\ deaths[j] \in Nat
          /\ MaxAttempts \in Nat \ {0} /\ MaxDeaths \in Nat
          /\ AttemptOK(scan[j], load[j])
          /\ scan[j].tries <= MaxAttempts + deaths[j]
          /\ scan[j].phase = "lost" => scan[j].tries < MaxAttempts + deaths[j]
      BY <1>1, AttemptFields, ScanAssumption DEF ScanInv, ScanOK, TriesBounded
    <2>2. /\ \A k \in Scanners \ {j} : scan'[k] = scan[k] /\ deaths'[k] = deaths[k]
          /\ scan'[j].tries <= MaxAttempts + deaths'[j]
          /\ scan'[j].phase = "lost" => scan'[j].tries < MaxAttempts + deaths'[j]
      <3>1. \A k \in Scanners \ {j} : scan'[k] = scan[k]
        BY <1>1, <1>3, ScanMoves DEF ScanStep
      <3>2. CASE Begin(j)
        <4>1. /\ scan'[j].tries = scan[j].tries + 1 /\ scan'[j].phase = "loading"
              /\ deaths' = deaths
          BY <1>1, <3>2 DEF Begin, NewAttempt
        <4>2. \/ scan[j].tries = 0 \/ scan[j].phase = "lost"
              \/ scan[j].tries < MaxAttempts
          BY <2>1, <3>2 DEF Begin, AttemptOK
        <4>3. QED
          BY <2>1, <3>1, <4>1, <4>2
      <3>3. CASE Die(j)
        <4>1. /\ scan'[j].tries = scan[j].tries /\ deaths'[j] = deaths[j] + 1
              /\ \A k \in Scanners \ {j} : deaths'[k] = deaths[k]
          BY <1>1, <3>3 DEF Die, Attempt
        <4>2. QED
          BY <2>1, <3>1, <4>1
      <3>4. CASE Proceed(j)
        <4>1. deaths' = deaths
          BY <3>4 DEF Proceed, LoadFailed, Classify, Classified, Ask, Gathered,
               SaveNext, SaveFails, Saved, PushNext, PushBreaks, Pushed, Answer
        <4>2. scan'[j].tries = scan[j].tries /\ scan'[j].phase # "lost"
          <5>1. CASE \E b \in Batches : Answer(j, b)
            <6>1. PICK b \in Batches : Answer(j, b)
              BY <5>1
            <6>2. PICK o \in {"suggestion", "error"} :
                    scan' = [scan EXCEPT ![j].waiting = @ \ {b},
                                         ![j].outcome[b] = o]
              BY <6>1 DEF Answer
            <6>3. QED
              BY <1>1, <6>1, <6>2 DEF Answer, Attempt
          <5>2. CASE LoadFailed(j) \/ SaveFails(j) \/ PushBreaks(j)
            BY <1>1, <5>2 DEF LoadFailed, SaveFails, PushBreaks, Attempt
          <5>3. CASE Classify(j) \/ Classified(j) \/ Ask(j) \/ Gathered(j)
            BY <1>1, <5>3 DEF Classify, Classified, Ask, Gathered, Attempt
          <5>4. CASE SaveNext(j) \/ Saved(j) \/ PushNext(j) \/ Pushed(j)
            BY <1>1, <5>4 DEF SaveNext, Saved, PushNext, Pushed, Attempt
          <5>5. QED
            BY <3>4, <5>1, <5>2, <5>3, <5>4 DEF Proceed
        <4>3. QED
          BY <2>1, <3>1, <4>1, <4>2
      <3>5. QED
        BY <1>3, <3>2, <3>3, <3>4 DEF ScanStep
    <2>3. QED
      BY <2>2 DEF TriesBounded
  <1>4. QED
    BY <1>2, <1>3 DEF Next, ErpStep, PlanStep, pipelineVars, scanVars

\* What a scan can have behind it: attempts that failed by an error up to
\* their bound, one more for each process that died under it, and in its
\* present attempt its batches and its alerts.  A scan whose processes keep
\* dying is begun again each time.
THEOREM ScanBoundTheorem == Spec => []AttemptsBounded
  <1>1. ASSUME PipelineInv, TriesBounded, NEW j \in Scanners
        PROVE  /\ scan[j].tries <= MaxAttempts + deaths[j]
               /\ scan[j].phase = "loading" =>
                    scan[j].next = 1 \/ scan[j].next <= Len(load[j].batches) + 1
               /\ scan[j].phase \in {"asking", "saving", "pushing"} =>
                    /\ scan[j].next <= Len(scan[j].alerts) + 1
                    /\ scan[j].asked <= Len(scan[j].alerts)
                    /\ Cardinality(scan[j].waiting) <= MaxConcurrency
    <2>1. AttemptOK(scan[j], load[j])
      BY <1>1 DEF PipelineInv, ScanInv, ScanOK
    <2>2. /\ scan[j].tries <= MaxAttempts + deaths[j]
          /\ Len(scan[j].alerts) \in Nat
      BY <1>1, <2>1, AttemptFields DEF AttemptOK, TriesBounded
    <2>3. QED
      BY <2>1, <2>2 DEF AttemptOK, AlertsOK, AnswersOK, Working
  <1>2. PipelineInv /\ TriesBounded => AttemptsBounded
    BY <1>1 DEF AttemptsBounded
  <1>3. Init => TriesBounded
    <2>1. ASSUME Init, NEW j \in Scanners
          PROVE  /\ scan[j].tries = 0 /\ scan[j].phase = "queued"
                 /\ deaths[j] = 0
      BY <2>1 DEF Init, ScanInit, NewAttempt
    <2>2. QED
      BY <2>1, ScanAssumption DEF TriesBounded
  <1>4. QED
    BY <1>2, <1>3, TriesBoundedStep, Invariance, PTL DEF Spec

\* What one step makes of the load l: it ended, the ERP moved under it, a page
\* arrived with a link not followed before, or a try of the page failed.
LoadGoes(l, m) ==
  \/ m.phase # "fetching"
  \/ m = [l EXCEPT !.steady = FALSE]
  \/ \E link \in Links \ l.seen : m.seen = l.seen \cup {link}
  \/ m.seen = l.seen /\ m.attempt = l.attempt + 1

\* A load that goes on has followed one more of the ERP's links, or has used
\* up one more of the page's tries; nothing is taken back, and nobody starts
\* a load under way again.
LoadsAdvance ==
  [][\A j \in Jobs : load[j].phase = "fetching" /\ load'[j] # load[j] =>
       LoadGoes(load[j], load'[j])]_pipelineVars

\* Who may begin a load has none under way.
LoadsHeld ==
  /\ \A j \in Scanners : scan[j].phase \in {"queued", "failed", "lost"} =>
       load[j].phase # "fetching"
  /\ \A j \in Planners : plan[j].phase = "idle" => load[j].phase # "fetching"

\* What taking a page leaves of the links to follow.
LEMMA TakePageGoes ==
  ASSUME NEW l \in Load, NEW page, NEW next \in Links \cup {None}
  PROVE  LET m == TakePage(l, page, next) IN
         \/ m.phase # "fetching"
         \/ \E link \in Links \ l.seen : m.seen = l.seen \cup {link}
  <1> DEFINE more == [l EXCEPT !.batches = Extended(@, page)]
             m == TakePage(l, page, next)
  <1>1. more.seen = l.seen /\ DOMAIN more = DOMAIN l
    BY DEF Load
  <1>2. CASE next = None
    <2>1. m = Finish(more)
      BY <1>2 DEF TakePage
    <2>2. m.phase \in {"loaded", "failed"}
      BY <2>1 DEF Finish, Load
    <2>3. QED
      BY <2>2
  <1>3. CASE next # None /\ next \in l.seen
    <2>1. m = [more EXCEPT !.phase = "failed"]
      BY <1>3 DEF TakePage
    <2>2. QED
      BY <2>1 DEF Load
  <1>4. CASE next # None /\ next \notin l.seen
    <2>1. m = [more EXCEPT !.seen = @ \cup {next}, !.cursor = next, !.attempt = 0]
      BY <1>4 DEF TakePage
    <2>2. m.seen = l.seen \cup {next}
      BY <2>1 DEF Load
    <2>3. QED
      BY <1>4, <2>2
  <1>5. QED
    BY <1>2, <1>3, <1>4

LEMMA FetchGoes ==
  ASSUME ErpInv, NEW j \in Jobs, Fetch(j)
  PROVE  /\ load[j].phase = "fetching" /\ LoadGoes(load[j], load'[j])
         /\ \A k \in Jobs \ {j} : load'[k] = load[k]
  <1> DEFINE l == load[j]
  <1>1. /\ rows \in Seq(Batches) /\ moves \in 0..MaxMoves /\ Len(rows) \in Nat
        /\ load \in [Jobs -> Load] /\ l \in Load /\ l.phase = "fetching"
        /\ Len(rows) <= Len(Stocked) + moves
    BY LenProperties DEF ErpInv, ErpTypeOK, Fetch, FetchPage, FetchWrongLink,
                         FetchRecoverable, FetchPermanent
  <1>2. l.cursor \in Nat
    BY <1>1, LoadFields
  <1>3. CASE FetchPage(j)
    <2>1. NextLink(l.cursor) \in Links \cup {None}
      BY <1>1, <1>2, LinksAreNat DEF NextLink, Links, None
    <2>2. /\ load'[j] = TakePage(l, PageRows(l.cursor), NextLink(l.cursor))
          /\ \A k \in Jobs \ {j} : load'[k] = load[k]
      BY <1>1, <1>3 DEF FetchPage
    <2>3. QED
      BY <1>1, <2>1, <2>2, TakePageGoes DEF LoadGoes
  <1>4. ASSUME NEW next \in Links \cup {None}, FetchWrongLink(j, next)
        PROVE  /\ load[j].phase = "fetching" /\ LoadGoes(load[j], load'[j])
               /\ \A k \in Jobs \ {j} : load'[k] = load[k]
    <2> DEFINE m == TakePage(l, PageRows(l.cursor), next)
    <2>1. /\ load'[j] = [m EXCEPT !.steady = FALSE]
          /\ \A k \in Jobs \ {j} : load'[k] = load[k]
      BY <1>1, <1>4 DEF FetchWrongLink
    <2>2. \/ m.phase # "fetching"
          \/ \E link \in Links \ l.seen : m.seen = l.seen \cup {link}
      BY <1>1, TakePageGoes
    <2>3. m \in Load
      <3>1. PageRows(l.cursor) \in Seq(Batches)
        BY <1>1, <1>2, PageIsRows
      <3>2. QED
        BY <1>1, <3>1, TakePageShape
    <2> HIDE DEF m
    <2>4. load'[j].phase = m.phase /\ load'[j].seen = m.seen
      BY <2>1, <2>3 DEF Load
    <2>5. QED
      BY <1>1, <2>1, <2>2, <2>4 DEF LoadGoes
  <1>5. CASE FetchRecoverable(j)
    <2>1. /\ load'[j] = Retry(l)
          /\ \A k \in Jobs \ {j} : load'[k] = load[k]
      BY <1>1, <1>5 DEF FetchRecoverable
    <2>2. \/ load'[j].phase = "failed"
          \/ load'[j].seen = l.seen /\ load'[j].attempt = l.attempt + 1
      BY <1>1, <2>1 DEF Retry, Load
    <2>3. QED
      BY <1>1, <2>1, <2>2 DEF LoadGoes
  <1>6. CASE FetchPermanent(j)
    <2>1. /\ load'[j].phase = "failed"
          /\ \A k \in Jobs \ {j} : load'[k] = load[k]
      BY <1>1, <1>6 DEF FetchPermanent, Load
    <2>2. QED
      BY <1>1, <2>1 DEF LoadGoes
  <1>7. QED
    BY <1>3, <1>4, <1>5, <1>6 DEF Fetch

\* The ERP's steps let a load under way go on and start none.
LEMMA ErpGoes ==
  ASSUME ErpInv, ErpNext, NEW j \in Jobs
  PROVE  /\ load[j].phase # "fetching" => load'[j] = load[j]
         /\ load'[j] # load[j] => LoadGoes(load[j], load'[j])
  <1>1. ASSUME load' = Disturbed
        PROVE  /\ load[j].phase # "fetching" => load'[j] = load[j]
               /\ load'[j] # load[j] => LoadGoes(load[j], load'[j])
    BY <1>1 DEF Disturbed, LoadGoes
  <1>2. CASE \/ \E i \in 1..Len(rows) : GoodsLeave(i)
             \/ \E b \in Batches, i \in 1..(Len(rows) + 1) : GoodsArrive(b, i)
    BY <1>1, <1>2 DEF GoodsLeave, GoodsArrive
  <1>3. ASSUME NEW k \in Jobs, Fetch(k)
        PROVE  /\ load[j].phase # "fetching" => load'[j] = load[j]
               /\ load'[j] # load[j] => LoadGoes(load[j], load'[j])
    <2>1. /\ load[k].phase = "fetching" /\ LoadGoes(load[k], load'[k])
          /\ \A i \in Jobs \ {k} : load'[i] = load[i]
      BY <1>3, FetchGoes
    <2>2. QED
      BY <2>1
  <1>4. QED
    BY <1>2, <1>3 DEF ErpNext

\* What a scan's step does to the loads and to whether it may begin anew.
LEMMA ScanLoads ==
  ASSUME PipelineInv, LoadsHeld, NEW j \in Scanners, ScanStep(j)
  PROVE  /\ \A k \in Jobs \ {j} : load'[k] = load[k]
         /\ \A k \in Scanners \ {j} : scan'[k] = scan[k]
         /\ load'[j] = load[j] \/ load[j].phase # "fetching"
              \/ load'[j].phase # "fetching"
         /\ scan'[j].phase \in {"queued", "failed", "lost"} =>
              load'[j].phase # "fetching"
  <1>1. /\ scan \in [Scanners -> Attempt] /\ load \in [Jobs -> Load]
        /\ scan[j] \in Attempt /\ load[j] \in Load /\ j \in Jobs
        /\ ScanInv /\ AttemptOK(scan[j], load[j])
    BY ScanAssumption DEF PipelineInv, ScanInv, ScanOK, Tallies, ErpInv, ErpTypeOK
  <1>2. \A k \in Scanners \ {j} : scan'[k] = scan[k]
    BY <1>1, ScanMoves DEF ScanStep
  <1>3. CASE Begin(j)
    <2>1. load' = [load EXCEPT ![j] = NewLoad] /\ load[j].phase # "fetching"
      BY <1>3 DEF Begin, LoadsHeld
    <2>2. scan'[j].phase = "loading"
      BY <1>1, <1>3 DEF Begin, NewAttempt
    <2>3. QED
      BY <1>1, <1>2, <2>1, <2>2
  <1>4. CASE Die(j)
    <2>1. load' = [load EXCEPT ![j] = NoLoad]
      BY <1>4 DEF Die
    <2>2. load'[j].phase = "idle"
      BY <1>1, <2>1 DEF NoLoad
    <2>3. QED
      BY <1>1, <1>2, <2>1, <2>2
  <1>5. CASE LoadFailed(j) \/ SaveFails(j) \/ PushBreaks(j)
    <2>1. load' = load /\ load[j].phase # "fetching"
      BY <1>1, <1>5 DEF LoadFailed, SaveFails, PushBreaks, erpVars, AttemptOK,
                        AlertsOK, Working
    <2>2. QED
      BY <1>2, <2>1
  <1>6. CASE \/ Classify(j) \/ Classified(j) \/ Ask(j) \/ Gathered(j)
             \/ SaveNext(j) \/ Saved(j) \/ PushNext(j) \/ Pushed(j)
             \/ \E b \in Batches : Answer(j, b)
    <2>1. load' = load
      BY <1>6 DEF Classify, Classified, Ask, Gathered, SaveNext, Saved,
                  PushNext, Pushed, Answer, erpVars
    <2>2. CASE \E b \in Batches : Answer(j, b)
      <3>1. PICK b \in Batches : Answer(j, b)
        BY <2>2
      <3>2. PICK o \in {"suggestion", "error"} :
              scan' = [scan EXCEPT ![j].waiting = @ \ {b}, ![j].outcome[b] = o]
        BY <3>1 DEF Answer
      <3>3. scan'[j].phase = scan[j].phase /\ scan[j].phase = "asking"
        BY <1>1, <3>1, <3>2 DEF Answer, Attempt
      <3>4. QED
        BY <1>2, <2>1, <3>3
    <2>3. CASE \/ Classify(j) \/ Classified(j) \/ Ask(j) \/ Gathered(j)
               \/ SaveNext(j) \/ Saved(j) \/ PushNext(j) \/ Pushed(j)
      <3>1. scan'[j].phase \notin {"queued", "failed", "lost"}
        <4>1. CASE Classify(j) \/ Classified(j) \/ Ask(j) \/ Gathered(j)
          BY <1>1, <4>1 DEF Classify, Classified, Ask, Gathered, Attempt
        <4>2. CASE SaveNext(j) \/ Saved(j) \/ PushNext(j) \/ Pushed(j)
          BY <1>1, <4>2 DEF SaveNext, Saved, PushNext, Pushed, Attempt
        <4>3. QED
          BY <2>3, <4>1, <4>2
      <3>2. QED
        BY <1>2, <2>1, <3>1
    <2>4. QED
      BY <1>6, <2>2, <2>3
  <1>7. QED
    BY <1>3, <1>4, <1>5, <1>6 DEF ScanStep, Proceed

LEMMA PlanLoads ==
  ASSUME PipelineInv, LoadsHeld, NEW j \in Planners, PlanStep(j)
  PROVE  /\ \A k \in Jobs \ {j} : load'[k] = load[k]
         /\ \A k \in Planners \ {j} : plan'[k] = plan[k]
         /\ load'[j] = load[j] \/ load[j].phase # "fetching"
         /\ plan'[j].phase # "idle"
  <1>1. /\ plan \in [Planners -> Plan] /\ plan[j] \in Plan
        /\ load \in [Jobs -> Load] /\ j \in Jobs
    BY PlannerAssumption DEF PipelineInv, PlanInv, PlanTypeOK, ErpInv, ErpTypeOK
  <1>2. CASE Request(j)
    <2>1. PICK capacity \in Capacities :
            plan' = [plan EXCEPT ![j] = [NoPlan EXCEPT !.phase = "loading",
                                                       !.capacity = capacity,
                                                       !.remaining = capacity]]
      BY <1>2 DEF Request
    <2>2. plan'[j].phase = "loading" /\ \A k \in Planners \ {j} : plan'[k] = plan[k]
      BY <1>1, <2>1 DEF NoPlan
    <2>3. load' = [load EXCEPT ![j] = NewLoad] /\ load[j].phase # "fetching"
      BY <1>2 DEF Request, LoadsHeld
    <2>4. QED
      BY <1>1, <2>2, <2>3
  <1>3. CASE Refuse(j) \/ StartAllocation(j) \/ Conclude(j)
    BY <1>1, <1>3 DEF Refuse, StartAllocation, Conclude, erpVars, Plan
  <1>4. CASE Allocate(j)
    <2>1. PICK b : plan' = [plan EXCEPT ![j] = Allocated(@, b)]
      BY <1>4 DEF Allocate
    <2>2. plan'[j].phase = plan[j].phase
      BY <1>1, <2>1 DEF Allocated, Plan
    <2>3. QED
      BY <1>1, <1>4, <2>1, <2>2 DEF Allocate, erpVars
  <1>5. QED
    BY <1>2, <1>3, <1>4 DEF PlanStep

LEMMA LoadsHeldStep ==
  PipelineInv /\ LoadsHeld /\ [Next]_pipelineVars => LoadsHeld'
  <1> SUFFICES ASSUME PipelineInv, LoadsHeld, [Next]_pipelineVars
               PROVE  LoadsHeld'
    OBVIOUS
  <1> USE ScanAssumption, PlannerAssumption, JobsAssumption
  <1>1. CASE ErpStep
    <2>1. ErpInv /\ ErpNext /\ scan' = scan /\ plan' = plan
      BY <1>1 DEF PipelineInv, ErpStep, scanVars
    <2>2. \A k \in Jobs : load[k].phase # "fetching" => load'[k] = load[k]
      BY <2>1, ErpGoes
    <2>3. QED
      BY <2>1, <2>2 DEF LoadsHeld
  <1>2. ASSUME NEW j \in Scanners, ScanStep(j)
        PROVE  LoadsHeld'
    <2>1. /\ \A k \in Jobs \ {j} : load'[k] = load[k]
          /\ \A k \in Scanners \ {j} : scan'[k] = scan[k]
          /\ scan'[j].phase \in {"queued", "failed", "lost"} =>
              load'[j].phase # "fetching"
      BY <1>2, ScanLoads
    <2>2. plan' = plan
      BY <1>2 DEF ScanStep
    <2>3. QED
      BY <2>1, <2>2 DEF LoadsHeld
  <1>3. ASSUME NEW j \in Planners, PlanStep(j)
        PROVE  LoadsHeld'
    <2>1. /\ \A k \in Jobs \ {j} : load'[k] = load[k]
          /\ \A k \in Planners \ {j} : plan'[k] = plan[k]
          /\ plan'[j].phase # "idle"
      BY <1>3, PlanLoads
    <2>2. scan' = scan
      BY <1>3 DEF PlanStep, scanVars
    <2>3. QED
      BY <2>1, <2>2 DEF LoadsHeld
  <1>4. CASE UNCHANGED pipelineVars
    BY <1>4 DEF pipelineVars, erpVars, scanVars, LoadsHeld
  <1>5. QED
    BY <1>1, <1>2, <1>3, <1>4 DEF Next

\* A load follows a link it has not followed, uses up a try of its page, or
\* ends: with finitely many links and tries it cannot go on for ever, however
\* the ERP's rows move and whatever links a faulty server hands out.
THEOREM LoadAdvanceTheorem == Spec => LoadsAdvance
  <1>1. Init => LoadsHeld
    BY ScanAssumption, PlannerAssumption
       DEF Init, ErpInit, ScanInit, PlanInit, LoadsHeld, NoLoad
  <1>2. ASSUME PipelineInv, LoadsHeld, [Next]_pipelineVars, NEW j \in Jobs,
               load[j].phase = "fetching", load'[j] # load[j]
        PROVE  LoadGoes(load[j], load'[j])
    <2>1. CASE ErpStep
      BY <1>2, <2>1, ErpGoes DEF PipelineInv, ErpStep
    <2>2. ASSUME NEW k \in Scanners, ScanStep(k)
          PROVE  LoadGoes(load[j], load'[j])
      BY <1>2, <2>2, ScanLoads DEF LoadGoes
    <2>3. ASSUME NEW k \in Planners, PlanStep(k)
          PROVE  LoadGoes(load[j], load'[j])
      BY <1>2, <2>3, PlanLoads
    <2>4. CASE UNCHANGED pipelineVars
      BY <1>2, <2>4 DEF pipelineVars, erpVars
    <2>5. QED
      BY <1>2, <2>1, <2>2, <2>3, <2>4 DEF Next
  <1>3. PipelineInv /\ LoadsHeld /\ [Next]_pipelineVars =>
          \A j \in Jobs : load[j].phase = "fetching" /\ load'[j] # load[j] =>
            LoadGoes(load[j], load'[j])
    BY <1>2
  <1>4. QED
    BY <1>1, <1>3, LoadsHeldStep, Invariance, PTL DEF Spec, LoadsAdvance
=============================================================================
