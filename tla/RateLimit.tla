------------------------------ MODULE RateLimit ------------------------------
(***************************************************************************)
(* The in-memory rate limit of the mutating endpoints                      *)
(* (SlidingWindowRateLimiter of src/runtime/security.py): a request is let *)
(* through if fewer than the limit were in the window that ends with it.   *)
(*                                                                         *)
(* A key is a client with a path, an instant a reading of the monotonic    *)
(* clock; the limiter lives and dies with its process.  A request the      *)
(* guard refuses for its size never comes here.                            *)
(***************************************************************************)
EXTENDS Integers, Sequences

CONSTANTS
  Limiters,  \* the processes, each with a limiter
  Keys,      \* client and path
  Limit,     \* rate_limit_requests
  Window     \* rate_limit_window_seconds

ASSUME RateLimitAssumption ==
  /\ Limit \in Nat \ {0}
  /\ Window \in Nat \ {0}

VARIABLES
  events,   \* the deque of each limiter and key
  admitted  \* history: all instants let through in the limiter's life

rateVars == <<events, admitted>>

NoEvents == [k \in Keys |-> <<>>]

RateInit ==
  /\ events = [p \in Limiters |-> NoEvents]
  /\ admitted = [p \in Limiters |-> NoEvents]

\* A process starts with a limiter of its own.
ResetLimiter(p) ==
  /\ events' = [events EXCEPT ![p] = NoEvents]
  /\ admitted' = [admitted EXCEPT ![p] = NoEvents]

\* Events the loop pops: the longest run at the front up to the cutoff.
Popped(q, cutoff) ==
  CHOOSE k \in 0..Len(q) :
    /\ \A i \in 1..k : q[i] <= cutoff
    /\ k < Len(q) => q[k + 1] > cutoff

\* Variant: an event leaves the window a moment early.
RecentEarly(q, cutoff) == SubSeq(q, Popped(q, cutoff + 1) + 1, Len(q))

Recent(q, cutoff) == SubSeq(q, Popped(q, cutoff) + 1, Len(q))

\* Variant: one request more than the limit.
AllowOneMore(p, k, now) ==
  LET recent == Recent(events[p][k], now - Window) IN
  IF Len(recent) > Limit
  THEN /\ events' = [events EXCEPT ![p][k] = recent]
       /\ UNCHANGED admitted
  ELSE /\ events' = [events EXCEPT ![p][k] = Append(recent, now)]
       /\ admitted' = [admitted EXCEPT ![p][k] = Append(@, now)]

\* allow.
Allow(p, k, now) ==
  LET recent == Recent(events[p][k], now - Window) IN
  IF Len(recent) >= Limit
  THEN /\ events' = [events EXCEPT ![p][k] = recent]
       /\ UNCHANGED admitted
  ELSE /\ events' = [events EXCEPT ![p][k] = Append(recent, now)]
       /\ admitted' = [admitted EXCEPT ![p][k] = Append(@, now)]

\* The deques hold instants, and never more of them than the limit.
RateTypeOK ==
  /\ events \in [Limiters -> [Keys -> Seq(Int)]]
  /\ \A p \in Limiters, k \in Keys : Len(events[p][k]) <= Limit
  /\ admitted \in [Limiters -> [Keys -> Seq(Int)]]

\* In no window, wherever it begins, does a process let through more than
\* the limit: of any Limit + 1 requests let through one after the other, the
\* last comes a whole window after the first.
QuotaPerWindow ==
  \A p \in Limiters, k \in Keys :
    \A i \in 1..(Len(admitted[p][k]) - Limit) :
      admitted[p][k][i + Limit] - admitted[p][k][i] >= Window
=============================================================================
