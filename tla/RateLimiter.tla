---------------------------- MODULE RateLimiter -----------------------------
(***************************************************************************)
(* core/ratelimit.py: the in-memory sliding window.  A key keeps the times *)
(* of the requests it admitted; check() forgets those older than the       *)
(* window and admits a request while fewer than the limit are left.        *)
(*                                                                         *)
(* check() has no await inside its critical section, and the lock is never *)
(* held across one, so a call is one step.  time.monotonic() is counted in *)
(* ticks; limits and Retry-After are in seconds.                           *)
(***************************************************************************)
EXTENDS Integers, Sequences, FiniteSetsExt

CONSTANTS
  Keys,            \* "bucket:address" keys
  Limit,           \* RateLimit.limit of a key's bucket
  Seconds,         \* RateLimit.window_seconds of a key's bucket
  TicksPerSecond,
  MaxTime          \* bound on the clock

ASSUME LimiterAssumption ==
  /\ Limit \in [Keys -> Nat \ {0}]
  /\ Seconds \in [Keys -> Nat]
  /\ TicksPerSecond \in Nat \ {0}
  /\ MaxTime \in Nat

VARIABLES
  now,
  hits,       \* _hits, <<>> for a key not in the dictionary
  admitted,   \* history: all times at which a key was admitted since the start
  refusal     \* history: the last answer of a key, if it was a refusal

vars == <<now, hits, admitted, refusal>>

Window(k) == Seconds[k] * TicksPerSecond
Cutoff(k) == now - Window(k)

NoRefusal == [at |-> 0, after |-> 0]

-----------------------------------------------------------------------------
(* while hits and hits[0] < cutoff: hits.popleft()                         *)

(* Where the hits that are kept begin, past the end if none is.            *)
Kept(k) ==
  {n \in 1 .. Len(hits[k]) + 1 : n <= Len(hits[k]) => hits[k][n] >= Cutoff(k)}

(* A slip: the hit of exactly one window ago is forgotten, too.            *)
FreshTooFew(k) == SelectSeq(hits[k], LAMBDA t : t > Cutoff(k))

Fresh(k) == SubSeq(hits[k], Min(Kept(k)), Len(hits[k]))

(* A slip: the fraction of a second is cut off and nothing is added.       *)
RetryAfterCut(k) == Max({1, (Head(Fresh(k)) + Window(k) - now) \div TicksPerSecond})

(* max(1, int(hits[0] + window_seconds - now) + 1)                         *)
RetryAfter(k) ==
  Max({1, (Head(Fresh(k)) + Window(k) - now) \div TicksPerSecond + 1})

Admit(k) ==
  /\ Len(Fresh(k)) < Limit[k]
  /\ hits' = [hits EXCEPT ![k] = Append(Fresh(k), now)]
  /\ admitted' = [admitted EXCEPT ![k] = Append(@, now)]
  /\ refusal' = [refusal EXCEPT ![k] = NoRefusal]
  /\ UNCHANGED now

(* A slip: the hit is counted before the limit is compared.                *)
DenyCounted(k) ==
  /\ Len(Fresh(k)) >= Limit[k]
  /\ hits' = [hits EXCEPT ![k] = Append(Fresh(k), now)]
  /\ refusal' = [refusal EXCEPT ![k] = [at |-> now, after |-> RetryAfter(k)]]
  /\ UNCHANGED <<now, admitted>>

Deny(k) ==
  /\ Len(Fresh(k)) >= Limit[k]
  /\ hits' = [hits EXCEPT ![k] = Fresh(k)]
  /\ refusal' = [refusal EXCEPT ![k] = [at |-> now, after |-> RetryAfter(k)]]
  /\ UNCHANGED <<now, admitted>>

(* The process starts again, or reset(): what was admitted is forgotten.   *)
Reset ==
  /\ hits' = [k \in Keys |-> <<>>]
  /\ admitted' = [k \in Keys |-> <<>>]
  /\ refusal' = [k \in Keys |-> NoRefusal]
  /\ UNCHANGED now

Tick ==
  /\ now < MaxTime
  /\ now' = now + 1
  /\ UNCHANGED <<hits, admitted, refusal>>

Init ==
  /\ now = 0
  /\ hits = [k \in Keys |-> <<>>]
  /\ admitted = [k \in Keys |-> <<>>]
  /\ refusal = [k \in Keys |-> NoRefusal]

Next == (\E k \in Keys : Admit(k) \/ Deny(k)) \/ Reset \/ Tick

Spec == Init /\ [][Next]_vars

-----------------------------------------------------------------------------
(* No stretch of time as long as the window, both ends included, sees more *)
(* admissions of a key than its limit, although check() looks only at the  *)
(* hits it has not forgotten.                                              *)
WithinLimit ==
  \A k \in Keys : \A i \in 1 .. Len(admitted[k]) :
    i + Limit[k] \in 1 .. Len(admitted[k]) =>
      admitted[k][i + Limit[k]] - admitted[k][i] > Window(k)

(* A request is refused only when the limit has been used up within the    *)
(* last window: forgetting hits one by one never keeps an old one.         *)
RefusedForAReason ==
  [][\A k \in Keys : Deny(k) =>
       Cardinality({i \in 1 .. Len(admitted[k]) : admitted[k][i] >= Cutoff(k)})
         >= Limit[k]]_vars

(* A client that waits as many seconds as Retry-After says, while nobody   *)
(* else uses its key, is admitted: the seconds are rounded up, not cut.    *)
RetryAfterIsEnough ==
  \A k \in Keys :
    /\ refusal[k] # NoRefusal
    /\ now >= refusal[k].at + refusal[k].after * TicksPerSecond
    => Len(Fresh(k)) < Limit[k]

=============================================================================
