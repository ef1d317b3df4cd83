------------------------------- MODULE Limit -------------------------------
(***************************************************************************)
(* The ceiling on what a source is asked for (connector/limit): a token    *)
(* bucket every request takes its turn in, retries that back off, and a    *)
(* breaker that stops asking a source that is not answering.  Several      *)
(* callers share one transport.                                            *)
(*                                                                         *)
(* Time is counted in the ticks one token takes to come back, and waits as *)
(* the ticks that are left of them, so the clock needs no bound.  A        *)
(* sleeper wakes when its time is up.                                      *)
(***************************************************************************)
EXTENDS Integers, FiniteSets

CONSTANTS
  LmCallers,     \* who shares the transport
  LmBurst,       \* Burst
  LmMaxRetries,  \* MaxRetries
  LmMinBackoff, LmMaxBackoff,
  LmBits,        \* the width of a duration, in bits
  LmFailures, LmCooldown,
  LmNamed,       \* what a refusal may name as the time to come back in; 0 names none
  LmMaxDebt,     \* bound on the debt cancelled requests leave in the bucket
  LmSpent        \* how far off a spent quota's reset may be; 0 when the quota is not spent

ASSUME LmAssumption ==
  /\ LmBurst \in Nat \ {0} /\ LmMaxRetries \in Nat /\ LmFailures \in Nat \ {0} /\ LmCooldown \in Nat \ {0}
  /\ LmMinBackoff \in Nat \ {0} /\ LmMaxBackoff \in Nat
  /\ LmMaxBackoff >= LmMinBackoff /\ LmMaxBackoff < 2 ^ (LmBits - 1)
  /\ IsFiniteSet(LmCallers) /\ LmNamed \subseteq Nat /\ LmSpent \subseteq Nat /\ LmMaxDebt \in Nat

VARIABLES
  lmTokens, lmUntil,               \* the bucket, negative in debt; the wall, in ticks from now
  lmFailed, lmProbing, lmOpen,     \* consecutive failures; openUntil, in ticks from now, and -1 for the zero time
  lmCall,                          \* what each caller is doing
  lmRoom,                          \* how many more requests a policed quota would take now
  lmLate                           \* who sent a request since the circuit opened

lmVars == <<lmTokens, lmUntil, lmFailed, lmProbing, lmOpen, lmCall, lmRoom, lmLate>>

larger(a, b) == IF a > b THEN a ELSE b
smaller(a, b) == IF a < b THEN a ELSE b
less(n) == larger(n - 1, 0)
lmIdle == [at |-> "idle", left |-> 0, try |-> 0, safe |-> FALSE, held |-> FALSE, owed |-> 0]

\* reserve: the token is taken now and the waiting is done afterwards; a wall
\* the source asked for outranks the bucket.
\* Mutant of reserved: a bucket that is empty stays empty.
reservedLax == smaller(lmTokens, larger(lmTokens - 1, -1))
reserved == lmTokens - 1
lmWait == larger(larger(-reserved, 0), lmUntil)
lmHeld == lmUntil > larger(-reserved, 0)

\* A duration shifted left, in the width a duration has.
shifted(d, n) == LET w == (d * 2 ^ n) % 2 ^ LmBits IN IF w >= 2 ^ (LmBits - 1) THEN w - 2 ^ LmBits ELSE w

\* halfToFull: somewhere between half of the wait and all of it.
halfToFull(d) == IF d <= 0 THEN {0} ELSE (d \div 2) .. (2 * (d \div 2))

\* backoff: what the source named, up to the ceiling, with the jitter on top;
\* otherwise doubling, with an overflow read as the ceiling.
backoff(attempt, named) ==
  LET d == shifted(LmMinBackoff, attempt)
  IN IF named > 0 THEN {smaller(named, LmMaxBackoff) + j : j \in halfToFull(LmMinBackoff)}
     ELSE halfToFull(IF d <= 0 \/ d > LmMaxBackoff THEN LmMaxBackoff ELSE d)

\* The answers the policy tells apart: one that is fine, a refusal the caller
\* keeps (401 or 403), one over the rate, a failure at the source, none at all.
Answers == {"ok", "401", "403", "429", "500", "error"}
worthRetrying(a) == a \in {"429", "500", "error"}
broken(a) == a \in {"401", "500", "error"}

\* verdict: whether one answer is worth another attempt.
verdict(c, a) == lmCall[c].try < LmMaxRetries /\ lmCall[c].safe /\ worthRetrying(a)

LmInit ==
  /\ lmTokens = LmBurst /\ lmUntil = 0 /\ lmRoom = LmBurst
  /\ lmFailed = 0 /\ lmProbing = FALSE /\ lmOpen = -1
  /\ lmCall = [c \in LmCallers |-> lmIdle]
  /\ lmLate = {}

\* closed: no request while the cooldown lasts; the first to ask after it
\* closes the circuit again on probation.
lmLets == lmOpen <= 0
lmPasses ==
  /\ lmOpen' = -1
  /\ lmProbing' = (lmProbing \/ lmOpen = 0)
  /\ lmLate' = IF lmOpen = 0 THEN {} ELSE lmLate

\* Wait, up to the sleep.
lmQueues(c, call) ==
  /\ lmCall' = [lmCall EXCEPT ![c] = [call EXCEPT !.at = "wait", !.left = lmWait, !.held = lmHeld]]
  /\ lmTokens' = reserved

\* RoundTrip, a new request: only one without a body and with a reading method
\* may be sent twice.
LmBegin(c, safe) ==
  /\ lmCall[c].at = "idle" /\ lmLets /\ lmTokens > -LmMaxDebt
  /\ lmPasses
  /\ lmQueues(c, [lmIdle EXCEPT !.safe = safe])
  /\ UNCHANGED <<lmUntil, lmFailed, lmRoom>>

LmSend(c) ==
  /\ lmCall[c].at = "wait" /\ lmCall[c].left = 0
  /\ lmCall' = [lmCall EXCEPT ![c].at = "out"]
  /\ lmRoom' = IF lmCall[c].held THEN lmRoom ELSE lmRoom - 1
  /\ lmLate' = IF lmOpen > 0 THEN lmLate \union {c} ELSE lmLate
  /\ UNCHANGED <<lmTokens, lmUntil, lmFailed, lmProbing, lmOpen>>

\* record: consecutive failures open the circuit, and so does one on probation.
lmRecord(a) ==
  IF ~broken(a) THEN lmFailed' = 0 /\ lmProbing' = FALSE /\ UNCHANGED <<lmOpen, lmLate>>
  ELSE /\ lmFailed' = smaller(lmFailed + 1, LmFailures)
       /\ IF lmProbing \/ lmFailed + 1 >= LmFailures
          THEN lmOpen' = LmCooldown /\ lmProbing' = FALSE /\ lmLate' = {}
          ELSE UNCHANGED <<lmOpen, lmProbing, lmLate>>

\* RoundTrip, an answer: what it says of the quota is read first, then it is
\* retried after a wait or handed to the caller.
LmAnswer(c, a, named, spent) ==
  /\ lmCall[c].at = "out"
  /\ a = "error" => named = 0 /\ spent = 0
  /\ lmUntil' = larger(lmUntil, spent)
  /\ IF verdict(c, a)
     THEN /\ \E d \in backoff(lmCall[c].try, named) :
               lmCall' = [lmCall EXCEPT ![c] = [@ EXCEPT !.at = "sleep", !.left = d,
                                                         !.owed = smaller(named, LmMaxBackoff)]]
          /\ UNCHANGED <<lmFailed, lmProbing, lmOpen, lmLate>>
     ELSE lmCall' = [lmCall EXCEPT ![c] = lmIdle] /\ lmRecord(a)
  /\ UNCHANGED <<lmTokens, lmRoom>>

\* RoundTrip, after the sleep: the circuit may have opened meanwhile.
\* Mutant of LmRetry: an attempt over the rate is not counted.
LmRetryUncounted(c) ==
  /\ lmCall[c].at = "sleep" /\ lmCall[c].left = 0
  /\ lmLets /\ lmPasses /\ lmQueues(c, lmCall[c])
  /\ UNCHANGED <<lmUntil, lmFailed, lmRoom>>
LmRetry(c) ==
  /\ lmCall[c].at = "sleep" /\ lmCall[c].left = 0
  /\ IF lmLets THEN lmPasses /\ lmQueues(c, [lmCall[c] EXCEPT !.try = @ + 1])
     ELSE lmCall' = [lmCall EXCEPT ![c] = lmIdle] /\ UNCHANGED <<lmTokens, lmProbing, lmOpen, lmLate>>
  /\ UNCHANGED <<lmUntil, lmFailed, lmRoom>>

\* The caller's context ends while it sleeps; the token it took is not returned.
LmCancel(c) ==
  /\ lmCall[c].at \in {"wait", "sleep"}
  /\ lmCall' = [lmCall EXCEPT ![c] = lmIdle]
  /\ UNCHANGED <<lmTokens, lmUntil, lmFailed, lmProbing, lmOpen, lmRoom, lmLate>>

LmTick ==
  /\ \A c \in LmCallers : lmCall[c].at \in {"wait", "sleep"} => lmCall[c].left > 0
  /\ lmTokens' = smaller(LmBurst, lmTokens + 1)
  /\ lmRoom' = smaller(LmBurst, lmRoom + 1)
  /\ lmUntil' = less(lmUntil)
  /\ lmOpen' = IF lmOpen > 0 THEN lmOpen - 1 ELSE lmOpen
  /\ lmCall' = [c \in LmCallers |-> [lmCall[c] EXCEPT !.left = less(@), !.owed = less(@)]]
  /\ UNCHANGED <<lmFailed, lmProbing, lmLate>>

LmMoves(c) ==
  \/ LmSend(c) \/ LmRetry(c)
  \/ \E a \in Answers, n \in LmNamed, s \in LmSpent : LmAnswer(c, a, n, s)
LmNext ==
  \/ \E c \in LmCallers : LmMoves(c) \/ LmCancel(c) \/ (\E safe \in BOOLEAN : LmBegin(c, safe))
  \/ LmTick

LmSpec == LmInit /\ [][LmNext]_lmVars

LmFairness == WF_lmVars(LmTick) /\ \A c \in LmCallers : WF_lmVars(LmMoves(c))

-----------------------------------------------------------------------------
\* Type invariant: no request is tried more often than it may be, one that
\* cannot be repeated is sent once, and the bucket, the wall and the breaker stay
\* within their limits.
LmTypeOK ==
  /\ lmTokens <= LmBurst /\ lmUntil >= 0 /\ lmOpen \in -1 .. LmCooldown /\ lmFailed \in 0 .. LmFailures
  /\ \A c \in LmCallers : lmCall[c].try <= (IF lmCall[c].safe THEN LmMaxRetries ELSE 0)

\* However many callers ask at once, a source that polices the rate with a
\* burst of its own never sees more than it said it would give: counted over
\* every request that was not held back by a wall (reserve).
RateHolds == lmRoom >= 0

\* A request refused with a time to come back at does not go out again before
\* it, as long as the time is under the ceiling on backoff (backoff).
NotBeforeNamed == \A c \in LmCallers : lmCall[c].at \in {"wait", "out"} => lmCall[c].owed = 0

\* A retry is never immediate, on any attempt: the doubling may run over the
\* width of a duration (backoff).
RetriesWait == \A c \in LmCallers : \A a \in Answers :
  lmCall[c].at = "out" /\ verdict(c, a) =>
    \A n \in LmNamed : \A d \in backoff(lmCall[c].try, n) : d >= LmMinBackoff \div 2

\* A source is not asked for more than it gives, nor earlier than it said
\* (connector/limit).
LimitsHold == LmTypeOK /\ RateHolds /\ NotBeforeNamed /\ RetriesWait

\* Once the circuit is open nobody sends more than the one request it had
\* queued already, retries included, until the cooldown is over (closed).
LeftAlone ==
  [][\A c \in LmCallers : lmOpen > 0 /\ c \in lmLate => ~(lmCall[c].at = "wait" /\ lmCall'[c].at = "out")]_lmVars

\* Every request is answered or given up: none is retried for ever, and none
\* sleeps behind a wall that keeps moving (RoundTrip).
CallsReturn == \A c \in LmCallers : []<>(lmCall[c].at = "idle")

=============================================================================
