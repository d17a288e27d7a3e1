--------------------------- MODULE HybridBucket ---------------------------
(***************************************************************************)
(* services/hybrid_bucket.go: the buckets that the proxies keep for one    *)
(* session, each with the goroutines blocked in its Wait, and the token    *)
(* bucket in Redis they share.                                             *)
(*                                                                         *)
(* Time is a clock tick at most as long as the 100ms timeout of a Redis    *)
(* call, with Rate tokens per tick.  Instants are kept as ages, counted in *)
(* ticks and saturated where more time makes no difference.  A script may  *)
(* run up to Timeout ticks after its caller read the clock; this delay     *)
(* also stands for the skew between the clocks of two proxies.             *)
(* Without a Redis client (rc == nil) a bucket is in degraded mode always, *)
(* which is the part of this model after an error.                         *)
(***************************************************************************)
EXTENDS Integers, FiniteSets, FiniteSetsExt

CONSTANTS
    Buckets,    \* HybridBuckets of one session, one per proxy
    Waiters,    \* goroutines that call Wait
    BucketOf,   \* BucketOf[w]: the bucket w throttles with
    Rate,       \* tokens per tick
    Capacity,   \* burst; the pool makes it one second's worth of Rate
    Counts,     \* sizes of writes
    Timeout     \* ticks a script may be late

ASSUME HybridBucketAssumption ==
    /\ IsFiniteSet(Buckets) /\ IsFiniteSet(Waiters)
    /\ BucketOf \in [Waiters -> Buckets]
    /\ Rate \in Nat \ {0} /\ Capacity \in Nat \ {0} /\ Timeout \in Nat
    /\ Counts \subseteq Nat \ {0}

VARIABLES
    beat,       \* flips with every tick
    rtokens,    \* "tokens" of the Redis hash
    rage,       \* age of its "last_tick"
    local,      \* [Buckets -> tokens], hb.local
    refill,     \* [Buckets -> age of hb.lastRefill]
    redisOK, probing,
    probers,    \* [Buckets -> number of probeRedis goroutines]
    pc,         \* where each waiter is
    count,      \* the argument of its Wait
    need,       \* what it still needs
    call,       \* its last script call
    sleep,      \* ticks a degraded waiter still sleeps
    ledger      \* history: tokens that came in, less those of finished writes

redis == <<rtokens, rage>>
health == <<redisOK, probing, probers>>
vars == <<beat, rtokens, rage, local, refill, redisOK, probing, probers,
          pc, count, need, call, sleep, ledger>>

CeilDiv(x, y) == (x + y - 1) \div y
Least(x, y) == IF x < y THEN x ELSE y
Most(x, y) == IF x > y THEN x ELSE y

(* After this many ticks the bucket is full whatever it held. *)
MaxAge == CeilDiv(Capacity, Rate) + Timeout
Older(age) == Least(MaxAge, age + 1)

NoCall == [st |-> "none", age |-> 0, asked |-> 0, granted |-> 0]

Init ==
    /\ beat = FALSE
    /\ rtokens = Capacity   \* no hash: the script assumes a full bucket
    /\ rage = 0
    /\ local = [b \in Buckets |-> 0]
    /\ refill = [b \in Buckets |-> 0]
    /\ redisOK = [b \in Buckets |-> TRUE]
    /\ probing = [b \in Buckets |-> FALSE]
    /\ probers = [b \in Buckets |-> 0]
    /\ pc = [w \in Waiters |-> "idle"]
    /\ count = [w \in Waiters |-> 0]
    /\ need = [w \in Waiters |-> 0]
    /\ call = [w \in Waiters |-> NoCall]
    /\ sleep = [w \in Waiters |-> 0]
    /\ ledger = [b \in Buckets |-> 0]

-----------------------------------------------------------------------------
(* The script *)

Accrued_Unclamped(late) ==
    IF rage > late THEN rtokens + (rage - late) * Rate ELSE rtokens

(* What the hash is worth to a caller whose clock is `late` ticks old. *)
Accrued(late) ==
    IF rage > late THEN Least(Capacity, rtokens + (rage - late) * Rate) ELSE rtokens

LastTickAfter_NotStored(w) == rage

(* HMSET stores the caller's clock, even when it is behind last_tick. *)
LastTickAfter(w) == call[w].age

LuaTokenBucket(w) ==
    LET tokens == Accrued(call[w].age)
        grant  == Least(tokens, call[w].asked)
    IN  /\ call[w].st = "sent"
        /\ rtokens' = tokens - grant
        /\ rage' = LastTickAfter(w)
        /\ call' = [call EXCEPT ![w].st = "done", ![w].granted = grant]
        /\ UNCHANGED <<beat, local, refill, health, pc, count, need, sleep, ledger>>

-----------------------------------------------------------------------------
(* Wait *)

Goto(w, label) == pc' = [pc EXCEPT ![w] = label]

(* Wait returns after its tokens were counted in (came). *)
Done(w, came) ==
    /\ Goto(w, "idle")
    /\ count' = [count EXCEPT ![w] = 0]
    /\ need' = [need EXCEPT ![w] = 0]
    /\ ledger' = [ledger EXCEPT ![BucketOf[w]] = @ + came - count[w]]

Degrade(w) ==
    /\ Goto(w, "degraded")
    /\ sleep' = [sleep EXCEPT ![w] = CeilDiv(need'[w], Rate)]

LocalAfter_Kept(have) == have

(* "Consume whatever local tokens are available." *)
LocalAfter(have) == 0

(* The first critical section: degraded accrual, the fast path, or taking  *)
(* all there is.                                                           *)
Wait(w, n) ==
    LET b == BucketOf[w]
        have == IF redisOK[b] THEN local[b]
                ELSE IF refill[b] > 0 THEN Least(Capacity, local[b] + refill[b] * Rate)
                ELSE local[b]
        came == have - local[b]
    IN  /\ pc[w] = "idle"
        /\ refill' = IF redisOK[b] THEN refill ELSE [refill EXCEPT ![b] = 0]
        /\ \/ /\ have >= n
              /\ local' = [local EXCEPT ![b] = have - n]
              /\ ledger' = [ledger EXCEPT ![b] = @ + came - n]
              /\ UNCHANGED <<pc, count, need, sleep>>
           \/ /\ have < n
              /\ local' = [local EXCEPT ![b] = LocalAfter(have)]
              /\ count' = [count EXCEPT ![w] = n]
              /\ need' = [need EXCEPT ![w] = n - have]
              /\ ledger' = [ledger EXCEPT ![b] = @ + came]
              /\ IF redisOK[b] THEN Goto(w, "poll") /\ UNCHANGED sleep ELSE Degrade(w)
        /\ UNCHANGED <<beat, redis, health, call>>

(* refillFromRedis reads the clock and sends the script; up to a second's  *)
(* worth is prefetched.                                                    *)
Poll(w) ==
    /\ pc[w] = "poll"
    /\ call' = [call EXCEPT ![w] = [st |-> "sent", age |-> 0, granted |-> 0,
                                    asked |-> Most(need[w], Capacity)]]
    /\ Goto(w, "calling")
    /\ UNCHANGED <<beat, redis, local, refill, health, count, need, sleep, ledger>>

NeedAfter_Unchanged(w, granted) == need[w]

(* if granted > 0 { need -= granted } *)
NeedAfter(w, granted) == need[w] - granted

(* The answer arrives in time. *)
Answer(w) ==
    LET b == BucketOf[w]
        granted == call[w].granted
    IN  /\ pc[w] = "calling" /\ call[w].st = "done"
        /\ call' = [call EXCEPT ![w] = NoCall]
        /\ \/ /\ granted >= need[w]
              /\ local' = [local EXCEPT ![b] = @ + granted - need[w]]
              /\ Done(w, granted)
           \/ /\ granted < need[w]
              /\ need' = [need EXCEPT ![w] = NeedAfter(w, granted)]
              /\ ledger' = [ledger EXCEPT ![b] = @ + granted]
              /\ Goto(w, "recheck")
              /\ UNCHANGED <<local, count>>
        /\ UNCHANGED <<beat, redis, refill, health, sleep>>

StartProbe_Always(b) == probers' = [probers EXCEPT ![b] = @ + 1]

StartProbe(b) == probers' = [probers EXCEPT ![b] = IF probing[b] THEN @ ELSE @ + 1]

(* The call fails or times out, whether or not its script ran; a script    *)
(* that is still under way may run later.                                  *)
CallFails(w) ==
    LET b == BucketOf[w]
    IN  /\ pc[w] = "calling"
        /\ redisOK' = [redisOK EXCEPT ![b] = FALSE]
        /\ probing' = [probing EXCEPT ![b] = TRUE]
        /\ StartProbe(b)
        /\ call' = IF call[w].st = "done" THEN [call EXCEPT ![w] = NoCall] ELSE call
        /\ Goto(w, "recheck")
        /\ UNCHANGED <<beat, redis, local, refill, count, need, sleep, ledger>>

(* Keeps polling a Redis that failed. *)
Recheck_StaysOnRedis(w) ==
    /\ pc[w] = "recheck"
    /\ Goto(w, "nap")
    /\ UNCHANGED <<beat, redis, local, refill, health, count, need, call, sleep, ledger>>

(* stillRedisOK *)
Recheck(w) ==
    /\ pc[w] = "recheck"
    /\ IF redisOK[BucketOf[w]]
       THEN Goto(w, "nap") /\ UNCHANGED <<need, sleep>>
       ELSE UNCHANGED need /\ Degrade(w)
    /\ UNCHANGED <<beat, redis, local, refill, health, count, call, ledger>>

(* At most 100ms of sleep, then the next round of the loop. *)
Nap(w) ==
    /\ pc[w] = "nap"
    /\ Goto(w, "poll")
    /\ UNCHANGED <<beat, redis, local, refill, health, count, need, call, sleep, ledger>>

(* "Local-only degraded mode": the sleep itself pays for what is missing. *)
WakeUp(w) ==
    /\ pc[w] = "degraded" /\ sleep[w] = 0
    /\ Done(w, need[w])
    /\ UNCHANGED <<beat, redis, local, refill, health, call, sleep>>

(* probeRedis: a ping succeeds; failed ones change nothing. *)
ProbeSucceeds(b) ==
    /\ probers[b] > 0
    /\ probers' = [probers EXCEPT ![b] = @ - 1]
    /\ redisOK' = [redisOK EXCEPT ![b] = TRUE]
    /\ probing' = [probing EXCEPT ![b] = FALSE]
    /\ UNCHANGED <<beat, redis, local, refill, pc, count, need, call, sleep, ledger>>

(* A call's context expires before the clock moves past its deadline. *)
Overdue(w) == pc[w] = "calling" /\ call[w].age >= Timeout

Tick ==
    /\ \A w \in Waiters : ~Overdue(w)
    /\ beat' = ~beat
    /\ rage' = Older(rage)
    /\ refill' = [b \in Buckets |-> Older(refill[b])]
    /\ call' = [w \in Waiters |->
                  IF call[w].st # "sent" THEN call[w]
                  ELSE IF call[w].age >= Timeout THEN NoCall
                  ELSE [call[w] EXCEPT !.age = @ + 1]]
    /\ sleep' = [w \in Waiters |-> Most(0, sleep[w] - 1)]
    /\ UNCHANGED <<rtokens, local, health, pc, count, need, ledger>>

WaiterStep(w) ==
    \/ Poll(w) \/ Answer(w) \/ CallFails(w) \/ Recheck(w) \/ Nap(w) \/ WakeUp(w)

Next ==
    \/ \E w \in Waiters : \/ \E n \in Counts : Wait(w, n)
                          \/ WaiterStep(w) \/ LuaTokenBucket(w)
    \/ \E b \in Buckets : ProbeSucceeds(b)
    \/ Tick

(* Goroutines are scheduled, the clock runs, a call ends one way or the    *)
(* other; nothing forces a write to come, a call to fail or a ping to      *)
(* succeed.                                                                *)
Fairness ==
    /\ \A w \in Waiters : WF_vars(WaiterStep(w)) /\ WF_vars(LuaTokenBucket(w))
    /\ WF_vars(Tick)

Spec == Init /\ [][Next]_vars /\ Fairness

(* Redis runs every script in the tick in which the caller read its clock, *)
(* and all clocks agree.                                                   *)
Prompt == \A w \in Waiters : call[w].st # "sent" \/ call[w].age = 0

(* The first ping comes five seconds after the failure that started the    *)
(* probe.  A round of the loop in Wait takes 200ms at most, so by then     *)
(* every waiter has left it.                                               *)
Looping(b) == \E w \in Waiters : BucketOf[w] = b
                                 /\ pc[w] \in {"poll", "calling", "recheck", "nap"}
PingsLate == \A b \in Buckets : Looping(b) /\ ~redisOK[b] => ~redisOK'[b]

PromptNext == Next /\ Prompt' /\ PingsLate

PromptSpec == Init /\ [][PromptNext]_vars /\ Fairness

-----------------------------------------------------------------------------
(* Properties *)

WaitersOf(b) == {w \in Waiters : BucketOf[w] = b}

Statuses == {"none", "sent", "done"}

TypeOK ==
    /\ beat \in BOOLEAN
    /\ rtokens \in 0..Capacity
    /\ rage \in 0..MaxAge
    /\ local \in [Buckets -> Nat]
    /\ refill \in [Buckets -> 0..MaxAge]
    /\ redisOK \in [Buckets -> BOOLEAN]
    /\ probing \in [Buckets -> BOOLEAN]
    /\ probers \in [Buckets -> Nat]
    /\ pc \in [Waiters -> {"idle", "poll", "calling", "recheck", "nap", "degraded"}]
    /\ count \in [Waiters -> Nat]
    /\ need \in [Waiters -> Nat]
    /\ call \in [Waiters -> [st : Statuses, age : 0..Timeout, asked : Nat, granted : Nat]]
    /\ sleep \in [Waiters -> Nat]
    /\ ledger \in [Buckets -> Int]
    /\ \A w \in Waiters : need[w] > 0 <=> pc[w] # "idle"

(* A bucket that gave up on Redis has exactly one goroutine probing for    *)
(* it, and one that uses Redis has none: neither failures reported late by *)
(* several waiters nor a recovery between two of them leaves a bucket      *)
(* degraded for ever or piles up probers.                                  *)
OneProber ==
    \A b \in Buckets : /\ probing[b] <=> ~redisOK[b]
                       /\ probers[b] = IF probing[b] THEN 1 ELSE 0

Paid(w) == count[w] - need[w]

(* No token is made up or lost between the two tiers: what came in from    *)
(* Redis, from degraded accrual and from degraded sleep is what finished   *)
(* writes took, plus the local balance, plus what unfinished waits hold,   *)
(* although need and granted live outside the lock.                        *)
TokensConserved ==
    \A b \in Buckets : ledger[b] = local[b] +
        FoldSet(LAMBDA w, acc : acc + Paid(w), 0, WaitersOf(b))

(* The local tier never holds more than one burst per goroutine that is    *)
(* not on its way to Redis: prefetched surplus of concurrent waiters adds  *)
(* up, but no further.                                                     *)
LocalBounded ==
    \A b \in Buckets :
        local[b] <= Capacity * Cardinality({w \in WaitersOf(b) : pc[w] \in {"idle", "degraded"}})

(* A writer that has the session to itself gets through, whatever Redis    *)
(* does: the polling loop ends with its tokens or in degraded mode.  (With *)
(* others around the code promises no order, and one may be overtaken for  *)
(* as long as others come.)                                                *)
WaitReturns ==
    \A w \in Waiters :
        <>[](\A v \in Waiters \ {w} : pc[v] = "idle") => []<>(pc[w] = "idle")

(* The grants of the script are those of a token bucket with the           *)
(* configured rate: "pins total throughput to Redis's accrual rate         *)
(* (hb.rate) regardless of waiter count".                                  *)
Ideal == INSTANCE TokenBucket WITH
            Clients <- Waiters,
            tokens <- Accrued(0),
            drawn <- [w \in Waiters |-> call[w].granted]
IdealSpec == Ideal!Spec
=============================================================================
