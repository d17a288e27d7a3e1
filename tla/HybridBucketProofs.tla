------------------------ MODULE HybridBucketProofs ------------------------
(***************************************************************************)
(* Theorems about HybridBucket, for every number of buckets and waiters,   *)
(* every rate and burst, every write size and every delay of Redis.        *)
(***************************************************************************)
EXTENDS HybridBucket, FiniteSetTheorems, WellFoundedInduction, TLAPS

Labels == {"idle", "poll", "calling", "recheck", "nap", "degraded"}
Calls == [st : Statuses, age : 0..Timeout, asked : Nat, granted : Nat]

-----------------------------------------------------------------------------
(* Arithmetic *)

LEMMA Constants ==
    /\ Rate \in Nat /\ Rate >= 1 /\ Capacity \in Nat /\ Capacity >= 1 /\ Timeout \in Nat
    /\ BucketOf \in [Waiters -> Buckets]
    /\ \A n \in Counts : n \in Nat /\ n >= 1
BY HybridBucketAssumption

LEMMA ProductNat == ASSUME NEW x \in Nat, NEW y \in Nat PROVE x * y \in Nat
OBVIOUS

LEMMA ProductGrows ==
    ASSUME NEW x \in Nat, NEW y \in Nat, NEW z \in Nat, x <= y
    PROVE  x * z <= y * z
<1>1. PICK d \in Nat : y = x + d
  <2>1. y - x \in Nat /\ y = x + (y - x)
    OBVIOUS
  <2>2. QED
    BY <2>1
<1>2. y * z = x * z + d * z
  BY <1>1
<1>3. QED
  BY <1>2, ProductNat

(* As many ticks as it takes to fill the bucket do fill it. *)
LEMMA CeilDivCovers ==
    ASSUME NEW x \in Nat, NEW y \in Nat, y >= 1
    PROVE  /\ CeilDiv(x, y) \in Nat
           /\ CeilDiv(x, y) * y >= x
           /\ x >= 1 => CeilDiv(x, y) >= 1
<1> DEFINE q == (x + y - 1) \div y
           r == (x + y - 1) % y
<1>1. x + y - 1 \in Nat /\ y > 0
  OBVIOUS
<1>2. q \in Int /\ r \in 0..(y - 1) /\ x + y - 1 = y * q + r
  BY <1>1
<1>3. y * q >= x
  BY <1>2
<1>4. q >= 0
  <2>1. CASE q <= -1
    <3>1. PICK d \in Nat : q = -1 - d
      <4>1. -1 - q \in Nat /\ q = -1 - (-1 - q)
        BY <1>2, <2>1
      <4>2. QED
        BY <4>1
    <3>2. y * q = -y - y * d
      BY <3>1
    <3>3. QED
      BY <1>3, <3>2, ProductNat
  <2>2. QED
    BY <1>2, <2>1
<1>5. x >= 1 => q >= 1
  BY <1>2, <1>3, <1>4
<1>6. y * q = q * y
  BY <1>2
<1>7. QED
  BY <1>2, <1>3, <1>4, <1>5, <1>6 DEF CeilDiv

LEMMA MaxAgeFills ==
    /\ MaxAge \in Nat /\ MaxAge >= 1 /\ MaxAge >= Timeout
    /\ MaxAge * Rate >= Capacity
<1> DEFINE c == CeilDiv(Capacity, Rate)
<1>1. c \in Nat /\ c >= 1 /\ c * Rate >= Capacity
  BY Constants, CeilDivCovers
<1> HIDE DEF c
<1>2. MaxAge = c + Timeout
  BY DEF MaxAge, c
<1>3. MaxAge \in Nat /\ c <= MaxAge
  BY <1>1, <1>2, Constants
<1>4. c * Rate <= MaxAge * Rate
  BY <1>1, <1>3, Constants, ProductGrows
<1>5. MaxAge * Rate \in Nat /\ c * Rate \in Nat
  BY <1>1, <1>3, Constants, ProductNat
<1>6. QED
  BY <1>1, <1>2, <1>3, <1>4, <1>5, Constants

LEMMA OlderAge == ASSUME NEW a \in 0..MaxAge PROVE Older(a) \in 0..MaxAge
BY MaxAgeFills DEF Older, Least

(* The script never counts more than a full bucket, nor less than nothing. *)
LEMMA AccruedRange ==
    ASSUME rtokens \in 0..Capacity, rage \in 0..MaxAge, NEW late \in 0..Timeout
    PROVE  Accrued(late) \in 0..Capacity
<1>1. CASE rage > late
  <2>1. rage - late \in Nat
    BY <1>1, MaxAgeFills, Constants
  <2>2. (rage - late) * Rate \in Nat
    BY <2>1, Constants, ProductNat
  <2> DEFINE p == (rage - late) * Rate
  <2> HIDE DEF p
  <2>3. Accrued(late) = Least(Capacity, rtokens + p)
    BY <1>1 DEF Accrued, p
  <2>4. p \in Nat
    BY <2>2 DEF p
  <2>5. QED
    BY <2>3, <2>4, Constants DEF Least
<1>2. QED
  BY <1>1 DEF Accrued

-----------------------------------------------------------------------------
(* Types *)

(* A call of the script never yields more than was asked, and nothing      *)
(* before it ran; a waiter that is in a call asked for what it needs, or a *)
(* burst if that is more.                                                  *)
CallSound(w) ==
    /\ call[w].granted <= call[w].asked
    /\ call[w].st # "done" => call[w].granted = 0
    /\ pc[w] = "calling" => call[w].st # "none" /\ call[w].asked = Most(need[w], Capacity)

CallsSound == \A w \in Waiters : CallSound(w)

Inv == TypeOK /\ CallsSound /\ OneProber

(* The part of TypeOK that is about the waiters. *)
WaitersTyped ==
    /\ pc \in [Waiters -> Labels]
    /\ count \in [Waiters -> Nat]
    /\ need \in [Waiters -> Nat]
    /\ call \in [Waiters -> Calls]
    /\ sleep \in [Waiters -> Nat]
    /\ \A w \in Waiters : need[w] > 0 <=> pc[w] # "idle"

BucketsTyped ==
    /\ local \in [Buckets -> Nat]
    /\ refill \in [Buckets -> 0..MaxAge]
    /\ ledger \in [Buckets -> Int]

HealthTyped ==
    /\ redisOK \in [Buckets -> BOOLEAN]
    /\ probing \in [Buckets -> BOOLEAN]
    /\ probers \in [Buckets -> Nat]

RedisTyped == rtokens \in 0..Capacity /\ rage \in 0..MaxAge

LEMMA TypeParts ==
    TypeOK <=> beat \in BOOLEAN /\ RedisTyped /\ BucketsTyped /\ HealthTyped /\ WaitersTyped
BY DEF TypeOK, RedisTyped, BucketsTyped, HealthTyped, WaitersTyped, Labels, Calls

LEMMA TypePartsNext ==
    beat' \in BOOLEAN /\ RedisTyped' /\ BucketsTyped' /\ HealthTyped' /\ WaitersTyped' => TypeOK'
BY DEF TypeOK, RedisTyped, BucketsTyped, HealthTyped, WaitersTyped, Labels, Calls

LEMMA InitInv == Init => Inv
<1> SUFFICES ASSUME Init PROVE Inv
  OBVIOUS
<1>1. RedisTyped
  BY MaxAgeFills, Constants DEF Init, RedisTyped
<1>2. 0 \in 0..MaxAge /\ 0 \in 0..Timeout
  BY MaxAgeFills, Constants
<1>3. BucketsTyped
  BY <1>2 DEF Init, BucketsTyped
<1>4. HealthTyped
  BY DEF Init, HealthTyped
<1>5. NoCall \in Calls
  BY <1>2 DEF NoCall, Calls, Statuses
<1>6. WaitersTyped
  BY <1>5 DEF Init, WaitersTyped, Labels
<1>7. CallsSound
  BY DEF Init, CallsSound, CallSound, NoCall
<1>8. OneProber
  BY DEF Init, OneProber
<1>9. beat \in BOOLEAN
  BY DEF Init
<1>10. QED
  BY <1>1, <1>3, <1>4, <1>6, <1>7, <1>8, <1>9, TypeParts DEF Inv

LEMMA SelfUpdate ==
    ASSUME NEW S, NEW T, NEW f \in [S -> T], NEW x \in S
    PROVE  f = [f EXCEPT ![x] = f[x]] /\ f[x] \in T
OBVIOUS

(* What a waiter may be left with. *)
Sound(p, n, k) ==
    /\ n > 0 <=> p # "idle"
    /\ k.granted <= k.asked
    /\ k.st # "done" => k.granted = 0
    /\ p = "calling" => k.st # "none" /\ k.asked = Most(n, Capacity)

(* A step that leaves one waiter with p, c, n, k and s, the others alone. *)
Moves(w, p, c, n, k, s) ==
    /\ pc' = [pc EXCEPT ![w] = p]
    /\ count' = [count EXCEPT ![w] = c]
    /\ need' = [need EXCEPT ![w] = n]
    /\ call' = [call EXCEPT ![w] = k]
    /\ sleep' = [sleep EXCEPT ![w] = s]

LEMMA WaiterMoves ==
    ASSUME WaitersTyped, CallsSound, NEW w \in Waiters,
           NEW p \in Labels, NEW c \in Nat, NEW n \in Nat, NEW k \in Calls, NEW s \in Nat,
           Sound(p, n, k), Moves(w, p, c, n, k, s)
    PROVE  WaitersTyped' /\ CallsSound'
<1>1. /\ pc' \in [Waiters -> Labels] /\ count' \in [Waiters -> Nat]
      /\ need' \in [Waiters -> Nat] /\ call' \in [Waiters -> Calls]
      /\ sleep' \in [Waiters -> Nat]
  BY DEF WaitersTyped, Moves
<1>2. /\ pc'[w] = p /\ need'[w] = n /\ call'[w] = k
      /\ \A v \in Waiters \ {w} : pc'[v] = pc[v] /\ need'[v] = need[v] /\ call'[v] = call[v]
  BY DEF WaitersTyped, Moves
<1>3. \A v \in Waiters : need'[v] > 0 <=> pc'[v] # "idle"
  BY <1>2 DEF WaitersTyped, Sound
<1>4. CallsSound'
  BY <1>2 DEF CallsSound, CallSound, Sound
<1>5. QED
  BY <1>1, <1>3, <1>4 DEF WaitersTyped

(* What is known of a waiter. *)
LEMMA WaiterFacts ==
    ASSUME WaitersTyped, CallsSound, NEW w \in Waiters
    PROVE  /\ pc[w] \in Labels /\ count[w] \in Nat /\ need[w] \in Nat
           /\ call[w] \in Calls /\ sleep[w] \in Nat
           /\ Sound(pc[w], need[w], call[w])
           /\ BucketOf[w] \in Buckets
BY Constants DEF WaitersTyped, CallsSound, CallSound, Sound

(* A variable that a step leaves alone, written as an update of a waiter.  *)
LEMMA WaiterStays ==
    ASSUME WaitersTyped, NEW w \in Waiters
    PROVE  /\ pc = [pc EXCEPT ![w] = pc[w]]
           /\ count = [count EXCEPT ![w] = count[w]]
           /\ need = [need EXCEPT ![w] = need[w]]
           /\ call = [call EXCEPT ![w] = call[w]]
           /\ sleep = [sleep EXCEPT ![w] = sleep[w]]
BY SelfUpdate DEF WaitersTyped

LEMMA CallFields ==
    ASSUME NEW k \in Calls
    PROVE  /\ k.st \in Statuses /\ k.age \in 0..Timeout /\ k.asked \in Nat /\ k.granted \in Nat
BY DEF Calls

LEMMA NoCallTyped ==
    NoCall \in Calls /\ NoCall.st = "none" /\ NoCall.granted = 0 /\ NoCall.asked = 0
<1>1. 0 \in 0..Timeout
  BY Constants
<1>2. QED
  BY <1>1 DEF NoCall, Calls, Statuses

LEMMA DegradedSleep == ASSUME NEW n \in Nat PROVE CeilDiv(n, Rate) \in Nat
BY Constants, CeilDivCovers

-----------------------------------------------------------------------------
(* One lemma per action *)

LEMMA LuaInv ==
    ASSUME Inv, NEW w \in Waiters, LuaTokenBucket(w)
    PROVE  Inv'
<1> DEFINE k == call[w]
           tokens == Accrued(k.age)
           grant == Least(tokens, k.asked)
           new == [k EXCEPT !.st = "done", !.granted = grant]
<1>1. /\ beat \in BOOLEAN /\ RedisTyped /\ BucketsTyped /\ HealthTyped /\ WaitersTyped
      /\ CallsSound /\ OneProber
  BY TypeParts DEF Inv
<1>2. k \in Calls /\ k.age \in 0..Timeout /\ k.asked \in Nat
  BY <1>1, WaiterFacts, CallFields
<1>3. tokens \in 0..Capacity
  BY <1>1, <1>2, AccruedRange DEF RedisTyped
<1>4. /\ rtokens' = tokens - grant /\ rage' = k.age
      /\ call' = [call EXCEPT ![w] = new]
      /\ UNCHANGED <<beat, local, refill, health, pc, count, need, sleep, ledger>>
      /\ k.st = "sent"
  BY <1>1, <1>2 DEF LuaTokenBucket, LastTickAfter, WaitersTyped
<1>5. grant \in Nat /\ grant <= tokens /\ grant <= k.asked /\ tokens - grant \in 0..Capacity
  <2> HIDE DEF tokens
  <2>1. QED
    BY <1>2, <1>3, Constants DEF Least
<1> HIDE DEF tokens, grant
<1>6. RedisTyped'
  BY <1>2, <1>4, <1>5, MaxAgeFills, Constants DEF RedisTyped
<1>7. /\ new \in Calls /\ new.granted = grant /\ new.st = "done" /\ new.asked = k.asked
  <2> HIDE DEF k
  <2>1. QED
    BY <1>2, <1>5 DEF Calls, Statuses
<1>8. Sound(pc[w], need[w], new)
  <2>1. Sound(pc[w], need[w], k)
    BY <1>1, WaiterFacts
  <2> HIDE DEF new, k
  <2>2. QED
    BY <1>4, <1>5, <1>7, <2>1 DEF Sound
<1> HIDE DEF new
<1>9. Moves(w, pc[w], count[w], need[w], new, sleep[w])
  BY <1>1, <1>4, WaiterStays DEF Moves
<1>10. WaitersTyped' /\ CallsSound'
  BY <1>1, <1>7, <1>8, <1>9, WaiterFacts, WaiterMoves
<1>11. BucketsTyped' /\ HealthTyped' /\ OneProber' /\ beat' \in BOOLEAN
  BY <1>1, <1>4 DEF BucketsTyped, HealthTyped, OneProber, health
<1>12. TypeOK'
  BY <1>6, <1>10, <1>11, TypePartsNext
<1>13. QED
  BY <1>10, <1>11, <1>12 DEF Inv

(* What a step that only concerns a waiter and the tokens leaves alone. *)
LEMMA QuietHealth ==
    ASSUME Inv, UNCHANGED <<beat, redis, health>>
    PROVE  beat' \in BOOLEAN /\ RedisTyped' /\ HealthTyped' /\ OneProber'
<1>1. beat \in BOOLEAN /\ RedisTyped /\ HealthTyped /\ OneProber
  BY TypeParts DEF Inv
<1>2. QED
  BY <1>1 DEF RedisTyped, HealthTyped, OneProber, redis, health

LEMMA TokensMove ==
    ASSUME BucketsTyped, NEW b \in Buckets, NEW l \in Nat, NEW e \in Int,
           local' = [local EXCEPT ![b] = l], ledger' = [ledger EXCEPT ![b] = e],
           refill' = refill \/ refill' = [refill EXCEPT ![b] = 0]
    PROVE  BucketsTyped'
<1>1. 0 \in 0..MaxAge
  BY MaxAgeFills
<1>2. local' \in [Buckets -> Nat] /\ ledger' \in [Buckets -> Int]
  BY DEF BucketsTyped
<1>3. refill' \in [Buckets -> 0..MaxAge]
  BY <1>1 DEF BucketsTyped
<1>4. QED
  BY <1>2, <1>3 DEF BucketsTyped

(* What the bucket holds for a Wait, after degraded accrual. *)
Have(b) ==
    IF redisOK[b] THEN local[b]
    ELSE IF refill[b] > 0 THEN Least(Capacity, local[b] + refill[b] * Rate)
    ELSE local[b]

LEMMA HaveRange ==
    ASSUME BucketsTyped, NEW b \in Buckets
    PROVE  Have(b) \in Nat /\ (Have(b) <= local[b] \/ Have(b) <= Capacity)
<1>1. local[b] \in Nat /\ refill[b] \in Nat
  BY MaxAgeFills DEF BucketsTyped
<1> DEFINE p == refill[b] * Rate
<1>2. p \in Nat
  BY <1>1, Constants, ProductNat
<1>3. Have(b) = IF redisOK[b] THEN local[b]
                ELSE IF refill[b] > 0 THEN Least(Capacity, local[b] + p)
                ELSE local[b]
  BY DEF Have
<1> HIDE DEF p
<1>4. QED
  BY <1>1, <1>2, <1>3, Constants DEF Least

LEMMA WaitInv ==
    ASSUME Inv, NEW w \in Waiters, NEW n \in Counts, Wait(w, n)
    PROVE  Inv'
<1> DEFINE b == BucketOf[w]
           have == Have(b)
<1>1. /\ beat \in BOOLEAN /\ RedisTyped /\ BucketsTyped /\ HealthTyped /\ WaitersTyped
      /\ CallsSound /\ OneProber
  BY TypeParts DEF Inv
<1>2. /\ b \in Buckets /\ have \in Nat /\ n \in Nat /\ n >= 1
      /\ local[b] \in Nat /\ ledger[b] \in Int
  BY <1>1, WaiterFacts, HaveRange, Constants DEF BucketsTyped
<1>3. /\ pc[w] = "idle"
      /\ refill' = IF redisOK[b] THEN refill ELSE [refill EXCEPT ![b] = 0]
      /\ \/ /\ have >= n
            /\ local' = [local EXCEPT ![b] = have - n]
            /\ ledger' = [ledger EXCEPT ![b] = ledger[b] + (have - local[b]) - n]
            /\ UNCHANGED <<pc, count, need, sleep>>
         \/ /\ have < n
            /\ local' = [local EXCEPT ![b] = 0]
            /\ count' = [count EXCEPT ![w] = n]
            /\ need' = [need EXCEPT ![w] = n - have]
            /\ ledger' = [ledger EXCEPT ![b] = ledger[b] + (have - local[b])]
            /\ IF redisOK[b] THEN Goto(w, "poll") /\ UNCHANGED sleep ELSE Degrade(w)
      /\ UNCHANGED <<beat, redis, health, call>>
  BY <1>1, <1>2 DEF Wait, Have, LocalAfter, BucketsTyped
<1> HIDE DEF have
<1>4. BucketsTyped'
  <2>0. refill' = refill \/ refill' = [refill EXCEPT ![b] = 0]
    BY <1>3
  <2>1. CASE have >= n /\ local' = [local EXCEPT ![b] = have - n]
             /\ ledger' = [ledger EXCEPT ![b] = ledger[b] + (have - local[b]) - n]
    <3>1. have - n \in Nat /\ ledger[b] + (have - local[b]) - n \in Int
      BY <1>2, <2>1
    <3>2. QED
      BY <1>1, <1>2, <2>0, <2>1, <3>1, TokensMove
  <2>2. CASE local' = [local EXCEPT ![b] = 0]
             /\ ledger' = [ledger EXCEPT ![b] = ledger[b] + (have - local[b])]
    <3>1. ledger[b] + (have - local[b]) \in Int
      BY <1>2
    <3>2. QED
      BY <1>1, <1>2, <2>0, <2>2, <3>1, TokensMove
  <2>3. QED
    BY <1>3, <2>1, <2>2
<1>5. WaitersTyped' /\ CallsSound'
  <2>1. CASE UNCHANGED <<pc, count, need, sleep>>
    BY <1>1, <1>3, <2>1 DEF WaitersTyped, CallsSound, CallSound
  <2>2. CASE /\ have < n
             /\ count' = [count EXCEPT ![w] = n]
             /\ need' = [need EXCEPT ![w] = n - have]
             /\ IF redisOK[b] THEN Goto(w, "poll") /\ UNCHANGED sleep ELSE Degrade(w)
    <3>1. n - have \in Nat /\ n - have > 0
      BY <1>2, <2>2
    <3>2. need'[w] = n - have
      BY <1>1, <2>2 DEF WaitersTyped
    <3>3. CeilDiv(n - have, Rate) \in Nat
      BY <3>1, DegradedSleep
    <3>4. PICK p \in {"poll", "degraded"}, s \in Nat :
              pc' = [pc EXCEPT ![w] = p] /\ sleep' = [sleep EXCEPT ![w] = s]
      <4>1. CASE redisOK[b]
        BY <1>1, <2>2, <4>1, WaiterFacts, WaiterStays DEF Goto
      <4>2. CASE ~redisOK[b]
        BY <2>2, <3>2, <3>3, <4>2 DEF Degrade, Goto
      <4>3. QED
        BY <4>1, <4>2
    <3>5. Sound(p, n - have, call[w])
      <4>1. Sound(pc[w], need[w], call[w])
        BY <1>1, WaiterFacts
      <4>2. QED
        BY <3>1, <4>1 DEF Sound
    <3>6. Moves(w, p, n, n - have, call[w], s)
      BY <1>1, <1>3, <2>2, <3>4, WaiterStays DEF Moves
    <3>7. p \in Labels
      BY DEF Labels
    <3>8. QED
      BY <1>1, <1>2, <3>1, <3>5, <3>6, <3>7, WaiterFacts, WaiterMoves
  <2>3. QED
    BY <1>3, <2>1, <2>2
<1>6. beat' \in BOOLEAN /\ RedisTyped' /\ HealthTyped' /\ OneProber'
  BY <1>3, QuietHealth
<1>7. TypeOK'
  BY <1>4, <1>5, <1>6, TypePartsNext
<1>8. QED
  BY <1>5, <1>6, <1>7 DEF Inv

LEMMA PollInv ==
    ASSUME Inv, NEW w \in Waiters, Poll(w)
    PROVE  Inv'
<1> DEFINE new == [st |-> "sent", age |-> 0, granted |-> 0, asked |-> Most(need[w], Capacity)]
<1>1. BucketsTyped /\ WaitersTyped /\ CallsSound
  BY TypeParts DEF Inv
<1>2. /\ pc[w] = "poll" /\ pc' = [pc EXCEPT ![w] = "calling"] /\ call' = [call EXCEPT ![w] = new]
      /\ UNCHANGED <<beat, redis, local, refill, health, count, need, sleep, ledger>>
  BY DEF Poll, Goto
<1>3. Most(need[w], Capacity) \in Nat /\ 0 \in 0..Timeout /\ Sound(pc[w], need[w], call[w])
  BY <1>1, WaiterFacts, Constants DEF Most
<1>4. new \in Calls
  BY <1>3 DEF Calls, Statuses
<1>5. Sound("calling", need[w], new)
  BY <1>2, <1>3 DEF Sound
<1> HIDE DEF new
<1>6. Moves(w, "calling", count[w], need[w], new, sleep[w])
  BY <1>1, <1>2, WaiterStays DEF Moves
<1>7. "calling" \in Labels
  BY DEF Labels
<1>8. WaitersTyped' /\ CallsSound'
  BY <1>1, <1>4, <1>5, <1>6, <1>7, WaiterFacts, WaiterMoves
<1>9. BucketsTyped'
  BY <1>1, <1>2 DEF BucketsTyped
<1>10. beat' \in BOOLEAN /\ RedisTyped' /\ HealthTyped' /\ OneProber'
  BY <1>2, QuietHealth
<1>11. QED
  BY <1>8, <1>9, <1>10, TypePartsNext DEF Inv

(* Waits that go on (Answer with too little) or return. *)
LEMMA AnswerInv ==
    ASSUME Inv, NEW w \in Waiters, Answer(w)
    PROVE  Inv'
<1> DEFINE b == BucketOf[w]
           granted == call[w].granted
<1>1. BucketsTyped /\ WaitersTyped /\ CallsSound
  BY TypeParts DEF Inv
<1>2. /\ b \in Buckets /\ granted \in Nat /\ need[w] \in Nat /\ count[w] \in Nat
      /\ local[b] \in Nat /\ ledger[b] \in Int
  BY <1>1, WaiterFacts, CallFields DEF BucketsTyped
<1>3. call' = [call EXCEPT ![w] = NoCall] /\ UNCHANGED <<beat, redis, refill, health, sleep>>
  BY DEF Answer
<1>4. \/ /\ granted >= need[w]
         /\ local' = [local EXCEPT ![b] = local[b] + granted - need[w]]
         /\ ledger' = [ledger EXCEPT ![b] = ledger[b] + granted - count[w]]
         /\ Moves(w, "idle", 0, 0, NoCall, sleep[w])
      \/ /\ granted < need[w]
         /\ local' = local
         /\ ledger' = [ledger EXCEPT ![b] = ledger[b] + granted]
         /\ Moves(w, "recheck", count[w], need[w] - granted, NoCall, sleep[w])
  <2>1. CASE /\ granted >= need[w]
             /\ local' = [local EXCEPT ![b] = @ + granted - need[w]]
             /\ Done(w, granted)
    <3>1. /\ local' = [local EXCEPT ![b] = local[b] + granted - need[w]]
          /\ ledger' = [ledger EXCEPT ![b] = ledger[b] + granted - count[w]]
      BY <1>1, <1>2, <2>1 DEF Done, BucketsTyped
    <3>2. Moves(w, "idle", 0, 0, NoCall, sleep[w])
      BY <1>1, <1>3, <2>1, WaiterStays DEF Done, Goto, Moves
    <3>3. QED
      BY <2>1, <3>1, <3>2
  <2>2. CASE /\ granted < need[w]
             /\ need' = [need EXCEPT ![w] = NeedAfter(w, granted)]
             /\ ledger' = [ledger EXCEPT ![b] = @ + granted]
             /\ Goto(w, "recheck")
             /\ UNCHANGED <<local, count>>
    <3>1. ledger' = [ledger EXCEPT ![b] = ledger[b] + granted]
      BY <1>1, <1>2, <2>2 DEF BucketsTyped
    <3>2. Moves(w, "recheck", count[w], need[w] - granted, NoCall, sleep[w])
      BY <1>1, <1>3, <2>2, WaiterStays DEF NeedAfter, Goto, Moves
    <3>3. QED
      BY <2>2, <3>1, <3>2
  <2>3. QED
    BY <2>1, <2>2 DEF Answer
<1>5. "idle" \in Labels /\ "recheck" \in Labels
  BY DEF Labels
<1>6. beat' \in BOOLEAN /\ RedisTyped' /\ HealthTyped' /\ OneProber'
  BY <1>3, QuietHealth
<1> HIDE DEF granted, b
<1>7. BucketsTyped'
  <2>1. refill' = refill
    BY <1>3
  <2>2. CASE /\ granted >= need[w]
             /\ local' = [local EXCEPT ![b] = local[b] + granted - need[w]]
             /\ ledger' = [ledger EXCEPT ![b] = ledger[b] + granted - count[w]]
    <3>1. local[b] + granted - need[w] \in Nat /\ ledger[b] + granted - count[w] \in Int
      BY <1>2, <2>2
    <3>2. QED
      BY <1>1, <1>2, <2>1, <2>2, <3>1, TokensMove
  <2>3. CASE local' = local /\ ledger' = [ledger EXCEPT ![b] = ledger[b] + granted]
    <3>1. ledger[b] + granted \in Int /\ local' = [local EXCEPT ![b] = local[b]]
      BY <1>1, <1>2, <2>3 DEF BucketsTyped
    <3>2. QED
      BY <1>1, <1>2, <2>1, <2>3, <3>1, TokensMove
  <2>4. QED
    BY <1>4, <2>2, <2>3
<1>8. WaitersTyped' /\ CallsSound'
  <2>1. CASE Moves(w, "idle", 0, 0, NoCall, sleep[w])
    <3>1. Sound("idle", 0, NoCall)
      BY NoCallTyped DEF Sound
    <3>2. QED
      BY <1>1, <1>5, <2>1, <3>1, NoCallTyped, WaiterFacts, WaiterMoves
  <2>2. CASE granted < need[w] /\ Moves(w, "recheck", count[w], need[w] - granted, NoCall, sleep[w])
    <3>1. need[w] - granted \in Nat /\ need[w] - granted > 0
      BY <1>2, <2>2
    <3>2. Sound("recheck", need[w] - granted, NoCall)
      BY <3>1, NoCallTyped DEF Sound
    <3>3. QED
      BY <1>1, <1>5, <2>2, <3>1, <3>2, NoCallTyped, WaiterFacts, WaiterMoves
  <2>3. QED
    BY <1>4, <2>1, <2>2
<1>9. QED
  BY <1>6, <1>7, <1>8, TypePartsNext DEF Inv

(* A failure reported while a probe is under way starts no second one. *)
LEMMA CallFailsInv ==
    ASSUME Inv, NEW w \in Waiters, CallFails(w)
    PROVE  Inv'
<1> DEFINE b == BucketOf[w]
<1>1. BucketsTyped /\ WaitersTyped /\ CallsSound /\ HealthTyped /\ OneProber /\ b \in Buckets
  BY TypeParts, WaiterFacts DEF Inv
<1>2. /\ pc[w] = "calling" /\ pc' = [pc EXCEPT ![w] = "recheck"]
      /\ redisOK' = [redisOK EXCEPT ![b] = FALSE]
      /\ probing' = [probing EXCEPT ![b] = TRUE]
      /\ probers' = [probers EXCEPT ![b] = IF probing[b] THEN @ ELSE @ + 1]
      /\ call' = IF call[w].st = "done" THEN [call EXCEPT ![w] = NoCall] ELSE call
      /\ UNCHANGED <<beat, redis, local, refill, count, need, sleep, ledger>>
  BY DEF CallFails, Goto, StartProbe
<1> HIDE DEF b
<1>3. PICK k \in Calls :
         /\ call' = [call EXCEPT ![w] = k] /\ k.granted <= k.asked
         /\ k.st # "done" => k.granted = 0
  <2>1. CASE call[w].st = "done"
    <3>1. NoCall \in Calls /\ NoCall.granted <= NoCall.asked /\ NoCall.granted = 0
      BY NoCallTyped
    <3>2. call' = [call EXCEPT ![w] = NoCall]
      BY <1>2, <2>1
    <3>3. QED
      BY <3>1, <3>2
  <2>2. CASE call[w].st # "done"
    <3>1. call[w] \in Calls /\ Sound(pc[w], need[w], call[w]) /\ call' = [call EXCEPT ![w] = call[w]]
      BY <1>1, <1>2, <2>2, WaiterFacts, WaiterStays
    <3>2. QED
      BY <3>1 DEF Sound
  <2>3. QED
    BY <2>1, <2>2
<1>4. Sound("recheck", need[w], k)
  <2>1. Sound(pc[w], need[w], call[w])
    BY <1>1, WaiterFacts
  <2>2. QED
    BY <1>2, <1>3, <2>1 DEF Sound
<1>5. Moves(w, "recheck", count[w], need[w], k, sleep[w])
  BY <1>1, <1>2, <1>3, WaiterStays DEF Moves
<1>6. "recheck" \in Labels
  BY DEF Labels
<1>7. WaitersTyped' /\ CallsSound'
  BY <1>1, <1>4, <1>5, <1>6, WaiterFacts, WaiterMoves
<1>8. probers' \in [Buckets -> Nat]
  BY <1>1, <1>2 DEF HealthTyped
<1>9. redisOK' \in [Buckets -> BOOLEAN] /\ probing' \in [Buckets -> BOOLEAN]
  BY <1>1, <1>2 DEF HealthTyped
<1>10. OneProber'
  <2> SUFFICES ASSUME NEW c \in Buckets
               PROVE  /\ probing'[c] <=> ~redisOK'[c]
                      /\ probers'[c] = IF probing'[c] THEN 1 ELSE 0
    BY DEF OneProber
  <2>1. (probing[c] <=> ~redisOK[c]) /\ probers[c] = IF probing[c] THEN 1 ELSE 0
    BY <1>1 DEF OneProber
  <2>2. CASE c = b
    <3>1. redisOK'[c] = FALSE /\ probing'[c] = TRUE
      BY <1>1, <1>2, <2>2 DEF HealthTyped
    <3>2. probers'[c] = IF probing[c] THEN probers[c] ELSE probers[c] + 1
      BY <1>1, <1>2, <2>2 DEF HealthTyped
    <3>3. probers'[c] = 1
      BY <2>1, <3>2
    <3>4. QED
      BY <3>1, <3>3
  <2>3. CASE c # b
    BY <1>1, <1>2, <2>1, <2>3 DEF HealthTyped
  <2>4. QED
    BY <2>2, <2>3
<1>11. BucketsTyped' /\ RedisTyped' /\ beat' \in BOOLEAN
  <2>1. beat \in BOOLEAN /\ RedisTyped
    BY TypeParts DEF Inv
  <2>2. QED
    BY <1>1, <1>2, <2>1 DEF BucketsTyped, RedisTyped, redis
<1>12. QED
  BY <1>7, <1>8, <1>9, <1>10, <1>11, TypePartsNext DEF Inv, HealthTyped

(* Steps of the loop that only move a waiter on. *)
LEMMA LoopInv ==
    ASSUME Inv, NEW w \in Waiters, Recheck(w) \/ Nap(w)
    PROVE  Inv'
<1>1. BucketsTyped /\ WaitersTyped /\ CallsSound
  BY TypeParts DEF Inv
<1>2. need[w] \in Nat /\ CeilDiv(need[w], Rate) \in Nat /\ sleep[w] \in Nat
  BY <1>1, WaiterFacts, DegradedSleep
<1>3. /\ pc[w] # "idle"
      /\ UNCHANGED <<beat, redis, local, refill, health, count, need, call, ledger>>
  BY DEF Recheck, Nap
<1>4. PICK p \in {"nap", "degraded", "poll"}, s \in Nat :
          pc' = [pc EXCEPT ![w] = p] /\ sleep' = [sleep EXCEPT ![w] = s]
  <2>1. CASE Recheck(w) /\ ~redisOK[BucketOf[w]]
    BY <1>2, <1>3, <2>1 DEF Recheck, Degrade, Goto
  <2>2. CASE Recheck(w) /\ redisOK[BucketOf[w]]
    BY <1>1, <1>2, <2>2, WaiterStays DEF Recheck, Goto
  <2>3. CASE Nap(w)
    BY <1>1, <1>2, <2>3, WaiterStays DEF Nap, Goto
  <2>4. QED
    BY <2>1, <2>2, <2>3
<1>5. Sound(p, need[w], call[w])
  <2>1. Sound(pc[w], need[w], call[w])
    BY <1>1, WaiterFacts
  <2>2. QED
    BY <1>3, <2>1 DEF Sound
<1>6. Moves(w, p, count[w], need[w], call[w], s)
  BY <1>1, <1>3, <1>4, WaiterStays DEF Moves
<1>7. p \in Labels
  BY DEF Labels
<1>8. WaitersTyped' /\ CallsSound'
  BY <1>1, <1>5, <1>6, <1>7, WaiterFacts, WaiterMoves
<1>9. BucketsTyped'
  BY <1>1, <1>3 DEF BucketsTyped
<1>10. beat' \in BOOLEAN /\ RedisTyped' /\ HealthTyped' /\ OneProber'
  BY <1>3, QuietHealth
<1>11. QED
  BY <1>8, <1>9, <1>10, TypePartsNext DEF Inv

LEMMA WakeUpInv ==
    ASSUME Inv, NEW w \in Waiters, WakeUp(w)
    PROVE  Inv'
<1> DEFINE b == BucketOf[w]
<1>1. BucketsTyped /\ WaitersTyped /\ CallsSound
  BY TypeParts DEF Inv
<1>2. /\ b \in Buckets /\ need[w] \in Nat /\ count[w] \in Nat /\ ledger[b] \in Int
  BY <1>1, WaiterFacts DEF BucketsTyped
<1>3. /\ ledger' = [ledger EXCEPT ![b] = ledger[b] + need[w] - count[w]]
      /\ pc' = [pc EXCEPT ![w] = "idle"] /\ count' = [count EXCEPT ![w] = 0]
      /\ need' = [need EXCEPT ![w] = 0]
      /\ pc[w] = "degraded" /\ UNCHANGED <<beat, redis, local, refill, health, call, sleep>>
  BY <1>1, <1>2 DEF WakeUp, Done, Goto, BucketsTyped
<1>4. Sound("idle", 0, call[w])
  <2>1. Sound(pc[w], need[w], call[w])
    BY <1>1, WaiterFacts
  <2>2. QED
    BY <2>1 DEF Sound
<1>5. Moves(w, "idle", 0, 0, call[w], sleep[w])
  BY <1>1, <1>3, WaiterStays DEF Moves
<1>6. "idle" \in Labels
  BY DEF Labels
<1>7. WaitersTyped' /\ CallsSound'
  BY <1>1, <1>4, <1>5, <1>6, WaiterFacts, WaiterMoves
<1> HIDE DEF b
<1>8. BucketsTyped'
  BY <1>1, <1>2, <1>3 DEF BucketsTyped
<1>9. beat' \in BOOLEAN /\ RedisTyped' /\ HealthTyped' /\ OneProber'
  BY <1>3, QuietHealth
<1>10. QED
  BY <1>7, <1>8, <1>9, TypePartsNext DEF Inv

LEMMA ProbeInv ==
    ASSUME Inv, NEW b \in Buckets, ProbeSucceeds(b)
    PROVE  Inv'
<1>1. /\ beat \in BOOLEAN /\ RedisTyped /\ BucketsTyped /\ HealthTyped /\ WaitersTyped
      /\ CallsSound /\ OneProber
  BY TypeParts DEF Inv
<1>2. /\ probers[b] > 0 /\ probers' = [probers EXCEPT ![b] = @ - 1]
      /\ redisOK' = [redisOK EXCEPT ![b] = TRUE]
      /\ probing' = [probing EXCEPT ![b] = FALSE]
      /\ UNCHANGED <<beat, redis, local, refill, pc, count, need, call, sleep, ledger>>
  BY DEF ProbeSucceeds
<1>3. redisOK' \in [Buckets -> BOOLEAN] /\ probing' \in [Buckets -> BOOLEAN]
  BY <1>1, <1>2 DEF HealthTyped
<1>4. probers' \in [Buckets -> Nat]
  BY <1>1, <1>2 DEF HealthTyped
<1>5. OneProber'
  <2> SUFFICES ASSUME NEW c \in Buckets
               PROVE  /\ probing'[c] <=> ~redisOK'[c]
                      /\ probers'[c] = IF probing'[c] THEN 1 ELSE 0
    BY DEF OneProber
  <2>1. (probing[c] <=> ~redisOK[c]) /\ probers[c] = IF probing[c] THEN 1 ELSE 0
    BY <1>1 DEF OneProber
  <2>2. CASE c = b
    <3>1. redisOK'[c] = TRUE /\ probing'[c] = FALSE
      BY <1>1, <1>2, <2>2 DEF HealthTyped
    <3>2. probers'[c] = probers[c] - 1 /\ probers[c] > 0
      BY <1>1, <1>2, <2>2 DEF HealthTyped
    <3>3. probers'[c] = 0
      BY <2>1, <3>2
    <3>4. QED
      BY <3>1, <3>3
  <2>3. CASE c # b
    BY <1>1, <1>2, <2>1, <2>3 DEF HealthTyped
  <2>4. QED
    BY <2>2, <2>3
<1>6. beat' \in BOOLEAN /\ RedisTyped' /\ BucketsTyped' /\ WaitersTyped' /\ CallsSound'
  BY <1>1, <1>2 DEF RedisTyped, BucketsTyped, WaitersTyped, CallsSound, CallSound, redis
<1>7. QED
  BY <1>3, <1>4, <1>5, <1>6, TypePartsNext DEF Inv, HealthTyped

(* What a tick makes of a call. *)
Aged(k) ==
    IF k.st # "sent" THEN k
    ELSE IF k.age >= Timeout THEN NoCall
    ELSE [k EXCEPT !.age = @ + 1]

LEMMA AgedCall ==
    ASSUME NEW k \in Calls, NEW p, NEW n, Sound(p, n, k),
           ~(p = "calling" /\ k.age >= Timeout)
    PROVE  Aged(k) \in Calls /\ Sound(p, n, Aged(k))
           /\ (k.st # "done" => Aged(k).granted = 0) /\ (k.st # "sent" => Aged(k) = k)
<1>1. k.st \in Statuses /\ k.age \in 0..Timeout /\ Timeout \in Nat
  BY CallFields, Constants
<1>2. CASE k.st # "sent"
  BY <1>2 DEF Aged, Sound
<1>3. CASE k.st = "sent" /\ k.age >= Timeout
  BY <1>3, NoCallTyped DEF Aged, Sound
<1>4. CASE k.st = "sent" /\ ~(k.age >= Timeout)
  <2> DEFINE new == [k EXCEPT !.age = k.age + 1]
  <2>1. Aged(k) = new
    BY <1>4 DEF Aged, Calls
  <2>2. k.age + 1 \in 0..Timeout
    BY <1>1, <1>4
  <2>3. new \in Calls /\ new.st = k.st /\ new.granted = k.granted /\ new.asked = k.asked
    BY <2>2 DEF Calls
  <2> HIDE DEF new
  <2>4. QED
    BY <1>4, <2>1, <2>3 DEF Sound
<1>5. QED
  BY <1>2, <1>3, <1>4

LEMMA TickInv == ASSUME Inv, Tick PROVE Inv'
<1>1. /\ beat \in BOOLEAN /\ RedisTyped /\ BucketsTyped /\ HealthTyped /\ WaitersTyped
      /\ CallsSound /\ OneProber
  BY TypeParts DEF Inv
<1>2. /\ \A w \in Waiters : ~Overdue(w)
      /\ beat' = ~beat /\ rage' = Older(rage)
      /\ refill' = [b \in Buckets |-> Older(refill[b])]
      /\ call' = [w \in Waiters |-> Aged(call[w])]
      /\ sleep' = [w \in Waiters |-> Most(0, sleep[w] - 1)]
      /\ UNCHANGED <<rtokens, local, health, pc, count, need, ledger>>
  BY DEF Tick, Aged
<1>3. RedisTyped' /\ beat' \in BOOLEAN
  BY <1>1, <1>2, OlderAge DEF RedisTyped
<1>4. BucketsTyped'
  <2>1. \A b \in Buckets : Older(refill[b]) \in 0..MaxAge
    BY <1>1, OlderAge DEF BucketsTyped
  <2>2. QED
    BY <1>1, <1>2, <2>1 DEF BucketsTyped
<1>5. HealthTyped' /\ OneProber'
  BY <1>1, <1>2 DEF HealthTyped, OneProber, health
<1>6. \A w \in Waiters : Aged(call[w]) \in Calls /\ Sound(pc[w], need[w], Aged(call[w]))
  <2> SUFFICES ASSUME NEW w \in Waiters
               PROVE  Aged(call[w]) \in Calls /\ Sound(pc[w], need[w], Aged(call[w]))
    OBVIOUS
  <2>1. call[w] \in Calls /\ Sound(pc[w], need[w], call[w]) /\ ~(pc[w] = "calling" /\ call[w].age >= Timeout)
    BY <1>1, <1>2, WaiterFacts DEF Overdue
  <2>2. QED
    BY <2>1, AgedCall
<1>7. CallsSound'
  BY <1>2, <1>6 DEF CallsSound, CallSound, Sound
<1>8. sleep' \in [Waiters -> Nat]
  BY <1>1, <1>2 DEF WaitersTyped, Most
<1>9. WaitersTyped'
  BY <1>1, <1>2, <1>6, <1>8 DEF WaitersTyped
<1>10. QED
  BY <1>3, <1>4, <1>5, <1>7, <1>9, TypePartsNext DEF Inv

LEMMA NextInv == Inv /\ [Next]_vars => Inv'
<1> SUFFICES ASSUME Inv, [Next]_vars PROVE Inv'
  OBVIOUS
<1>1. CASE \E w \in Waiters, n \in Counts : Wait(w, n)
  BY <1>1, WaitInv
<1>2. CASE \E w \in Waiters : WaiterStep(w)
  BY <1>2, PollInv, AnswerInv, CallFailsInv, LoopInv, WakeUpInv DEF WaiterStep
<1>3. CASE \E w \in Waiters : LuaTokenBucket(w)
  BY <1>3, LuaInv
<1>4. CASE \E b \in Buckets : ProbeSucceeds(b)
  BY <1>4, ProbeInv
<1>5. CASE Tick
  BY <1>5, TickInv
<1>6. CASE UNCHANGED vars
  <2>1. UNCHANGED <<beat, redis, health>> /\ WaitersTyped /\ CallsSound /\ BucketsTyped
    BY <1>6, TypeParts DEF Inv, vars, redis, health
  <2>2. WaitersTyped' /\ CallsSound' /\ BucketsTyped'
    BY <1>6, <2>1 DEF vars, WaitersTyped, CallsSound, CallSound, BucketsTyped
  <2>3. QED
    BY <2>1, <2>2, QuietHealth, TypePartsNext DEF Inv
<1>7. QED
  BY <1>1, <1>2, <1>3, <1>4, <1>5, <1>6 DEF Next

(* Every variable of the two tiers stays in its range, and a waiter is in  *)
(* the loop of Wait exactly while it still needs tokens.                   *)
THEOREM TypeCorrect == Spec => []TypeOK
<1>1. Inv => TypeOK
  BY DEF Inv
<1>2. QED
  BY <1>1, InitInv, NextInv, PTL DEF Spec

(* However failures and recoveries interleave, a bucket that gave up on    *)
(* Redis has one probeRedis goroutine and a bucket that uses it has none.  *)
THEOREM OneProberEach == Spec => []OneProber
<1>1. Inv => OneProber
  BY DEF Inv
<1>2. QED
  BY <1>1, InitInv, NextInv, PTL DEF Spec

-----------------------------------------------------------------------------
(* The local tier *)

Rest == {"idle", "degraded"}
Resting(b) == {w \in WaitersOf(b) : pc[w] \in Rest}

LEMMA BoundIs == LocalBounded <=> \A b \in Buckets : local[b] <= Capacity * Cardinality(Resting(b))
BY DEF LocalBounded, Resting, Rest

LEMMA BoundIsNext ==
    LocalBounded' <=> \A b \in Buckets : local'[b] <= Capacity * Cardinality(Resting(b)')
BY DEF LocalBounded, Resting, Rest

LEMMA RestingFinite ==
    ASSUME NEW b
    PROVE  /\ IsFiniteSet(Resting(b)) /\ Cardinality(Resting(b)) \in Nat
           /\ IsFiniteSet(Resting(b)') /\ Cardinality(Resting(b)') \in Nat
<1>1. Resting(b) \subseteq Waiters /\ Resting(b)' \subseteq Waiters
  BY DEF Resting, WaitersOf
<1>2. QED
  BY <1>1, HybridBucketAssumption, FS_Subset, FS_CardinalityType

LEMMA CapacityTimes ==
    ASSUME NEW c \in Nat, NEW d \in Nat
    PROVE  /\ Capacity * c \in Nat
           /\ c <= d => Capacity * c <= Capacity * d
           /\ d >= c + 1 => Capacity * d >= Capacity * c + Capacity
           /\ d >= 1 => Capacity * d >= Capacity
<1>1. Capacity \in Nat
  BY Constants
<1>2. Capacity * c \in Nat /\ Capacity * d \in Nat /\ Capacity * c = c * Capacity /\ Capacity * d = d * Capacity
  BY <1>1, ProductNat
<1>3. c <= d => c * Capacity <= d * Capacity
  BY <1>1, ProductGrows
<1>4. d >= c + 1 => (c + 1) * Capacity <= d * Capacity
  BY <1>1, ProductGrows
<1>5. (c + 1) * Capacity = c * Capacity + Capacity
  BY <1>1
<1>6. d >= 1 => 1 * Capacity <= d * Capacity
  BY <1>1, ProductGrows
<1>7. 1 * Capacity = Capacity
  BY <1>1
<1>8. QED
  BY <1>1, <1>2, <1>3, <1>4, <1>5, <1>6, <1>7

(* The balance of one bucket goes to l while a waiter of it goes to p: it  *)
(* falls and no goroutine leaves, or is a burst at most with a goroutine   *)
(* there, or grows by a burst at most with a goroutine that comes back.    *)
LEMMA BalanceMoves ==
    ASSUME WaitersTyped, BucketsTyped, LocalBounded, NEW w \in Waiters, NEW p, NEW l \in Nat,
           pc' = [pc EXCEPT ![w] = p], local' = [local EXCEPT ![BucketOf[w]] = l],
           \/ l <= local[BucketOf[w]] /\ (p \in Rest \/ pc[w] \notin Rest)
           \/ l <= Capacity /\ p \in Rest
           \/ l <= local[BucketOf[w]] + Capacity /\ p \in Rest /\ pc[w] \notin Rest
           \/ l = 0
    PROVE  LocalBounded'
<1> DEFINE b == BucketOf[w]
<1>1. b \in Buckets /\ local[b] \in Nat /\ Capacity \in Nat
  BY Constants DEF BucketsTyped
<1>2. /\ pc'[w] = p /\ \A v \in Waiters \ {w} : pc'[v] = pc[v]
      /\ local'[b] = l /\ \A c \in Buckets \ {b} : local'[c] = local[c]
  BY <1>1 DEF WaitersTyped, BucketsTyped
<1>3. ASSUME NEW c \in Buckets \ {b} PROVE Resting(c)' = Resting(c)
  BY <1>2 DEF Resting, WaitersOf
<1>4. ASSUME NEW c \in Buckets \ {b} PROVE local'[c] <= Capacity * Cardinality(Resting(c)')
  BY <1>2, <1>3, BoundIs
<1> DEFINE n == Cardinality(Resting(b))
           m == Cardinality(Resting(b)')
<1>5. n \in Nat /\ m \in Nat /\ local[b] <= Capacity * n
  BY <1>1, RestingFinite, BoundIs
<1>6. w \in WaitersOf(b)
  BY DEF WaitersOf
<1>7. CASE l = 0
  <2>1. local'[b] <= Capacity * m
    BY <1>2, <1>5, <1>7, CapacityTimes
  <2>2. QED
    BY <1>4, <2>1, BoundIsNext
<1>8. CASE l <= local[b] /\ (p \in Rest \/ pc[w] \notin Rest)
  <2>1. Resting(b) \subseteq Resting(b)'
    BY <1>2, <1>8 DEF Resting, WaitersOf
  <2>2. n <= m
    BY <2>1, RestingFinite, FS_Subset
  <2>3. Capacity * n <= Capacity * m /\ Capacity * n \in Nat /\ Capacity * m \in Nat
    BY <1>5, <2>2, CapacityTimes
  <2> HIDE DEF n, m
  <2>4. local'[b] <= Capacity * m
    <3> DEFINE x == Capacity * n
               y == Capacity * m
    <3>1. x <= y /\ x \in Nat /\ y \in Nat /\ local[b] <= x
      BY <1>5, <2>3
    <3> HIDE DEF x, y
    <3>2. local'[b] <= y
      BY <1>1, <1>2, <1>8, <3>1
    <3>3. QED
      BY <3>2 DEF y
  <2>5. QED
    BY <1>4, <2>4, BoundIsNext DEF m
<1>9. CASE l <= Capacity /\ p \in Rest
  <2>1. w \in Resting(b)'
    BY <1>2, <1>6, <1>9 DEF Resting, WaitersOf
  <2>2. m # 0
    BY <2>1, RestingFinite, FS_EmptySet
  <2>3. Capacity * m >= Capacity /\ Capacity * m \in Nat
    BY <1>5, <2>2, CapacityTimes
  <2> HIDE DEF n, m
  <2>4. local'[b] <= Capacity * m
    <3> DEFINE y == Capacity * m
    <3>1. Capacity <= y /\ y \in Nat
      BY <2>3
    <3> HIDE DEF y
    <3>2. local'[b] <= y
      BY <1>1, <1>2, <1>9, <3>1
    <3>3. QED
      BY <3>2 DEF y
  <2>5. QED
    BY <1>4, <2>4, BoundIsNext DEF m
<1>10. CASE l <= local[b] + Capacity /\ p \in Rest /\ pc[w] \notin Rest
  <2>1. Resting(b)' = Resting(b) \cup {w} /\ w \notin Resting(b)
    BY <1>2, <1>6, <1>10 DEF Resting, WaitersOf
  <2>2. m = n + 1
    BY <2>1, RestingFinite, FS_AddElement
  <2>3. Capacity * m >= Capacity * n + Capacity /\ Capacity * n \in Nat /\ Capacity * m \in Nat
    BY <1>5, <2>2, CapacityTimes
  <2> HIDE DEF n, m
  <2>4. local'[b] <= Capacity * m
    <3> DEFINE x == Capacity * n
               y == Capacity * m
    <3>1. y >= x + Capacity /\ x \in Nat /\ y \in Nat /\ local[b] <= x
      BY <1>5, <2>3
    <3> HIDE DEF x, y
    <3>2. local'[b] <= y
      BY <1>1, <1>2, <1>10, <3>1
    <3>3. QED
      BY <3>2 DEF y
  <2>5. QED
    BY <1>4, <2>4, BoundIsNext DEF m
<1>11. QED
  BY <1>7, <1>8, <1>9, <1>10

LEMMA NextLocal == Inv /\ LocalBounded /\ [Next]_vars => LocalBounded'
<1> SUFFICES ASSUME Inv, LocalBounded, [Next]_vars PROVE LocalBounded'
  OBVIOUS
<1>0. BucketsTyped /\ WaitersTyped /\ CallsSound
  BY TypeParts DEF Inv
<1>1. ASSUME NEW w \in Waiters, NEW n \in Counts, Wait(w, n) PROVE LocalBounded'
  <2> DEFINE b == BucketOf[w]
             have == Have(b)
  <2>1. /\ b \in Buckets /\ have \in Nat /\ n \in Nat /\ n >= 1 /\ local[b] \in Nat
        /\ have <= local[b] \/ have <= Capacity
    BY <1>0, WaiterFacts, HaveRange, Constants DEF BucketsTyped
  <2>2. /\ pc[w] = "idle"
        /\ \/ have >= n /\ local' = [local EXCEPT ![b] = have - n] /\ UNCHANGED pc
           \/ /\ local' = [local EXCEPT ![b] = 0]
              /\ \E p \in Labels : pc' = [pc EXCEPT ![w] = p]
    BY <1>1 DEF Wait, Have, LocalAfter, Degrade, Goto, Labels
  <2> HIDE DEF have
  <2>3. CASE have >= n /\ local' = [local EXCEPT ![b] = have - n] /\ UNCHANGED pc
    <3>1. pc' = [pc EXCEPT ![w] = "idle"] /\ "idle" \in Rest
      BY <1>0, <2>2, <2>3, WaiterStays DEF Rest
    <3>2. have - n \in Nat /\ (have - n <= local[b] \/ have - n <= Capacity)
      BY <2>1, <2>3, Constants
    <3>3. QED
      BY <1>0, <2>3, <3>1, <3>2, BalanceMoves
  <2>4. CASE /\ local' = [local EXCEPT ![b] = 0]
             /\ \E p \in Labels : pc' = [pc EXCEPT ![w] = p]
    BY <1>0, <2>4, BalanceMoves
  <2>5. QED
    BY <2>2, <2>3, <2>4
<1>2. ASSUME NEW w \in Waiters, Answer(w) PROVE LocalBounded'
  <2> DEFINE b == BucketOf[w]
             granted == call[w].granted
  <2>1. /\ b \in Buckets /\ granted \in Nat /\ need[w] \in Nat /\ local[b] \in Nat
        /\ granted <= Most(need[w], Capacity) /\ need[w] > 0 /\ pc[w] = "calling"
    <3>1. pc[w] = "calling"
      BY <1>2 DEF Answer
    <3>2. Sound(pc[w], need[w], call[w]) /\ need[w] \in Nat /\ b \in Buckets /\ granted \in Nat
      BY <1>0, WaiterFacts, CallFields
    <3>3. QED
      BY <1>0, <3>1, <3>2 DEF Sound, BucketsTyped
  <2>2. \/ /\ granted >= need[w] /\ local' = [local EXCEPT ![b] = local[b] + granted - need[w]]
           /\ pc' = [pc EXCEPT ![w] = "idle"]
        \/ local' = local /\ pc' = [pc EXCEPT ![w] = "recheck"]
    BY <1>0, <1>2, <2>1 DEF Answer, Done, Goto, BucketsTyped
  <2>3. "calling" \notin Rest /\ "idle" \in Rest
    BY DEF Rest
  <2> HIDE DEF granted
  <2>4. CASE /\ granted >= need[w] /\ local' = [local EXCEPT ![b] = local[b] + granted - need[w]]
             /\ pc' = [pc EXCEPT ![w] = "idle"]
    <3>1. /\ local[b] + granted - need[w] \in Nat
          /\ local[b] + granted - need[w] <= local[b] + Capacity
      BY <2>1, <2>4, Constants DEF Most
    <3>2. QED
      BY <1>0, <2>1, <2>3, <2>4, <3>1, BalanceMoves
  <2>5. CASE local' = local /\ pc' = [pc EXCEPT ![w] = "recheck"]
    <3>1. local' = [local EXCEPT ![b] = local[b]] /\ local[b] <= local[b]
      BY <1>0, <2>1, <2>5 DEF BucketsTyped
    <3>2. QED
      BY <1>0, <2>1, <2>3, <2>5, <3>1, BalanceMoves
  <2>6. QED
    BY <2>2, <2>4, <2>5
<1>3. ASSUME NEW w \in Waiters, Poll(w) \/ CallFails(w) \/ Recheck(w) \/ Nap(w) \/ WakeUp(w)
      PROVE  LocalBounded'
  <2> DEFINE b == BucketOf[w]
  <2>1. /\ local' = local
        /\ \E p \in Labels : pc' = [pc EXCEPT ![w] = p] /\ (p \in Rest \/ pc[w] \notin Rest)
    BY <1>3 DEF Poll, CallFails, Recheck, Nap, WakeUp, Done, Degrade, Goto, Rest, Labels
  <2>2. b \in Buckets /\ local[b] \in Nat /\ local[b] <= local[b] /\ local' = [local EXCEPT ![b] = local[b]]
    BY <1>0, <2>1, WaiterFacts DEF BucketsTyped
  <2>3. QED
    BY <1>0, <2>1, <2>2, BalanceMoves
<1>4. CASE UNCHANGED <<pc, local>>
  BY <1>4 DEF LocalBounded, WaitersOf
<1>5. ASSUME NEW w \in Waiters, LuaTokenBucket(w) PROVE UNCHANGED <<pc, local>>
  BY <1>5 DEF LuaTokenBucket
<1>6. ASSUME NEW b \in Buckets, ProbeSucceeds(b) PROVE UNCHANGED <<pc, local>>
  BY <1>6 DEF ProbeSucceeds
<1>7. ASSUME Tick \/ UNCHANGED vars PROVE UNCHANGED <<pc, local>>
  BY <1>7 DEF Tick, vars
<1>8. QED
  BY <1>1, <1>2, <1>3, <1>4, <1>5, <1>6, <1>7 DEF Next, WaiterStep

(* Concurrent waiters may each add the surplus of a prefetch, but the      *)
(* local tier never holds more than a burst for each goroutine that is not *)
(* in the polling loop: "hb.local" stays bounded although nothing caps it. *)
THEOREM LocalStaysBounded == Spec => []LocalBounded
<1>1. Init => LocalBounded
  <2> SUFFICES ASSUME Init, NEW b \in Buckets PROVE local[b] <= Capacity * Cardinality(Resting(b))
    BY BoundIs
  <2>1. local[b] = 0
    BY DEF Init
  <2>2. QED
    BY <2>1, RestingFinite, CapacityTimes
<1>2. QED
  BY <1>1, InitInv, NextInv, NextLocal, PTL DEF Spec

-----------------------------------------------------------------------------
(* Sums over finite sets, in the order in which FoldSet takes the elements *)
(* out: they exist, and they differ by as much as their terms do.          *)

(* The induction theorems of the library have a predicate as a parameter,  *)
(* which the provers cannot instantiate.  This one has a set in its place; *)
(* it follows from the well-foundedness of < on the naturals.              *)
LEMMA NatSetInduction ==
    ASSUME NEW T, T \subseteq Nat, 0 \in T, \A n \in T : n + 1 \in T
    PROVE  \A n \in Nat : n \in T
<1> SUFFICES ASSUME NEW m \in Nat, m \notin T PROVE FALSE
  OBVIOUS
<1> DEFINE U == Nat \ T
<1>1. U \subseteq Nat /\ U # {}
  OBVIOUS
<1>2. PICK x \in U : \A y \in U : ~(<<y, x>> \in OpToRel(<, Nat))
  BY <1>1, NatLessThanWellFounded, WFMin
<1>3. x \in Nat /\ x # 0 /\ x - 1 \in Nat
  OBVIOUS
<1>4. x - 1 \in T
  <2>1. CASE x - 1 \in U
    <3>1. <<x - 1, x>> \in OpToRel(<, Nat)
      BY <1>3 DEF OpToRel
    <3>2. QED
      BY <1>2, <2>1, <3>1
  <2>2. QED
    BY <1>3, <2>1
<1>5. x = (x - 1) + 1
  BY <1>3
<1>6. QED
  BY <1>2, <1>4, <1>5

(* The element that FoldSet takes out of a set first. *)
Pick(s) == CHOOSE x \in s : TRUE

(* The subsets of S with n elements at most. *)
Upto(S, n) == {s \in SUBSET S : Cardinality(s) <= n}

LEMMA PickOne ==
    ASSUME NEW S, IsFiniteSet(S), NEW n \in Nat, NEW s \in Upto(S, n + 1), s # {}
    PROVE  Pick(s) \in s /\ Pick(s) \in S /\ s \ {Pick(s)} \in Upto(S, n)
<1>1. Pick(s) \in s /\ s \subseteq S
  BY DEF Pick, Upto
<1>2. IsFiniteSet(s) /\ Cardinality(s) <= n + 1
  BY <1>1, FS_Subset DEF Upto
<1>3. Cardinality(s \ {Pick(s)}) = Cardinality(s) - 1 /\ Cardinality(s) \in Nat
  BY <1>1, <1>2, FS_RemoveElement, FS_CardinalityType
<1>4. Cardinality(s \ {Pick(s)}) <= n
  BY <1>2, <1>3
<1>5. QED
  BY <1>1, <1>4 DEF Upto

LEMMA UptoFacts ==
    ASSUME NEW S, IsFiniteSet(S)
    PROVE  /\ Upto(S, 0) = {{}}
           /\ \A n \in Nat : Upto(S, n) \subseteq Upto(S, n + 1)
           /\ Upto(S, Cardinality(S)) = SUBSET S
           /\ \A n \in Nat : {} \in Upto(S, n)
<1>1. \A s \in SUBSET S : /\ IsFiniteSet(s) /\ Cardinality(s) \in Nat /\ Cardinality(S) \in Nat
                          /\ Cardinality(s) <= Cardinality(S)
                          /\ Cardinality(s) = 0 <=> s = {}
  BY FS_Subset, FS_CardinalityType, FS_EmptySet
<1>2. {} \in SUBSET S
  OBVIOUS
<1>3. \A s \in SUBSET S : Cardinality(s) <= 0 <=> s = {}
  BY <1>1
<1>4. Upto(S, 0) = {{}}
  BY <1>2, <1>3 DEF Upto
<1>5. \A n \in Nat, s \in SUBSET S : Cardinality(s) <= n => Cardinality(s) <= n + 1
  BY <1>1
<1>6. \A n \in Nat : Cardinality({}) <= n
  BY <1>1, <1>2
<1>7. QED
  BY <1>1, <1>2, <1>4, <1>5, <1>6 DEF Upto

(* g is the sum of f over every set in D. *)
Sums(g, f, D) ==
    \A s \in D : g[s] = IF s = {} THEN 0 ELSE g[s \ {Pick(s)}] + f[Pick(s)]

LEMMA SumsExist ==
    ASSUME NEW S, IsFiniteSet(S), NEW f \in [S -> Int]
    PROVE  \E g \in [SUBSET S -> Int] : Sums(g, f, SUBSET S)
<1> DEFINE T == {n \in Nat : \E g \in [Upto(S, n) -> Int] : Sums(g, f, Upto(S, n))}
<1>1. 0 \in T
  <2> DEFINE g == [s \in Upto(S, 0) |-> 0]
  <2>1. g \in [Upto(S, 0) -> Int] /\ Sums(g, f, Upto(S, 0))
    BY UptoFacts DEF Sums
  <2>2. QED
    BY <2>1
<1>2. ASSUME NEW n \in T PROVE n + 1 \in T
  <2>1. n \in Nat /\ n + 1 \in Nat
    OBVIOUS
  <2>2. PICK g \in [Upto(S, n) -> Int] : Sums(g, f, Upto(S, n))
    OBVIOUS
  <2> DEFINE h == [s \in Upto(S, n + 1) |-> IF s = {} THEN 0 ELSE g[s \ {Pick(s)}] + f[Pick(s)]]
  <2>3. ASSUME NEW s \in Upto(S, n + 1), s # {}
        PROVE  /\ g[s \ {Pick(s)}] \in Int /\ f[Pick(s)] \in Int
               /\ h[s \ {Pick(s)}] = g[s \ {Pick(s)}]
    <3>1. s \ {Pick(s)} \in Upto(S, n) /\ Pick(s) \in S
      BY <2>1, <2>3, PickOne
    <3>2. s \ {Pick(s)} \in Upto(S, n + 1)
      BY <2>1, <3>1, UptoFacts
    <3>3. h[s \ {Pick(s)}] = g[s \ {Pick(s)}]
      BY <2>2, <3>1, <3>2 DEF Sums
    <3>4. QED
      BY <3>1, <3>3
  <2>4. h \in [Upto(S, n + 1) -> Int]
    <3>1. ASSUME NEW s \in Upto(S, n + 1)
          PROVE  (IF s = {} THEN 0 ELSE g[s \ {Pick(s)}] + f[Pick(s)]) \in Int
      <4>1. CASE s = {}
        BY <4>1
      <4>2. CASE s # {}
        <5> DEFINE a == g[s \ {Pick(s)}]
                   b == f[Pick(s)]
        <5>1. a \in Int /\ b \in Int
          BY <2>3, <4>2
        <5> HIDE DEF a, b
        <5>2. a + b \in Int
          BY <5>1
        <5>3. QED
          BY <4>2, <5>2 DEF a, b
      <4>3. QED
        BY <4>1, <4>2
    <3>2. QED
      BY <3>1
  <2>5. Sums(h, f, Upto(S, n + 1))
    BY <2>3 DEF Sums
  <2>6. QED
    BY <2>1, <2>4, <2>5
<1>3. Cardinality(S) \in T
  <2> HIDE DEF T
  <2>1. T \subseteq Nat
    BY DEF T
  <2>2. QED
    BY <1>1, <1>2, <2>1, NatSetInduction, FS_CardinalityType
<1>4. QED
  BY <1>3, UptoFacts

(* There is only one. *)
LEMMA SumsUnique ==
    ASSUME NEW S, IsFiniteSet(S), NEW f, NEW g, NEW h,
           Sums(g, f, SUBSET S), Sums(h, f, SUBSET S)
    PROVE  \A s \in SUBSET S : h[s] = g[s]
<1> DEFINE T == {n \in Nat : \A s \in Upto(S, n) : h[s] = g[s]}
<1>1. 0 \in T
  <2>1. {} \in SUBSET S /\ \A s \in Upto(S, 0) : s = {}
    BY UptoFacts
  <2>2. \A s \in Upto(S, 0) : h[s] = g[s]
    BY <2>1 DEF Sums
  <2>3. QED
    BY <2>2
<1>2. ASSUME NEW n \in T PROVE n + 1 \in T
  <2>1. n \in Nat /\ n + 1 \in Nat /\ \A s \in Upto(S, n) : h[s] = g[s]
    OBVIOUS
  <2>2. ASSUME NEW s \in Upto(S, n + 1) PROVE h[s] = g[s]
    <3>1. s \in SUBSET S
      BY DEF Upto
    <3>2. s # {} => h[s \ {Pick(s)}] = g[s \ {Pick(s)}]
      BY <2>1, PickOne
    <3>3. QED
      BY <3>1, <3>2 DEF Sums
  <2>3. QED
    BY <2>1, <2>2
<1>3. Cardinality(S) \in T
  <2> HIDE DEF T
  <2>1. T \subseteq Nat
    BY DEF T
  <2>2. QED
    BY <1>1, <1>2, <2>1, NatSetInduction, FS_CardinalityType
<1>4. QED
  BY <1>3, UptoFacts

(* The sums g of f and h of e over s differ by as much as f and e at w. *)
DifferBy(g, h, f, e, w, s) ==
    /\ w \in s => h[s] = g[s] + (e[w] - f[w])
    /\ w \notin s => h[s] = g[s]

(* Two sums over the same set whose terms differ only at w. *)
LEMMA SumsDiffer ==
    ASSUME NEW S, IsFiniteSet(S), NEW f \in [S -> Int], NEW e \in [S -> Int], NEW w,
           \A v \in S \ {w} : e[v] = f[v],
           NEW g \in [SUBSET S -> Int], NEW h \in [SUBSET S -> Int],
           Sums(g, f, SUBSET S), Sums(h, e, SUBSET S)
    PROVE  \A s \in SUBSET S : DifferBy(g, h, f, e, w, s)
<1> USE DEF DifferBy
<1> DEFINE Same(s) == DifferBy(g, h, f, e, w, s)
           T == {n \in Nat : \A s \in Upto(S, n) : Same(s)}
<1>0. Same({})
  <2>1. {} \in SUBSET S /\ w \notin {}
    OBVIOUS
  <2>2. g[{}] = 0 /\ h[{}] = 0
    BY <2>1 DEF Sums
  <2>3. QED
    BY <2>1, <2>2
<1>1. 0 \in T
  <2>1. \A s \in Upto(S, 0) : s = {}
    BY UptoFacts
  <2>2. \A s \in Upto(S, 0) : Same(s)
    BY <1>0, <2>1
  <2>3. QED
    BY <2>2
<1>2. ASSUME NEW n \in T PROVE n + 1 \in T
  <2>1. n \in Nat /\ n + 1 \in Nat
    OBVIOUS
  <2>2. ASSUME NEW s \in Upto(S, n + 1) PROVE Same(s)
    <3>1. CASE s = {}
      BY <1>0, <3>1
    <3>2. CASE s # {}
      <4> DEFINE x == Pick(s)
                 t == s \ {x}
      <4>1. t \in Upto(S, n) /\ x \in s /\ x \in S
        BY <2>1, <3>2, PickOne
      <4>2. Same(t) /\ s \in SUBSET S /\ t \in SUBSET S
        BY <4>1 DEF Upto
      <4>3. g[s] = g[t] + f[x] /\ h[s] = h[t] + e[x]
        BY <3>2, <4>2 DEF Sums
      <4>4. g[t] \in Int /\ h[t] \in Int /\ f[x] \in Int /\ e[x] \in Int
        BY <4>1, <4>2
      <4>5. CASE x = w
        BY <4>1, <4>2, <4>3, <4>4, <4>5
      <4>6. CASE x # w
        <5>1. e[x] = f[x] /\ (w \in t <=> w \in s)
          BY <4>1, <4>6
        <5>2. CASE w \in s
          <6>1. e[w] \in Int /\ f[w] \in Int
            BY <4>2, <5>2
          <6>2. QED
            BY <4>2, <4>3, <4>4, <5>1, <5>2, <6>1
        <5>3. CASE w \notin s
          BY <4>2, <4>3, <4>4, <5>1, <5>3
        <5>4. QED
          BY <5>2, <5>3
      <4>7. QED
        BY <4>5, <4>6
    <3>3. QED
      BY <3>1, <3>2
  <2>3. QED
    BY <2>1, <2>2
<1>3. Cardinality(S) \in T
  <2> HIDE DEF T
  <2>1. T \subseteq Nat
    BY DEF T
  <2>2. QED
    BY <1>1, <1>2, <2>1, NatSetInduction, FS_CardinalityType
<1>4. QED
  BY <1>3, UptoFacts

(* A sum whose terms are all nothing. *)
LEMMA SumsOfZero ==
    ASSUME NEW S, IsFiniteSet(S), NEW f \in [S -> Int], \A v \in S : f[v] = 0,
           NEW g \in [SUBSET S -> Int], Sums(g, f, SUBSET S)
    PROVE  \A s \in SUBSET S : g[s] = 0
<1> DEFINE T == {n \in Nat : \A s \in Upto(S, n) : g[s] = 0}
<1>1. 0 \in T
  <2>1. {} \in SUBSET S /\ \A s \in Upto(S, 0) : s = {}
    BY UptoFacts
  <2>2. g[{}] = 0
    BY <2>1 DEF Sums
  <2>3. \A s \in Upto(S, 0) : g[s] = 0
    BY <2>1, <2>2
  <2>4. QED
    BY <2>3
<1>2. ASSUME NEW n \in T PROVE n + 1 \in T
  <2>1. n \in Nat /\ n + 1 \in Nat /\ \A s \in Upto(S, n) : g[s] = 0
    OBVIOUS
  <2>2. ASSUME NEW s \in Upto(S, n + 1) PROVE g[s] = 0
    <3>1. s \in SUBSET S
      BY DEF Upto
    <3>2. CASE s # {}
      <4>1. g[s \ {Pick(s)}] = 0 /\ f[Pick(s)] = 0
        BY <2>1, <3>2, PickOne
      <4>2. g[s] = g[s \ {Pick(s)}] + f[Pick(s)]
        BY <3>1, <3>2 DEF Sums
      <4>3. QED
        BY <4>1, <4>2
    <3>3. QED
      BY <3>1, <3>2 DEF Sums
  <2>3. QED
    BY <2>1, <2>2
<1>3. Cardinality(S) \in T
  <2> HIDE DEF T
  <2>1. T \subseteq Nat
    BY DEF T
  <2>2. QED
    BY <1>1, <1>2, <2>1, NatSetInduction, FS_CardinalityType
<1>4. QED
  BY <1>3, UptoFacts

-----------------------------------------------------------------------------
(* No token made up or lost *)

(* What the waiters in S hold, given their counts and needs. *)
Held(c, n, S) == FoldSet(LAMBDA w, acc : acc + (c[w] - n[w]), 0, S)

LEMMA HeldBy ==
    ASSUME NEW b
    PROVE  /\ FoldSet(LAMBDA w, acc : acc + Paid(w), 0, WaitersOf(b)) =
                  Held(count, need, WaitersOf(b))
           /\ FoldSet(LAMBDA w, acc : acc + Paid(w), 0, WaitersOf(b))' =
                  Held(count', need', WaitersOf(b))
BY DEF FoldSet, MapThenFoldSet, Held, Paid, WaitersOf

(* FoldSet computes the sum. *)
LEMMA HeldIsSum ==
    ASSUME NEW S, IsFiniteSet(S), NEW c, NEW n,
           NEW g \in [SUBSET S -> Int], Sums(g, [w \in S |-> c[w] - n[w]], SUBSET S)
    PROVE  Held(c, n, S) = g[S]
<1> DEFINE f == [w \in S |-> c[w] - n[w]]
           Rec(h) == h = [s \in SUBSET S |->
                            IF s = {} THEN 0 ELSE h[s \ {Pick(s)}] + (c[Pick(s)] - n[Pick(s)])]
           it == CHOOSE h : Rec(h)
<1>1. \A s \in SUBSET S : s # {} => f[Pick(s)] = c[Pick(s)] - n[Pick(s)]
  BY DEF Pick
<1>2. Rec(g)
  BY <1>1 DEF Sums
<1>3. Rec(it)
  <2> HIDE DEF Rec
  <2>1. QED
    BY <1>2
<1>4. Sums(it, f, SUBSET S)
  <2> HIDE DEF it
  <2>1. QED
    BY <1>1, <1>3 DEF Sums
<1>5. Held(c, n, S) = it[S]
  BY DEF Held, FoldSet, MapThenFoldSet, Pick
<1> HIDE DEF it, f, Rec
<1>6. Sums(g, f, SUBSET S)
  BY DEF f
<1>7. \A s \in SUBSET S : it[s] = g[s]
  BY <1>4, <1>6, SumsUnique
<1>8. QED
  BY <1>5, <1>7

(* When the counts and needs of one waiter at most change, what is held    *)
(* changes by as much as that waiter's part.                               *)
LEMMA HeldMoves ==
    ASSUME NEW S \in SUBSET Waiters, NEW w \in Waiters,
           NEW c \in [Waiters -> Nat], NEW n \in [Waiters -> Nat],
           NEW d \in [Waiters -> Nat], NEW m \in [Waiters -> Nat],
           \A v \in Waiters \ {w} : d[v] = c[v] /\ m[v] = n[v]
    PROVE  /\ Held(c, n, S) \in Int
           /\ w \in S => Held(d, m, S) = Held(c, n, S) + ((d[w] - m[w]) - (c[w] - n[w]))
           /\ w \notin S => Held(d, m, S) = Held(c, n, S)
<1> DEFINE f == [v \in S |-> c[v] - n[v]]
           e == [v \in S |-> d[v] - m[v]]
<1>1. IsFiniteSet(S)
  BY HybridBucketAssumption, FS_Subset
<1>2. f \in [S -> Int] /\ e \in [S -> Int] /\ \A v \in S \ {w} : e[v] = f[v]
  OBVIOUS
<1>3. w \in S => e[w] - f[w] = (d[w] - m[w]) - (c[w] - n[w])
  OBVIOUS
<1>4. PICK g \in [SUBSET S -> Int] : Sums(g, f, SUBSET S)
  <2> HIDE DEF f
  <2>1. QED
    BY <1>1, <1>2, SumsExist
<1>5. PICK h \in [SUBSET S -> Int] : Sums(h, e, SUBSET S)
  <2> HIDE DEF e
  <2>1. QED
    BY <1>1, <1>2, SumsExist
<1>6. Held(c, n, S) = g[S] /\ Held(d, m, S) = h[S]
  BY <1>1, <1>4, <1>5, HeldIsSum
<1> HIDE DEF f, e
<1>7. (w \in S => h[S] = g[S] + (e[w] - f[w])) /\ (w \notin S => h[S] = g[S])
  <2>1. DifferBy(g, h, f, e, w, S)
    BY <1>1, <1>2, <1>4, <1>5, SumsDiffer
  <2>2. QED
    BY <2>1 DEF DifferBy
<1>8. g[S] \in Int
  OBVIOUS
<1>9. QED
  BY <1>3, <1>6, <1>7, <1>8

LEMMA NothingHeld ==
    ASSUME NEW S \in SUBSET Waiters, NEW c \in [Waiters -> Nat], NEW n \in [Waiters -> Nat],
           \A v \in Waiters : c[v] = 0 /\ n[v] = 0
    PROVE  Held(c, n, S) = 0
<1> DEFINE f == [v \in S |-> c[v] - n[v]]
<1>1. IsFiniteSet(S)
  BY HybridBucketAssumption, FS_Subset
<1>2. f \in [S -> Int] /\ \A v \in S : f[v] = 0
  OBVIOUS
<1>3. PICK g \in [SUBSET S -> Int] : Sums(g, f, SUBSET S)
  <2> HIDE DEF f
  <2>1. QED
    BY <1>1, <1>2, SumsExist
<1>4. Held(c, n, S) = g[S]
  BY <1>1, <1>3, HeldIsSum
<1> HIDE DEF f
<1>5. S \in SUBSET S
  OBVIOUS
<1>6. QED
  BY <1>1, <1>2, <1>3, <1>4, <1>5, SumsOfZero

(* A goroutine outside Wait holds nothing. *)
IdleHoldsNothing == \A w \in Waiters : pc[w] = "idle" => count[w] = 0

Conserved == TokensConserved /\ IdleHoldsNothing

LEMMA ConservedIs ==
    TokensConserved <=> \A b \in Buckets : ledger[b] = local[b] + Held(count, need, WaitersOf(b))
BY HeldBy DEF TokensConserved

LEMMA ConservedIsNext ==
    TokensConserved' <=>
        \A b \in Buckets : ledger'[b] = local'[b] + Held(count', need', WaitersOf(b))
BY HeldBy DEF TokensConserved

(* One waiter's step, with the ledger, the balance and its own part. *)
LEMMA LedgerMoves ==
    ASSUME WaitersTyped, WaitersTyped', BucketsTyped, TokensConserved, NEW w \in Waiters,
           NEW l \in Nat, NEW e \in Int, NEW c \in Nat, NEW n \in Nat,
           local' = [local EXCEPT ![BucketOf[w]] = l],
           ledger' = [ledger EXCEPT ![BucketOf[w]] = e],
           count' = [count EXCEPT ![w] = c], need' = [need EXCEPT ![w] = n],
           e - ledger[BucketOf[w]] = (l - local[BucketOf[w]]) + (c - n) - (count[w] - need[w])
    PROVE  TokensConserved'
<1> SUFFICES ASSUME NEW b \in Buckets
             PROVE  ledger'[b] = local'[b] + Held(count', need', WaitersOf(b))
  BY ConservedIsNext
<1>1. /\ count \in [Waiters -> Nat] /\ need \in [Waiters -> Nat]
      /\ count' \in [Waiters -> Nat] /\ need' \in [Waiters -> Nat]
      /\ \A v \in Waiters \ {w} : count'[v] = count[v] /\ need'[v] = need[v]
      /\ count'[w] = c /\ need'[w] = n
  BY DEF WaitersTyped
<1>2. /\ local[b] \in Nat /\ ledger[b] \in Int
      /\ ledger[b] = local[b] + Held(count, need, WaitersOf(b))
  BY ConservedIs DEF BucketsTyped
<1>3. WaitersOf(b) \in SUBSET Waiters /\ (w \in WaitersOf(b) <=> BucketOf[w] = b)
  BY DEF WaitersOf
<1> DEFINE x == Held(count, need, WaitersOf(b))
           y == Held(count', need', WaitersOf(b))
<1>4. /\ x \in Int
      /\ BucketOf[w] = b => y = x + ((count'[w] - need'[w]) - (count[w] - need[w]))
      /\ BucketOf[w] # b => y = x
  <2>1. ASSUME NEW d \in [Waiters -> Nat], NEW m \in [Waiters -> Nat],
               \A v \in Waiters \ {w} : d[v] = count[v] /\ m[v] = need[v]
        PROVE  /\ x \in Int
               /\ BucketOf[w] = b => Held(d, m, WaitersOf(b)) = x + ((d[w] - m[w]) - (count[w] - need[w]))
               /\ BucketOf[w] # b => Held(d, m, WaitersOf(b)) = x
    BY <1>1, <1>3, <2>1, HeldMoves
  <2>2. QED
    BY <1>1, <2>1
<1> HIDE DEF x, y
<1>5. ledger[b] = local[b] + x
  BY <1>2 DEF x
<1>6. ledger'[b] = local'[b] + y
  <2>1. CASE BucketOf[w] = b
    <3>1. ledger'[b] = e /\ local'[b] = l
      BY <2>1 DEF BucketsTyped
    <3>2. count[w] \in Nat /\ need[w] \in Nat
      BY <1>1
    <3>3. QED
      BY <1>1, <1>2, <1>4, <1>5, <2>1, <3>1, <3>2
  <2>2. CASE BucketOf[w] # b
    <3>1. ledger'[b] = ledger[b] /\ local'[b] = local[b]
      BY <2>2 DEF BucketsTyped
    <3>2. QED
      BY <1>3, <1>4, <1>5, <2>2, <3>1
  <2>3. QED
    BY <2>1, <2>2
<1>7. QED
  BY <1>6 DEF y

LEMMA NextConserved == Inv /\ Inv' /\ Conserved /\ [Next]_vars => Conserved'
<1> SUFFICES ASSUME Inv, Inv', Conserved, [Next]_vars PROVE Conserved'
  OBVIOUS
<1>0. BucketsTyped /\ WaitersTyped /\ CallsSound /\ WaitersTyped'
  <2>1. TypeOK'
    BY DEF Inv
  <2>2. WaitersTyped'
    BY <2>1 DEF TypeOK, WaitersTyped, Labels, Calls
  <2>3. QED
    BY <2>2, TypeParts DEF Inv
<1>1. ASSUME NEW w \in Waiters, NEW n \in Counts, Wait(w, n) PROVE Conserved'
  <2> DEFINE b == BucketOf[w]
             have == Have(b)
  <2>1. /\ b \in Buckets /\ have \in Nat /\ n \in Nat /\ n >= 1
        /\ local[b] \in Nat /\ ledger[b] \in Int
    BY <1>0, WaiterFacts, HaveRange, Constants DEF BucketsTyped
  <2>2. /\ pc[w] = "idle"
        /\ \/ /\ have >= n
              /\ local' = [local EXCEPT ![b] = have - n]
              /\ ledger' = [ledger EXCEPT ![b] = ledger[b] + (have - local[b]) - n]
              /\ UNCHANGED <<pc, count, need>>
           \/ /\ have < n
              /\ local' = [local EXCEPT ![b] = 0]
              /\ count' = [count EXCEPT ![w] = n]
              /\ need' = [need EXCEPT ![w] = n - have]
              /\ ledger' = [ledger EXCEPT ![b] = ledger[b] + (have - local[b])]
              /\ \E p \in Labels : p # "idle" /\ pc' = [pc EXCEPT ![w] = p]
    BY <1>0, <1>1, <2>1 DEF Wait, Have, LocalAfter, Degrade, Goto, Labels, BucketsTyped
  <2>3. count[w] = 0 /\ need[w] = 0
    <3>1. Sound(pc[w], need[w], call[w]) /\ need[w] \in Nat
      BY <1>0, WaiterFacts
    <3>2. QED
      BY <2>2, <3>1 DEF Conserved, IdleHoldsNothing, Sound
  <2> HIDE DEF have
  <2>4. CASE /\ have >= n
             /\ local' = [local EXCEPT ![b] = have - n]
             /\ ledger' = [ledger EXCEPT ![b] = ledger[b] + (have - local[b]) - n]
             /\ UNCHANGED <<pc, count, need>>
    <3> DEFINE l == have - n
               e == ledger[b] + (have - local[b]) - n
    <3>1. l \in Nat /\ e \in Int /\ e - ledger[b] = (l - local[b]) + (0 - 0) - (count[w] - need[w])
      BY <2>1, <2>3, <2>4
    <3>2. count' = [count EXCEPT ![w] = 0] /\ need' = [need EXCEPT ![w] = 0]
      BY <1>0, <2>3, <2>4, WaiterStays
    <3>3. local' = [local EXCEPT ![b] = l] /\ ledger' = [ledger EXCEPT ![b] = e]
      BY <2>4
    <3> HIDE DEF l, e
    <3>4. TokensConserved'
      BY <1>0, <3>1, <3>2, <3>3, LedgerMoves DEF Conserved
    <3>5. QED
      BY <2>4, <3>4 DEF Conserved, IdleHoldsNothing
  <2>5. CASE /\ have < n
             /\ local' = [local EXCEPT ![b] = 0]
             /\ count' = [count EXCEPT ![w] = n]
             /\ need' = [need EXCEPT ![w] = n - have]
             /\ ledger' = [ledger EXCEPT ![b] = ledger[b] + (have - local[b])]
             /\ \E p \in Labels : p # "idle" /\ pc' = [pc EXCEPT ![w] = p]
    <3> DEFINE m == n - have
               e == ledger[b] + (have - local[b])
    <3>1. m \in Nat /\ e \in Int /\ e - ledger[b] = (0 - local[b]) + (n - m) - (count[w] - need[w])
      BY <2>1, <2>3, <2>5
    <3>2. need' = [need EXCEPT ![w] = m] /\ ledger' = [ledger EXCEPT ![b] = e]
      BY <2>5
    <3> HIDE DEF m, e
    <3>3. TokensConserved'
      BY <1>0, <2>1, <2>5, <3>1, <3>2, LedgerMoves DEF Conserved
    <3>4. IdleHoldsNothing'
      BY <1>0, <2>5 DEF Conserved, IdleHoldsNothing, WaitersTyped
    <3>5. QED
      BY <3>3, <3>4 DEF Conserved
  <2>6. QED
    BY <2>2, <2>4, <2>5
<1>2. ASSUME NEW w \in Waiters, Answer(w) PROVE Conserved'
  <2> DEFINE b == BucketOf[w]
             granted == call[w].granted
  <2>1. /\ b \in Buckets /\ granted \in Nat /\ need[w] \in Nat /\ count[w] \in Nat
        /\ local[b] \in Nat /\ ledger[b] \in Int
    BY <1>0, WaiterFacts, CallFields DEF BucketsTyped
  <2>2. \/ /\ granted >= need[w]
           /\ local' = [local EXCEPT ![b] = local[b] + granted - need[w]]
           /\ ledger' = [ledger EXCEPT ![b] = ledger[b] + granted - count[w]]
           /\ pc' = [pc EXCEPT ![w] = "idle"]
           /\ count' = [count EXCEPT ![w] = 0] /\ need' = [need EXCEPT ![w] = 0]
        \/ /\ granted < need[w]
           /\ need' = [need EXCEPT ![w] = need[w] - granted]
           /\ ledger' = [ledger EXCEPT ![b] = ledger[b] + granted]
           /\ pc' = [pc EXCEPT ![w] = "recheck"]
           /\ UNCHANGED <<local, count>>
    BY <1>0, <1>2, <2>1 DEF Answer, Done, Goto, NeedAfter, BucketsTyped
  <2> HIDE DEF granted
  <2>3. CASE /\ granted >= need[w]
             /\ local' = [local EXCEPT ![b] = local[b] + granted - need[w]]
             /\ ledger' = [ledger EXCEPT ![b] = ledger[b] + granted - count[w]]
             /\ pc' = [pc EXCEPT ![w] = "idle"]
             /\ count' = [count EXCEPT ![w] = 0] /\ need' = [need EXCEPT ![w] = 0]
    <3> DEFINE l == local[b] + granted - need[w]
               e == ledger[b] + granted - count[w]
    <3>1. l \in Nat /\ e \in Int /\ e - ledger[b] = (l - local[b]) + (0 - 0) - (count[w] - need[w])
      BY <2>1, <2>3
    <3>2. local' = [local EXCEPT ![b] = l] /\ ledger' = [ledger EXCEPT ![b] = e]
      BY <2>3
    <3> HIDE DEF l, e
    <3>3. TokensConserved'
      BY <1>0, <2>3, <3>1, <3>2, LedgerMoves DEF Conserved
    <3>4. IdleHoldsNothing'
      BY <1>0, <2>3 DEF Conserved, IdleHoldsNothing, WaitersTyped
    <3>5. QED
      BY <3>3, <3>4 DEF Conserved
  <2>4. CASE /\ granted < need[w]
             /\ need' = [need EXCEPT ![w] = need[w] - granted]
             /\ ledger' = [ledger EXCEPT ![b] = ledger[b] + granted]
             /\ pc' = [pc EXCEPT ![w] = "recheck"]
             /\ UNCHANGED <<local, count>>
    <3> DEFINE m == need[w] - granted
               e == ledger[b] + granted
    <3>1. /\ m \in Nat /\ e \in Int
          /\ e - ledger[b] = (local[b] - local[b]) + (count[w] - m) - (count[w] - need[w])
      BY <2>1, <2>4
    <3>2. /\ need' = [need EXCEPT ![w] = m] /\ ledger' = [ledger EXCEPT ![b] = e]
          /\ local' = [local EXCEPT ![b] = local[b]] /\ count' = [count EXCEPT ![w] = count[w]]
      BY <1>0, <2>1, <2>4, WaiterStays DEF BucketsTyped
    <3> HIDE DEF m, e
    <3>3. TokensConserved'
      BY <1>0, <2>1, <3>1, <3>2, LedgerMoves DEF Conserved
    <3>4. IdleHoldsNothing'
      BY <1>0, <2>4 DEF Conserved, IdleHoldsNothing, WaitersTyped
    <3>5. QED
      BY <3>3, <3>4 DEF Conserved
  <2>5. QED
    BY <2>2, <2>3, <2>4
<1>3. ASSUME NEW w \in Waiters, WakeUp(w) PROVE Conserved'
  <2> DEFINE b == BucketOf[w]
             e == ledger[b] + need[w] - count[w]
  <2>1. /\ b \in Buckets /\ need[w] \in Nat /\ count[w] \in Nat
        /\ local[b] \in Nat /\ ledger[b] \in Int
    BY <1>0, WaiterFacts DEF BucketsTyped
  <2>2. /\ ledger' = [ledger EXCEPT ![b] = e] /\ pc' = [pc EXCEPT ![w] = "idle"]
        /\ count' = [count EXCEPT ![w] = 0] /\ need' = [need EXCEPT ![w] = 0]
        /\ local' = [local EXCEPT ![b] = local[b]]
    BY <1>0, <1>3, <2>1 DEF WakeUp, Done, Goto, BucketsTyped
  <2>3. e \in Int /\ e - ledger[b] = (local[b] - local[b]) + (0 - 0) - (count[w] - need[w])
    BY <2>1
  <2> HIDE DEF e
  <2>4. TokensConserved'
    BY <1>0, <2>1, <2>2, <2>3, LedgerMoves DEF Conserved
  <2>5. IdleHoldsNothing'
    BY <1>0, <2>2 DEF Conserved, IdleHoldsNothing, WaitersTyped
  <2>6. QED
    BY <2>4, <2>5 DEF Conserved
<1>4. CASE /\ UNCHANGED <<ledger, local, count, need>>
           /\ \/ UNCHANGED pc
              \/ \E w \in Waiters, p \in Labels : pc' = [pc EXCEPT ![w] = p] /\ pc[w] # "idle"
                                                 /\ p # "idle"
  <2>1. TokensConserved'
    BY <1>4, ConservedIs, ConservedIsNext DEF Conserved
  <2>2. IdleHoldsNothing'
    BY <1>0, <1>4 DEF Conserved, IdleHoldsNothing, WaitersTyped
  <2>3. QED
    BY <2>1, <2>2 DEF Conserved
<1>5. ASSUME NEW w \in Waiters, Poll(w) \/ CallFails(w) \/ Recheck(w) \/ Nap(w)
      PROVE  /\ UNCHANGED <<ledger, local, count, need>>
             /\ \E p \in Labels : pc' = [pc EXCEPT ![w] = p] /\ pc[w] # "idle" /\ p # "idle"
  BY <1>5 DEF Poll, CallFails, Recheck, Nap, Degrade, Goto, Labels
<1>6. ASSUME NEW w \in Waiters, LuaTokenBucket(w) PROVE UNCHANGED <<ledger, local, count, need, pc>>
  BY <1>6 DEF LuaTokenBucket
<1>7. ASSUME NEW b \in Buckets, ProbeSucceeds(b) PROVE UNCHANGED <<ledger, local, count, need, pc>>
  BY <1>7 DEF ProbeSucceeds
<1>8. ASSUME Tick \/ UNCHANGED vars PROVE UNCHANGED <<ledger, local, count, need, pc>>
  BY <1>8 DEF Tick, vars
<1>9. QED
  BY <1>1, <1>2, <1>3, <1>4, <1>5, <1>6, <1>7, <1>8 DEF Next, WaiterStep

(* What came in from Redis, from degraded accrual and from degraded sleep  *)
(* is what finished writes took plus what the local tier and unfinished    *)
(* waits hold, for any number of goroutines between the two critical       *)
(* sections of Wait.                                                       *)
THEOREM NoTokenLost == Spec => []TokensConserved
<1>1. Init => Conserved
  <2> SUFFICES ASSUME Init PROVE Conserved
    OBVIOUS
  <2>1. ASSUME NEW b \in Buckets PROVE ledger[b] = local[b] + Held(count, need, WaitersOf(b))
    <3>1. /\ ledger[b] = 0 /\ local[b] = 0 /\ WaitersOf(b) \in SUBSET Waiters
          /\ count \in [Waiters -> Nat] /\ need \in [Waiters -> Nat]
          /\ \A v \in Waiters : count[v] = 0 /\ need[v] = 0
      BY DEF Init, WaitersOf
    <3>2. Held(count, need, WaitersOf(b)) = 0
      BY <3>1, NothingHeld
    <3>3. QED
      BY <3>1, <3>2
  <2>2. QED
    BY <2>1, ConservedIs DEF Conserved, IdleHoldsNothing, Init
<1>2. QED
  BY <1>1, InitInv, NextInv, NextConserved, PTL DEF Spec, Conserved

-----------------------------------------------------------------------------
(* The script as a token bucket *)

Tokens == Accrued(0)
Drawn == [w \in Waiters |-> call[w].granted]

LEMMA TokensAre ==
    ASSUME RedisTyped
    PROVE  Tokens = Least(Capacity, rtokens + rage * Rate)
<1>1. rage \in Nat /\ rtokens \in 0..Capacity /\ Rate \in Nat /\ Capacity \in Nat
  BY MaxAgeFills, Constants DEF RedisTyped
<1>2. CASE rage > 0
  <2>1. rage - 0 = rage
    BY <1>1
  <2>2. QED
    BY <1>2, <2>1 DEF Tokens, Accrued
<1>3. CASE rage = 0
  <2>1. rage * Rate = 0 /\ Tokens = rtokens
    BY <1>1, <1>3 DEF Tokens, Accrued
  <2>2. QED
    BY <1>1, <2>1 DEF Least
<1>4. QED
  BY <1>1, <1>2, <1>3

(* A tick adds Rate, up to a full bucket, also where the age saturates. *)
LEMMA TickAccrues ==
    ASSUME RedisTyped, RedisTyped', rage' = Older(rage), rtokens' = rtokens
    PROVE  Tokens' = Least(Capacity, Tokens + Rate)
<1>1. /\ rage \in 0..MaxAge /\ rtokens \in 0..Capacity /\ Rate \in Nat /\ Capacity \in Nat
      /\ MaxAge \in Nat /\ MaxAge * Rate >= Capacity
  BY MaxAgeFills, Constants DEF RedisTyped
<1> DEFINE x == rage * Rate
           y == Older(rage) * Rate
<1>2. Tokens = Least(Capacity, rtokens + x)
  BY TokensAre
<1>3. Tokens' = Least(Capacity, rtokens + y)
  <2>1. /\ rage' \in Nat /\ rtokens' \in 0..Capacity
    BY MaxAgeFills DEF RedisTyped
  <2>2. Tokens' = IF rage' > 0 THEN Least(Capacity, rtokens' + (rage' - 0) * Rate) ELSE rtokens'
    BY DEF Tokens, Accrued
  <2>3. CASE rage' > 0
    <3>1. rage' - 0 = rage'
      BY <2>1
    <3>2. QED
      BY <2>2, <2>3, <3>1
  <2>4. CASE rage' = 0
    <3>1. y = 0 /\ Tokens' = rtokens
      BY <1>1, <2>1, <2>2, <2>4
    <3>2. QED
      BY <1>1, <3>1 DEF Least
  <2>5. QED
    BY <2>1, <2>3, <2>4
<1>4. x \in Nat /\ y \in Nat
  BY <1>1, OlderAge, ProductNat
<1>5. CASE rage < MaxAge
  <2>1. Older(rage) = rage + 1
    BY <1>1, <1>5 DEF Older, Least
  <2>2. y = x + Rate
    BY <1>1, <2>1
  <2> HIDE DEF x, y
  <2>3. QED
    BY <1>1, <1>2, <1>3, <1>4, <2>2 DEF Least
<1>6. CASE rage = MaxAge
  <2>1. Older(rage) = MaxAge
    BY <1>1, <1>6 DEF Older, Least
  <2>2. x >= Capacity /\ y >= Capacity
    BY <1>1, <1>6, <2>1
  <2> HIDE DEF x, y
  <2>3. QED
    BY <1>1, <1>2, <1>3, <1>4, <2>2 DEF Least
<1>7. QED
  BY <1>1, <1>5, <1>6

LEMMA LeastIsLeast == \A x, y : Ideal!Least(x, y) = Least(x, y)
BY DEF Ideal!Least, Least

LEMMA InitIdeal == Init => Ideal!Init
<1> SUFFICES ASSUME Init PROVE Ideal!Init
  OBVIOUS
<1>1. Accrued(0) = Capacity
  BY DEF Init, Accrued
<1>2. Drawn = [c \in Waiters |-> 0]
  BY DEF Init, Drawn, NoCall
<1>3. QED
  BY <1>1, <1>2 DEF Init, Ideal!Init, Drawn

(* A step that leaves one waiter with a call that grants nothing. *)
LEMMA SpendStep ==
    ASSUME WaitersTyped, NEW w \in Waiters, NEW k, k.granted = 0,
           call' = [call EXCEPT ![w] = k], UNCHANGED <<beat, redis>>
    PROVE  Ideal!Spend(w)
<1>1. Drawn' = [Drawn EXCEPT ![w] = 0]
  BY DEF Drawn, WaitersTyped
<1>2. Accrued(0)' = Accrued(0)
  BY DEF Accrued, redis
<1>3. QED
  BY <1>1, <1>2 DEF Ideal!Spend, Drawn

(* The script, run in the tick in which its caller read the clock. *)
LEMMA GrantStep ==
    ASSUME Inv, NEW w \in Waiters, call[w].age = 0, LuaTokenBucket(w)
    PROVE  Ideal!Grant(w)
<1> DEFINE k == call[w]
           grant == Least(Tokens, k.asked)
<1>1. RedisTyped /\ WaitersTyped /\ CallsSound
  BY TypeParts DEF Inv
<1>2. k \in Calls /\ k.asked \in Nat /\ Sound(pc[w], need[w], k) /\ 0 \in 0..Timeout
  BY <1>1, WaiterFacts, CallFields, Constants
<1>3. Tokens \in 0..Capacity
  BY <1>1, <1>2, AccruedRange DEF RedisTyped, Tokens
<1>4. /\ k.st = "sent" /\ rtokens' = Tokens - grant /\ rage' = 0
      /\ call' = [call EXCEPT ![w].st = "done", ![w].granted = grant]
      /\ beat' = beat
  BY DEF LuaTokenBucket, LastTickAfter, Tokens
<1>5. grant \in 0..Tokens
  <2>1. QED
    BY <1>2, <1>3, Constants DEF Least
<1> HIDE DEF grant
<1>6. Drawn[w] = 0
  BY <1>2, <1>4 DEF Sound, Drawn
<1>7. Drawn' = [Drawn EXCEPT ![w] = grant]
  BY <1>1, <1>4 DEF Drawn, WaitersTyped, Calls
<1>8. Tokens' = Tokens - grant
  BY <1>4 DEF Tokens, Accrued
<1>9. QED
  BY <1>4, <1>5, <1>6, <1>7, <1>8 DEF Ideal!Grant, Drawn, Tokens

LEMMA TickStep == ASSUME Inv, Inv', Tick PROVE Ideal!Accrue
<1>1. RedisTyped /\ WaitersTyped /\ CallsSound /\ RedisTyped'
  <2>1. TypeOK /\ TypeOK' /\ CallsSound
    BY DEF Inv
  <2>2. RedisTyped'
    BY <2>1 DEF TypeOK, RedisTyped
  <2>3. QED
    BY <2>1, <2>2, TypeParts
<1>2. /\ \A w \in Waiters : ~Overdue(w)
      /\ beat' = ~beat /\ rage' = Older(rage) /\ rtokens' = rtokens
      /\ call' = [w \in Waiters |-> Aged(call[w])]
  BY DEF Tick, Aged
<1>3. Tokens' = Least(Capacity, Tokens + Rate)
  BY <1>1, <1>2, TickAccrues
<1>4. ASSUME NEW w \in Waiters PROVE call'[w].granted = call[w].granted
  <2>1. call[w] \in Calls /\ Sound(pc[w], need[w], call[w]) /\ ~(pc[w] = "calling" /\ call[w].age >= Timeout)
    BY <1>1, <1>2, WaiterFacts DEF Overdue
  <2>2. (call[w].st # "done" => Aged(call[w]).granted = 0) /\ (call[w].st # "sent" => Aged(call[w]) = call[w])
    BY <2>1, AgedCall
  <2>3. call[w].st = "sent" => call[w].granted = 0
    BY <2>1 DEF Sound
  <2>4. QED
    BY <1>2, <2>2, <2>3
<1>5. Drawn' = Drawn
  BY <1>4 DEF Drawn
<1>6. QED
  BY <1>2, <1>3, <1>5, LeastIsLeast DEF Ideal!Accrue, Drawn, Tokens

LEMMA IdealStep ==
    Inv /\ Inv' /\ Prompt /\ [PromptNext]_vars =>
        [Ideal!Next]_<<Accrued(0), beat, [w \in Waiters |-> call[w].granted]>>
<1> SUFFICES ASSUME Inv, Inv', Prompt, [PromptNext]_vars
             PROVE  \/ Ideal!Next
                    \/ UNCHANGED <<Accrued(0), beat, [w \in Waiters |-> call[w].granted]>>
  OBVIOUS
<1>0. WaitersTyped
  BY TypeParts DEF Inv
<1>1. ASSUME NEW w \in Waiters, Poll(w) \/ Answer(w) PROVE Ideal!Spend(w)
  <2>1. PICK k : k.granted = 0 /\ call' = [call EXCEPT ![w] = k]
    <3>1. NoCall.granted = 0
      BY NoCallTyped
    <3>2. [st |-> "sent", age |-> 0, granted |-> 0, asked |-> Most(need[w], Capacity)].granted = 0
      OBVIOUS
    <3>3. QED
      BY <1>1, <3>1, <3>2 DEF Poll, Answer
  <2>2. UNCHANGED <<beat, redis>>
    BY <1>1 DEF Poll, Answer
  <2>3. QED
    BY <1>0, <2>1, <2>2, SpendStep
<1>2. ASSUME NEW w \in Waiters, CallFails(w) PROVE Ideal!Spend(w) \/ UNCHANGED <<beat, redis, call>>
  <2>1. UNCHANGED <<beat, redis>> /\ (call' = [call EXCEPT ![w] = NoCall] \/ call' = call)
    BY <1>2 DEF CallFails
  <2>2. QED
    BY <1>0, <2>1, NoCallTyped, SpendStep
<1>3. ASSUME NEW w \in Waiters, LuaTokenBucket(w) PROVE Ideal!Grant(w)
  <2>1. call[w].age = 0
    BY <1>3 DEF Prompt, LuaTokenBucket
  <2>2. QED
    BY <1>3, <2>1, GrantStep
<1>4. ASSUME Tick PROVE Ideal!Accrue
  BY <1>4, TickStep
<1>5. ASSUME NEW w \in Waiters,
             (\E n \in Counts : Wait(w, n)) \/ Recheck(w) \/ Nap(w) \/ WakeUp(w)
      PROVE  UNCHANGED <<beat, redis, call>>
  BY <1>5 DEF Wait, Recheck, Nap, WakeUp
<1>6. ASSUME NEW b \in Buckets, ProbeSucceeds(b) PROVE UNCHANGED <<beat, redis, call>>
  BY <1>6 DEF ProbeSucceeds
<1>7. ASSUME UNCHANGED vars PROVE UNCHANGED <<beat, redis, call>>
  BY <1>7 DEF vars, redis
<1>8. CASE UNCHANGED <<beat, redis, call>>
  <2>1. Accrued(0)' = Accrued(0)
    BY <1>8 DEF Accrued, redis
  <2>2. [w \in Waiters |-> call[w].granted]' = [w \in Waiters |-> call[w].granted]
    BY <1>8
  <2>3. QED
    BY <1>8, <2>1, <2>2
<1>9. QED
  BY <1>1, <1>2, <1>3, <1>4, <1>5, <1>6, <1>7, <1>8
  DEF PromptNext, Next, WaiterStep, Ideal!Next

(* While Redis runs each script within a tick and the clocks agree, the    *)
(* hash with its last_tick is a token bucket of the configured rate and    *)
(* burst, whatever the number of proxies and of goroutines that poll it.   *)
THEOREM RedisIsTokenBucket == PromptSpec => IdealSpec
<1>1. Init => Prompt
  BY DEF Init, Prompt, NoCall
<1>2. Prompt /\ [PromptNext]_vars => Prompt'
  BY DEF PromptNext, Prompt, vars
<1>3. [PromptNext]_vars => [Next]_vars
  BY DEF PromptNext
<1>4. QED
  BY <1>1, <1>2, <1>3, InitInv, NextInv, InitIdeal, IdealStep, PTL
  DEF PromptSpec, IdealSpec, Ideal!Spec
===========================================================================
