------------------------- MODULE RateLimiterProofs -------------------------
(***************************************************************************)
(* Proofs about RateLimiter, for every rate, burst, size of a token and    *)
(* set of addresses and requests: the types, the bound on what a bucket    *)
(* gives out over any stretch of time, globally and per address, and that  *)
(* only spent buckets refuse.                                              *)
(***************************************************************************)
EXTENDS RateLimiter, TLAPS

USE DEF Times

-----------------------------------------------------------------------------
(* Buckets *)

\* Products with a difference of ticks, the only arithmetic that is not linear.
LEMMA Stretch ==
    ASSUME NEW r \in Nat, NEW a \in Int, NEW b \in Int, NEW c \in Int
    PROVE  /\ r * (a - b) + r * (b - c) = r * (a - c)
           /\ r * (a - b) \in Int
           /\ a <= b => r * (b - a) \in Nat
  <1>1. a <= b => r * (b - a) \in Nat
    <2> SUFFICES ASSUME a <= b PROVE r * (b - a) \in Nat
      OBVIOUS
    <2> DEFINE d == b - a
    <2>1. d \in Nat
      OBVIOUS
    <2>2. r * d \in Nat
      BY <2>1
    <2> QED BY <2>2
  <1> QED BY <1>1

LEMMA OneMore ==
    ASSUME NEW k \in Nat, NEW n \in Nat
    PROVE  k * (n + 1) = k * n + k /\ k * n \in Nat
  OBVIOUS

LEMMA AtMostFact ==
    ASSUME NEW x \in Int, NEW y \in Int
    PROVE  /\ AtMost(x, y) \in Int
           /\ AtMost(x, y) <= x /\ AtMost(x, y) <= y
           /\ AtMost(x, y) = x \/ AtMost(x, y) = y
  BY DEF AtMost

\* A refill from x to y tokens, whose gain is G, in numbers: K tokens were
\* given out since a tick, S is the rate since then and L that part of it that
\* lies before the last refill.
LEMMA LinearEarlier ==
    ASSUME NEW K \in Nat, NEW S \in Nat, NEW L \in Nat, NEW G \in Nat, NEW C \in Nat,
           NEW x \in Nat, NEW y, y = AtMost(x + G, C), S = G + L,
           K + x <= C + L, AtMost(C, L) <= K + x
    PROVE  K + y <= C + S /\ AtMost(C, S) <= K + y
  BY DEF AtMost

\* The same for a tick after the last refill, when nothing was given out.
LEMMA LinearLater ==
    ASSUME NEW K \in Nat, NEW S \in Nat, NEW L \in Int, NEW G \in Nat, NEW C \in Nat,
           NEW x \in Nat, NEW y, y = AtMost(x + G, C), S = G + L, K = 0, -L \in Nat
    PROVE  K + y <= C + S /\ AtMost(C, S) <= K + y
  BY DEF AtMost

\* A bucket and the count of the tokens it gave out since each tick: all it
\* ever held is its capacity and its rate over the time (Upper), and what it
\* may hold over a stretch is in it or was given out (Lower).
Upper(b, count, rate, capacity) ==
    \A t \in Times : t <= b.last =>
        Token * count[t] + b.tokens <= Token * capacity + rate * (b.last - t)
Lower(b, count, rate, capacity) ==
    \A t \in Times : t <= b.last =>
        AtMost(Token * capacity, rate * (b.last - t)) <= Token * count[t] + b.tokens
Covered(b, count, rate, capacity) ==
    /\ b.last <= now /\ b.tokens <= Token * capacity
    /\ \A t \in Times : t > b.last => count[t] = 0
    /\ Upper(b, count, rate, capacity)
    /\ Lower(b, count, rate, capacity)

\* What the mutex holder does to its bucket and what it gives out.
After(b, rate, capacity) == Charged(Refilled(b, rate, capacity))
Given(b, rate, capacity, count) ==
    IF HasToken(Refilled(b, rate, capacity)) THEN Counted(count) ELSE count

\* A refill moves a bucket to the present; nothing is lost or gained.
LEMMA RefillCovers ==
    ASSUME NEW b \in Bucket, NEW count \in [Times -> Nat], NEW rate \in Nat,
           NEW capacity \in Nat, now \in Times, Covered(b, count, rate, capacity)
    PROVE  LET r == Refilled(b, rate, capacity)
           IN  r \in Bucket /\ r.last = now /\ Covered(r, count, rate, capacity)
  <1> DEFINE r == Refilled(b, rate, capacity)
             C == Token * capacity
             G == rate * (now - b.last)
  <1>1. b.tokens \in Nat /\ b.last \in Times /\ b.last <= now /\ MaxTime \in Nat
    BY RateAssumption DEF Bucket, Covered
  <1>2. C \in Nat /\ G \in Nat
    BY <1>1, Stretch, OneMore, RateAssumption
  <1>3. r.last = now /\ r.tokens = AtMost(b.tokens + G, C)
    BY DEF Refilled
  <1>4. r.tokens \in Nat /\ r.tokens <= C /\ r.tokens <= b.tokens + G /\ r \in Bucket
    BY <1>1, <1>2, <1>3 DEF AtMost, Refilled, Bucket
  <1>5. ASSUME NEW t \in Times, t > now PROVE count[t] = 0
    BY <1>1, <1>5 DEF Covered
  <1>6. ASSUME NEW t \in Times, t <= now
        PROVE  /\ Token * count[t] + r.tokens <= C + rate * (now - t)
               /\ AtMost(C, rate * (now - t)) <= Token * count[t] + r.tokens
    <2> DEFINE K == Token * count[t]
               S == rate * (now - t)
               L == rate * (b.last - t)
               x == b.tokens
               y == r.tokens
    <2>1. K \in Nat
      BY OneMore, RateAssumption
    <2>2. t \in Int /\ now \in Int /\ b.last \in Int
      BY <1>1
    <2>3. S \in Nat
      BY <1>6, <2>2, Stretch
    <2>4. L \in Int /\ S = G + L
      BY <2>2, Stretch
    <2>5. y = AtMost(x + G, C) /\ x \in Nat
      BY <1>1, <1>3
    <2>6. CASE t <= b.last
      <3>1. K + x <= C + L /\ AtMost(C, L) <= K + x
        BY <2>6 DEF Covered, Upper, Lower
      <3>2. L \in Nat
        BY <2>2, <2>6, Stretch
      <3> HIDE DEF K, S, L, C, G, x, y
      <3>3. K + y <= C + S /\ AtMost(C, S) <= K + y
        BY <1>2, <2>1, <2>3, <2>4, <2>5, <3>1, <3>2, LinearEarlier
      <3> QED BY <3>3 DEF K, S, C, y
    <2>7. CASE t > b.last
      <3>1. K = 0
        <4>1. count[t] = 0
          BY <2>7 DEF Covered
        <4>2. Token * 0 = 0
          BY RateAssumption
        <4> QED BY <4>1, <4>2
      <3>2. -L \in Nat
        <4>1. rate * (t - b.last) \in Nat
          BY <2>2, <2>7, Stretch
        <4>2. rate * (t - b.last) + rate * (b.last - t) = rate * (t - t)
          BY <2>2, Stretch
        <4>3. rate * (t - t) = 0
          BY <2>2
        <4>4. rate * (t - b.last) \in Int
          BY <4>1
        <4> DEFINE P == rate * (t - b.last)
        <4>5. P \in Nat /\ P + L = 0 /\ L \in Int
          BY <4>1, <4>2, <4>3, <2>4
        <4> HIDE DEF P, L
        <4> QED BY <4>5
      <3> HIDE DEF K, S, L, C, G, x, y
      <3>3. K + y <= C + S /\ AtMost(C, S) <= K + y
        BY <1>2, <2>1, <2>3, <2>4, <2>5, <3>1, <3>2, LinearLater
      <3> QED BY <3>3 DEF K, S, C, y
    <2> QED BY <1>1, <2>6, <2>7
  <1>7. now \in Int /\ now <= now
    BY <1>1
  <1> QED BY <1>3, <1>4, <1>5, <1>6, <1>7 DEF Covered, Upper, Lower

\* A charge moves a token from the bucket to the count.
LEMMA ChargeCovers ==
    ASSUME NEW b \in Bucket, NEW count \in [Times -> Nat], NEW rate \in Nat,
           NEW capacity \in Nat, now \in Times, Covered(b, count, rate, capacity)
    PROVE  /\ After(b, rate, capacity) \in Bucket
           /\ Given(b, rate, capacity, count) \in [Times -> Nat]
           /\ Covered(After(b, rate, capacity), Given(b, rate, capacity, count), rate, capacity)
  <1> DEFINE r == Refilled(b, rate, capacity)
  <1>1. r \in Bucket /\ r.last = now /\ Covered(r, count, rate, capacity)
    BY RefillCovers
  <1> HIDE DEF r
  <1>2. CASE ~HasToken(r)
    <2>1. After(b, rate, capacity) = r /\ Given(b, rate, capacity, count) = count
      BY <1>2 DEF After, Given, Charged, r
    <2> QED BY <1>1, <2>1
  <1>3. CASE HasToken(r)
    <2> DEFINE c == Counted(count)
               a == [r EXCEPT !.tokens = @ - Token]
    <2>1. After(b, rate, capacity) = a /\ Given(b, rate, capacity, count) = c
      BY <1>3 DEF After, Given, Charged, r
    <2>2. /\ a \in Bucket /\ a.last = now /\ a.tokens = r.tokens - Token
          /\ a.tokens <= r.tokens /\ r.tokens \in Nat
      BY <1>1, <1>3, RateAssumption DEF HasToken, Bucket
    <2>3. c \in [Times -> Nat]
      BY DEF Counted
    <2>4. \A t \in Times : t <= now => c[t] = count[t] + 1
      BY DEF Counted
    <2>5. \A t \in Times : t > now => c[t] = 0
      BY <1>1, RateAssumption DEF Counted, Covered
    <2> HIDE DEF a, c
    <2>6. ASSUME NEW t \in Times, t <= now
          PROVE  Token * c[t] + a.tokens = Token * count[t] + r.tokens
      <3> DEFINE n == count[t]
      <3>1. n \in Nat /\ Token \in Nat /\ c[t] = n + 1
        BY <2>4, <2>6, RateAssumption
      <3>2. Token * (n + 1) = Token * n + Token /\ Token * n \in Nat
        BY <3>1, OneMore
      <3>3. Token * c[t] = Token * (n + 1)
        BY <3>1
      <3> QED BY <2>2, <3>1, <3>2, <3>3
    <2>7. Token * capacity \in Nat
      BY OneMore, RateAssumption
    <2>8. Covered(a, c, rate, capacity)
      <3>1. a.last <= now /\ a.tokens <= Token * capacity
        BY <1>1, <2>2, <2>7, RateAssumption DEF Covered
      <3>2. Upper(a, c, rate, capacity) /\ Lower(a, c, rate, capacity)
        BY <1>1, <2>2, <2>6 DEF Covered, Upper, Lower
      <3> QED BY <2>2, <2>5, <3>1, <3>2 DEF Covered
    <2> QED BY <2>1, <2>2, <2>3, <2>8
  <1> QED BY <1>2, <1>3

\* A full bucket that gave out nothing.
LEMMA FullCovers ==
    ASSUME NEW count \in [Times -> Nat], NEW rate \in Nat, NEW capacity \in Nat,
           now \in Times, \A t \in Times : count[t] = 0
    PROVE  Full(capacity) \in Bucket /\ Covered(Full(capacity), count, rate, capacity)
  <1> DEFINE C == Token * capacity
  <1>1. C \in Nat /\ Token * 0 = 0
    BY OneMore, RateAssumption
  <1>2. Full(capacity).last = now /\ Full(capacity).tokens = C /\ Full(capacity) \in Bucket
    BY <1>1 DEF Full, Bucket
  <1>3. ASSUME NEW t \in Times, t <= now
        PROVE  /\ Token * count[t] + C <= C + rate * (now - t)
               /\ AtMost(C, rate * (now - t)) <= Token * count[t] + C
    <2>1. rate * (now - t) \in Nat /\ Token * count[t] = 0
      BY <1>1, <1>3, Stretch, RateAssumption
    <2> HIDE DEF C
    <2> QED BY <1>1, <2>1 DEF AtMost
  <1> QED BY <1>1, <1>2, <1>3, RateAssumption DEF Covered, Upper, Lower

\* The bound on what was given out, at any later moment.
LEMMA CoveredWindow ==
    ASSUME NEW b \in Bucket, NEW count \in [Times -> Nat], NEW rate \in Nat,
           NEW capacity \in Nat, now \in Times, Covered(b, count, rate, capacity),
           NEW t \in Times, t <= now
    PROVE  Token * count[t] <= Allowance(rate, capacity, t)
  <1> DEFINE r == Refilled(b, rate, capacity)
             K == Token * count[t]
             A == Allowance(rate, capacity, t)
  <1>1. r \in Bucket /\ r.last = now /\ Covered(r, count, rate, capacity)
    BY RefillCovers
  <1> HIDE DEF r
  <1>2. K + r.tokens <= A /\ r.tokens \in Nat
    BY <1>1 DEF Covered, Upper, Allowance, Bucket
  <1>3. K \in Nat /\ A \in Int
    <2>1. Token * capacity \in Nat /\ rate * (now - t) \in Int /\ K \in Nat
      BY OneMore, Stretch, RateAssumption
    <2> QED BY <2>1 DEF Allowance
  <1> HIDE DEF K, A
  <1>4. K <= A
    BY <1>2, <1>3
  <1> QED BY <1>4 DEF K, A

\* A bucket that has no token left when it is refilled is spent.
LEMMA CoveredSpent ==
    ASSUME NEW b \in Bucket, NEW count \in [Times -> Nat], NEW rate \in Nat,
           NEW capacity \in Nat, now \in Times, Covered(b, count, rate, capacity),
           ~HasToken(Refilled(b, rate, capacity))
    PROVE  Spent(count, rate, capacity)
  <1> DEFINE r == Refilled(b, rate, capacity)
  <1>1. r \in Bucket /\ r.last = now /\ Covered(r, count, rate, capacity)
    BY RefillCovers
  <1>2. r.tokens \in Nat /\ r.tokens < Token
    BY <1>1, RateAssumption DEF HasToken, Bucket
  <1> HIDE DEF r
  <1>3. ASSUME NEW t \in Times, t <= now
        PROVE  Token * count[t] + Token > AtMost(Token * capacity, rate * (now - t))
    <2> DEFINE K == Token * count[t]
               M == AtMost(Token * capacity, rate * (now - t))
    <2>1. M <= K + r.tokens
      BY <1>1, <1>3 DEF Covered, Lower
    <2>2. Token * capacity \in Nat /\ rate * (now - t) \in Int /\ K \in Nat
      BY OneMore, Stretch, RateAssumption
    <2>3. M \in Int
      BY <2>2, AtMostFact
    <2> HIDE DEF K, M
    <2>4. K + Token > M
      BY <1>2, <2>1, <2>2, <2>3, RateAssumption
    <2> QED BY <2>4 DEF K, M
  <1> QED BY <1>3 DEF Spent
-----------------------------------------------------------------------------
(* The invariant *)

\* Every bucket accounts for what passed it, and an address without a bucket
\* passed nothing.
Accounts ==
    /\ Covered(global, passed, Rps, Burst)
    /\ \A ip \in DOMAIN perIp : Covered(perIp[ip], ipPassed[ip], PerIpRps, PerIpBurst)
    /\ \A ip \in Ips \ DOMAIN perIp, t \in Times : ipPassed[ip][t] = 0

IInv == TypeOK /\ Accounts

LEMMA Rates == /\ Rps \in Nat /\ Burst \in Nat /\ PerIpRps \in Nat /\ PerIpBurst \in Nat
               /\ MaxTime \in Nat /\ Token \in Nat /\ Token > 0 /\ 0 \in Times
  BY RateAssumption

LEMMA InitIInv == Init => IInv
  <1> SUFFICES ASSUME Init PROVE IInv
    OBVIOUS
  <1>1. now \in Times /\ now = 0
    BY Rates DEF Init
  <1>2. global \in Bucket /\ Covered(global, passed, Rps, Burst)
    <2>1. passed \in [Times -> Nat] /\ \A t \in Times : passed[t] = 0
      BY DEF Init
    <2> QED BY <1>1, <2>1, FullCovers, Rates DEF Init
  <1>3. DOMAIN perIp = {} /\ perIp \in [DOMAIN perIp -> Bucket]
    BY DEF Init
  <1>4. req \in [Slots -> Request] /\ \A s \in Slots : req[s].at = "idle"
    BY DEF Init, Idle, Request
  <1>5. passed \in [Times -> Nat] /\ ipPassed \in [Ips -> [Times -> Nat]]
    BY DEF Init
  <1>6. \A ip \in Ips, t \in Times : ipPassed[ip][t] = 0
    BY DEF Init
  <1> QED BY <1>1, <1>2, <1>3, <1>4, <1>5, <1>6 DEF IInv, TypeOK, Accounts

\* The requests only move from filter to filter.
LEMMA StepKeepsAccounts ==
    ASSUME IInv, now' \in Times, now' >= now,
           UNCHANGED <<global, perIp, passed, ipPassed>>,
           req' \in [Slots -> Request],
           \A s \in Slots : req'[s].at # "idle" => req'[s].ip \in Ips
    PROVE  IInv'
  <1>1. TypeOK'
    BY DEF IInv, TypeOK
  <1>2. Covered(global, passed, Rps, Burst)'
    BY Rates DEF IInv, TypeOK, Bucket, Accounts, Covered, Upper, Lower
  <1>3. ASSUME NEW ip \in DOMAIN perIp'
        PROVE  Covered(perIp[ip], ipPassed[ip], PerIpRps, PerIpBurst)'
    <2>1. ip \in DOMAIN perIp /\ perIp[ip] \in Bucket
      BY <1>3 DEF IInv, TypeOK
    <2>2. Covered(perIp[ip], ipPassed[ip], PerIpRps, PerIpBurst)
      BY <2>1 DEF IInv, Accounts
    <2> QED BY <2>1, <2>2, Rates DEF IInv, TypeOK, Bucket, Covered, Upper, Lower
  <1>4. \A ip \in Ips \ DOMAIN perIp', t \in Times : ipPassed'[ip][t] = 0
    BY DEF IInv, Accounts
  <1> QED BY <1>1, <1>2, <1>3, <1>4 DEF IInv, Accounts

LEMMA TickIInv == IInv /\ Tick => IInv'
  <1> SUFFICES ASSUME IInv, Tick PROVE IInv'
    OBVIOUS
  <1>1. now' \in Times /\ now' >= now
    BY Rates DEF IInv, TypeOK, Tick
  <1>2. req' = req
    BY DEF Tick
  <1> QED BY <1>1, <1>2, StepKeepsAccounts DEF IInv, TypeOK, Tick

LEMMA ArriveIInv ==
    ASSUME IInv, NEW s \in Slots, NEW ip \in Ips, NEW key \in BOOLEAN, Arrive(s, ip, key)
    PROVE  IInv'
  <1>1. now' \in Times /\ now' >= now
    BY Rates DEF IInv, TypeOK, Arrive
  <1> DEFINE x == [at |-> IF Listed(ip) THEN "global" ELSE "forbidden", ip |-> ip, key |-> key]
  <1>2. x \in Request /\ x.ip \in Ips
    BY DEF Request, Filters, Answers
  <1>3. req' = [req EXCEPT ![s] = x]
    BY DEF Arrive
  <1> HIDE DEF x
  <1>4. req' \in [Slots -> Request] /\ \A q \in Slots : req'[q].at # "idle" => req'[q].ip \in Ips
    BY <1>2, <1>3 DEF IInv, TypeOK
  <1> QED BY <1>1, <1>4, StepKeepsAccounts DEF Arrive

\* A request that changes its place keeps its address.
LEMMA Moved ==
    ASSUME IInv, NEW s \in Slots, NEW place \in Filters \cup Answers, req[s].at # "idle",
           req' = [req EXCEPT ![s].at = place]
    PROVE  /\ req' \in [Slots -> Request]
           /\ \A q \in Slots : req'[q].at # "idle" => req'[q].ip \in Ips
  <1>1. req \in [Slots -> Request] /\ \A q \in Slots : req[q].at # "idle" => req[q].ip \in Ips
    BY DEF IInv, TypeOK
  <1>2. \A q \in Slots : q # s => req'[q] = req[q]
    BY <1>1
  <1>3. req'[s] = [req[s] EXCEPT !.at = place]
    BY <1>1
  <1>4. req'[s] \in Request /\ req'[s].ip = req[s].ip
    BY <1>1, <1>3 DEF Request
  <1>5. req' \in [Slots -> Request]
    BY <1>1, <1>2, <1>4
  <1> QED BY <1>1, <1>2, <1>4, <1>5

LEMMA KeyIInv == ASSUME IInv, NEW s \in Slots, Key(s) PROVE IInv'
  <1>1. now' \in Times /\ now' >= now
    BY Rates DEF IInv, TypeOK, Key
  <1> DEFINE place == IF RequireKey /\ ~req[s].key THEN "unauthorized" ELSE "served"
  <1>2. /\ place \in Filters \cup Answers /\ req[s].at # "idle"
        /\ req' = [req EXCEPT ![s].at = place]
    BY DEF Key, Filters, Answers
  <1> HIDE DEF place
  <1>3. /\ req' \in [Slots -> Request]
        /\ \A q \in Slots : req'[q].at # "idle" => req'[q].ip \in Ips
    BY <1>2, Moved
  <1> QED BY <1>1, <1>3, StepKeepsAccounts DEF Key

LEMMA AnsweredIInv == ASSUME IInv, NEW s \in Slots, Answered(s) PROVE IInv'
  <1>1. now' \in Times /\ now' >= now
    BY Rates DEF IInv, TypeOK, Answered
  <1>2. Idle \in Request /\ Idle.at = "idle"
    BY DEF Idle, Request
  <1>3. /\ req' \in [Slots -> Request]
        /\ \A q \in Slots : req'[q].at # "idle" => req'[q].ip \in Ips
    BY <1>2 DEF IInv, TypeOK, Answered
  <1> QED BY <1>1, <1>3, StepKeepsAccounts DEF Answered

LEMMA GlobalIInv == ASSUME IInv, NEW s \in Slots, Global(s) PROVE IInv'
  <1>1. /\ now \in Times /\ global \in Bucket /\ passed \in [Times -> Nat]
        /\ Covered(global, passed, Rps, Burst)
    BY DEF IInv, TypeOK, Accounts
  <1>2. /\ global' = After(global, Rps, Burst)
        /\ passed' = Given(global, Rps, Burst, passed)
        /\ UNCHANGED <<now, perIp, ipPassed>>
    BY DEF Global, After, Given
  <1>3. /\ After(global, Rps, Burst) \in Bucket
        /\ Given(global, Rps, Burst, passed) \in [Times -> Nat]
        /\ Covered(After(global, Rps, Burst), Given(global, Rps, Burst, passed), Rps, Burst)
    BY <1>1, ChargeCovers, Rates
  <1> HIDE DEF After, Given
  <1>4. global' \in Bucket /\ passed' \in [Times -> Nat] /\ Covered(global', passed', Rps, Burst)
    BY <1>2, <1>3
  <1>5. Covered(global, passed, Rps, Burst)'
    BY <1>2, <1>4 DEF Covered, Upper, Lower
  <1>6. ASSUME NEW ip \in DOMAIN perIp'
        PROVE  Covered(perIp[ip], ipPassed[ip], PerIpRps, PerIpBurst)'
    <2>1. Covered(perIp[ip], ipPassed[ip], PerIpRps, PerIpBurst)
      BY <1>2, <1>6 DEF IInv, Accounts
    <2> QED BY <1>2, <2>1 DEF Covered, Upper, Lower
  <1>7. \A ip \in Ips \ DOMAIN perIp', t \in Times : ipPassed'[ip][t] = 0
    BY <1>2 DEF IInv, Accounts
  <1> DEFINE place == IF HasToken(Refilled(global, Rps, Burst)) THEN "perip" ELSE "limited"
  <1>8. /\ place \in Filters \cup Answers /\ req[s].at # "idle"
        /\ req' = [req EXCEPT ![s].at = place]
    BY DEF Global, Filters, Answers
  <1> HIDE DEF place
  <1>9. /\ req' \in [Slots -> Request]
        /\ \A q \in Slots : req'[q].at # "idle" => req'[q].ip \in Ips
    BY <1>8, Moved
  <1>10. TypeOK'
    BY <1>2, <1>4, <1>9 DEF IInv, TypeOK, Bucket
  <1> QED BY <1>5, <1>6, <1>7, <1>10 DEF IInv, Accounts

\* The bucket an address has, or is given.
LEMMA OwnBucket ==
    ASSUME IInv, NEW ip \in Ips
    PROVE  BucketOf(ip) \in Bucket /\ Covered(BucketOf(ip), ipPassed[ip], PerIpRps, PerIpBurst)
  <1>1. now \in Times /\ ipPassed[ip] \in [Times -> Nat]
    BY DEF IInv, TypeOK
  <1>2. CASE ip \in DOMAIN perIp
    <2>1. perIp[ip] \in Bucket /\ Covered(perIp[ip], ipPassed[ip], PerIpRps, PerIpBurst)
      BY <1>2 DEF IInv, TypeOK, Accounts
    <2> QED BY <1>2, <2>1 DEF BucketOf
  <1>3. CASE ip \notin DOMAIN perIp
    <2>1. \A t \in Times : ipPassed[ip][t] = 0
      BY <1>3 DEF IInv, Accounts
    <2> QED BY <1>1, <1>3, <2>1, FullCovers, Rates DEF BucketOf
  <1> QED BY <1>2, <1>3

LEMMA PerIpIInv == ASSUME IInv, NEW s \in Slots, PerIp(s) PROVE IInv'
  <1> DEFINE ip == req[s].ip
             b == BucketOf(ip)
             after == After(b, PerIpRps, PerIpBurst)
             given == Given(b, PerIpRps, PerIpBurst, ipPassed[ip])
  <1>1. ip \in Ips /\ now \in Times /\ ipPassed \in [Ips -> [Times -> Nat]]
    BY DEF IInv, TypeOK, PerIp
  <1>2. b \in Bucket /\ Covered(b, ipPassed[ip], PerIpRps, PerIpBurst)
    BY <1>1, OwnBucket
  <1>3. /\ after \in Bucket /\ given \in [Times -> Nat]
        /\ Covered(after, given, PerIpRps, PerIpBurst)
    BY <1>1, <1>2, ChargeCovers, Rates
  <1>4. /\ perIp' = [x \in DOMAIN perIp \cup {ip} |-> IF x = ip THEN after ELSE perIp[x]]
        /\ UNCHANGED <<now, global, passed>>
    BY DEF PerIp, After
  <1>5. ipPassed' = [ipPassed EXCEPT ![ip] = given]
    BY <1>1 DEF PerIp, Given
  <1> DEFINE place == IF HasToken(Refilled(b, PerIpRps, PerIpBurst)) THEN "key" ELSE "iplimited"
  <1>6. /\ place \in Filters \cup Answers /\ req[s].at # "idle"
        /\ req' = [req EXCEPT ![s].at = place]
    BY DEF PerIp, Filters, Answers
  <1> HIDE DEF place
  <1>7. /\ req' \in [Slots -> Request]
        /\ \A q \in Slots : req'[q].at # "idle" => req'[q].ip \in Ips
    BY <1>6, Moved
  <1> HIDE DEF after, given, b, ip
  <1>8. /\ DOMAIN perIp' = DOMAIN perIp \cup {ip}
        /\ perIp'[ip] = after /\ ipPassed'[ip] = given
        /\ \A x \in DOMAIN perIp : x # ip => perIp'[x] = perIp[x]
        /\ \A x \in Ips : x # ip => ipPassed'[x] = ipPassed[x]
    BY <1>1, <1>4, <1>5
  <1>9. TypeOK'
    <2>1. DOMAIN perIp' \subseteq Ips
      BY <1>1, <1>8 DEF IInv, TypeOK
    <2>2. perIp' \in [DOMAIN perIp' -> Bucket]
      BY <1>3, <1>4 DEF IInv, TypeOK
    <2>3. ipPassed' \in [Ips -> [Times -> Nat]]
      BY <1>1, <1>3, <1>5
    <2> QED BY <1>4, <1>7, <2>1, <2>2, <2>3 DEF IInv, TypeOK, Bucket
  <1>10. Covered(global, passed, Rps, Burst)'
    <2>1. Covered(global, passed, Rps, Burst)
      BY DEF IInv, Accounts
    <2> QED BY <1>4, <2>1 DEF Covered, Upper, Lower
  <1>11. ASSUME NEW x \in DOMAIN perIp'
         PROVE  Covered(perIp[x], ipPassed[x], PerIpRps, PerIpBurst)'
    <2>1. CASE x = ip
      <3>1. perIp'[x] = after /\ ipPassed'[x] = given
        BY <1>8, <2>1
      <3> QED BY <1>3, <1>4, <3>1 DEF Covered, Upper, Lower
    <2>2. CASE x # ip
      <3>1. x \in DOMAIN perIp /\ x \in Ips
        BY <1>8, <1>11, <2>2 DEF IInv, TypeOK
      <3>2. Covered(perIp[x], ipPassed[x], PerIpRps, PerIpBurst)
        BY <3>1 DEF IInv, Accounts
      <3>3. perIp'[x] = perIp[x] /\ ipPassed'[x] = ipPassed[x]
        BY <1>8, <2>2, <3>1
      <3> QED BY <1>4, <3>2, <3>3 DEF Covered, Upper, Lower
    <2> QED BY <2>1, <2>2
  <1>12. \A x \in Ips \ DOMAIN perIp', t \in Times : ipPassed'[x][t] = 0
    BY <1>8 DEF IInv, Accounts
  <1> QED BY <1>9, <1>10, <1>11, <1>12 DEF IInv, Accounts

LEMMA StepIInv == IInv /\ [Next]_vars => IInv'
  <1> SUFFICES ASSUME IInv, [Next]_vars PROVE IInv'
    OBVIOUS
  <1>1. CASE Tick
    BY <1>1, TickIInv
  <1>2. ASSUME NEW s \in Slots, NEW ip \in Ips, NEW key \in BOOLEAN, Arrive(s, ip, key)
        PROVE  IInv'
    BY <1>2, ArriveIInv
  <1>3. ASSUME NEW s \in Slots, Global(s) PROVE IInv'
    BY <1>3, GlobalIInv
  <1>4. ASSUME NEW s \in Slots, PerIp(s) PROVE IInv'
    BY <1>4, PerIpIInv
  <1>5. ASSUME NEW s \in Slots, Key(s) PROVE IInv'
    BY <1>5, KeyIInv
  <1>6. ASSUME NEW s \in Slots, Answered(s) PROVE IInv'
    BY <1>6, AnsweredIInv
  <1>7. CASE UNCHANGED vars
    <2>1. UNCHANGED <<now, global, perIp, passed, ipPassed>> /\ req' = req
      BY <1>7 DEF vars
    <2>2. now' \in Times /\ now' >= now
      BY <2>1, Rates DEF IInv, TypeOK
    <2> QED BY <2>1, <2>2, StepKeepsAccounts DEF IInv, TypeOK
  <1> QED BY <1>1, <1>2, <1>3, <1>4, <1>5, <1>6, <1>7 DEF Next

-----------------------------------------------------------------------------
(* The theorems *)

\* The buckets stay between empty and full, the requests keep their addresses.
THEOREM TypeCorrect == Spec => []TypeOK
  <1>1. IInv => TypeOK
    BY DEF IInv
  <1> QED BY InitIInv, StepIInv, <1>1, PTL DEF Spec

\* GlobalRateLimiter: no stretch of time lets more requests through than its
\* burst and its rate allow.
THEOREM GlobalWindowHolds == Spec => []GlobalWindow
  <1>1. IInv => GlobalWindow
    BY CoveredWindow, Rates DEF IInv, TypeOK, Accounts, GlobalWindow
  <1> QED BY InitIInv, StepIInv, <1>1, PTL DEF Spec

\* PerIPRateLimiter: the same for every address, however many there are.
THEOREM PerIpWindowHolds == Spec => []PerIpWindow
  <1>1. ASSUME IInv, NEW ip \in Ips, NEW t \in Times, t <= now
        PROVE  Token * ipPassed[ip][t] <= Allowance(PerIpRps, PerIpBurst, t)
    <2>1. now \in Times /\ ipPassed[ip] \in [Times -> Nat]
      BY <1>1 DEF IInv, TypeOK
    <2>2. BucketOf(ip) \in Bucket /\ Covered(BucketOf(ip), ipPassed[ip], PerIpRps, PerIpBurst)
      BY <1>1, OwnBucket
    <2> QED BY <1>1, <2>1, <2>2, CoveredWindow, Rates
  <1>2. IInv => PerIpWindow
    BY <1>1 DEF PerIpWindow
  <1> QED BY InitIInv, StepIInv, <1>2, PTL DEF Spec

\* Only its own filter moves a request that waits for a bucket.
LEMMA WhoMoves ==
    ASSUME IInv, Next, NEW s \in Slots, req[s].at \in {"global", "perip"}, req'[s] # req[s]
    PROVE  Global(s) \/ PerIp(s)
  <1>1. req \in [Slots -> Request]
    BY DEF IInv, TypeOK
  <1>2. ~Tick
    BY DEF Tick
  <1>3. ASSUME NEW q \in Slots,
               \/ \E ip \in Ips, key \in BOOLEAN : Arrive(q, ip, key)
               \/ Key(q) \/ Answered(q)
        PROVE  FALSE
    <2>1. req[q].at \notin {"global", "perip"}
      BY <1>3 DEF Arrive, Key, Answered, Answers, Idle
    <2>2. \A x \in Slots : x # q => req'[x] = req[x]
      BY <1>1, <1>3 DEF Arrive, Key, Answered
    <2> QED BY <2>1, <2>2
  <1>4. ASSUME NEW q \in Slots, Global(q) \/ PerIp(q) PROVE q = s
    BY <1>1, <1>4 DEF Global, PerIp
  <1> QED BY <1>2, <1>3, <1>4 DEF Next

\* Both limiters: a request is refused only by a bucket that is spent.
THEOREM RefusalsJustified == Spec => RefusalsAreEarned
  <1> DEFINE Earned(s) ==
        /\ req[s].at = "global" /\ req'[s].at = "limited" => Spent(passed, Rps, Burst)
        /\ req[s].at = "perip" /\ req'[s].at = "iplimited" =>
             Spent(ipPassed[req[s].ip], PerIpRps, PerIpBurst)
  <1>1. ASSUME IInv, Next, NEW s \in Slots PROVE Earned(s)
    <2> USE <1>1
    <2>1. ASSUME req[s].at = "global", req'[s].at = "limited" PROVE Spent(passed, Rps, Burst)
      <3>1. Global(s)
        BY <2>1, WhoMoves DEF Global, PerIp
      <3>2. ~HasToken(Refilled(global, Rps, Burst))
        BY <2>1, <3>1 DEF Global, IInv, TypeOK, Request
      <3>3. /\ now \in Times /\ global \in Bucket /\ passed \in [Times -> Nat]
            /\ Covered(global, passed, Rps, Burst)
        BY DEF IInv, TypeOK, Accounts
      <3> QED BY <3>2, <3>3, CoveredSpent, Rates
    <2>2. ASSUME req[s].at = "perip", req'[s].at = "iplimited"
          PROVE  Spent(ipPassed[req[s].ip], PerIpRps, PerIpBurst)
      <3> DEFINE ip == req[s].ip
      <3>1. PerIp(s)
        BY <2>2, WhoMoves DEF Global, PerIp
      <3>2. ~HasToken(Refilled(BucketOf(ip), PerIpRps, PerIpBurst))
        BY <2>2, <3>1 DEF PerIp, IInv, TypeOK, Request
      <3>3. ip \in Ips /\ now \in Times /\ ipPassed[ip] \in [Times -> Nat]
        BY <2>2 DEF IInv, TypeOK
      <3>4. BucketOf(ip) \in Bucket /\ Covered(BucketOf(ip), ipPassed[ip], PerIpRps, PerIpBurst)
        BY <3>3, OwnBucket
      <3> QED BY <3>2, <3>3, <3>4, CoveredSpent, Rates
    <2> QED BY <2>1, <2>2
  <1>2. IInv /\ [Next]_vars => [\A s \in Slots : Earned(s)]_vars
    BY <1>1
  <1> QED BY InitIInv, StepIInv, <1>2, PTL DEF Spec, RefusalsAreEarned
=============================================================================
