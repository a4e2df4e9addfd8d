---------------------------- MODULE RateLimiter ----------------------------
(***************************************************************************)
(* The chain of internal/middleware/middleware.go in front of every        *)
(* handler, in the order of Router (api.go:130): IP allowlist, global      *)
(* token bucket, token bucket of the client's address, API key.  The       *)
(* buckets have a mutex each; between two of them a request holds none,    *)
(* and other requests and the clock go on.                                 *)
(*                                                                         *)
(* Tokens are counted in fractions: Token units are one token, and a       *)
(* bucket gains its rate in units per tick of the clock.  The rounding of  *)
(* the code's floating point numbers is left out.                          *)
(***************************************************************************)
EXTENDS Integers

CONSTANTS Ips,                  \* client addresses, r.RemoteAddr without its port
          Allowlist,            \* cfg.IPAllowlist; {} lets everybody in
          RequireKey,           \* cfg.RequireAPIKey
          Slots, NoIp,          \* requests in flight at once (bound); "none"
          Token,                \* units of a token
          Rps, Burst,           \* cfg.RequestsPerSecond (units), BurstSize (tokens)
          PerIpRps, PerIpBurst, \* cfg.PerIPRPS (units), PerIPBurst (tokens)
          MaxTime               \* bound on the clock

ASSUME RateAssumption ==
    /\ Allowlist \subseteq Ips /\ NoIp \notin Ips
    /\ RequireKey \in BOOLEAN
    /\ Token \in Nat \ {0}
    /\ {Rps, Burst, PerIpRps, PerIpBurst, MaxTime} \subseteq Nat

VARIABLES now,      \* time.Now(), which is monotonic
          global,   \* the bucket of GlobalRateLimiter
          perIp,    \* ipLimiter.buckets, a map that only grows
          req,      \* requests in flight
          passed,   \* passed[t]: tokens the global bucket gave out from t on (history)
          ipPassed  \* the same for the bucket of each address (history)

vars == <<now, global, perIp, req, passed, ipPassed>>

Times == 0 .. MaxTime
Bucket == [tokens : Nat, last : Times]

\* The place of a request is the filter it waits for, or its answer: "served"
\* (the handler runs), 403, 429 of either bucket, 401.
Filters == {"global", "perip", "key"}
Answers == {"served", "forbidden", "limited", "iplimited", "unauthorized"}
Request == [at : {"idle"} \cup Filters \cup Answers, ip : Ips \cup {NoIp}, key : BOOLEAN]
Idle == [at |-> "idle", ip |-> NoIp, key |-> FALSE]

Listed(ip) == Allowlist = {} \/ ip \in Allowlist

AtMost(x, y) == IF x <= y THEN x ELSE y

Full(capacity) == [tokens |-> Token * capacity, last |-> now]

\* Seeded error: the time of the last refill is not moved.
RefilledAgain(b, rate, capacity) ==
    [b EXCEPT !.tokens = AtMost(b.tokens + rate * (now - b.last), Token * capacity)]

\* The refill at the start of either critical section.
Refilled(b, rate, capacity) ==
    [tokens |-> AtMost(b.tokens + rate * (now - b.last), Token * capacity), last |-> now]

HasToken(b) == b.tokens >= Token

\* Seeded errors: a refused request is charged too, into debt or to the bottom.
ChargedBlindly(b) == [b EXCEPT !.tokens = @ - Token]
ChargedWhatIsLeft(b) == [b EXCEPT !.tokens = IF HasToken(b) THEN @ - Token ELSE 0]

Charged(b) == IF HasToken(b) THEN [b EXCEPT !.tokens = @ - Token] ELSE b

\* One more token was given out at this moment.
Counted(count) == [t \in Times |-> IF t <= now THEN count[t] + 1 ELSE count[t]]

-----------------------------------------------------------------------------
Init == /\ now = 0
        /\ global = Full(Burst)
        /\ perIp = [ip \in {} |-> Full(PerIpBurst)]
        /\ req = [s \in Slots |-> Idle]
        /\ passed = [t \in Times |-> 0]
        /\ ipPassed = [ip \in Ips |-> [t \in Times |-> 0]]

Tick == /\ now < MaxTime
        /\ now' = now + 1
        /\ UNCHANGED <<global, perIp, req, passed, ipPassed>>

\* IPAllowlistMiddleware.
Arrive(s, ip, key) ==
    /\ req[s] = Idle
    /\ req' = [req EXCEPT ![s] =
                 [at |-> IF Listed(ip) THEN "global" ELSE "forbidden", ip |-> ip, key |-> key]]
    /\ UNCHANGED <<now, global, perIp, passed, ipPassed>>

\* GlobalRateLimiter.
Global(s) ==
    LET b == Refilled(global, Rps, Burst)
    IN  /\ req[s].at = "global"
        /\ global' = Charged(b)
        /\ req' = [req EXCEPT ![s].at = IF HasToken(b) THEN "perip" ELSE "limited"]
        /\ passed' = IF HasToken(b) THEN Counted(passed) ELSE passed
        /\ UNCHANGED <<now, perIp, ipPassed>>

\* Seeded error: the map entry is made anew for every request.
BucketOfAnew(ip) == Full(PerIpBurst)

\* ipLimiter.allow gets or creates the address's bucket, full at first.
BucketOf(ip) == IF ip \in DOMAIN perIp THEN perIp[ip] ELSE Full(PerIpBurst)

\* PerIPRateLimiter.
PerIp(s) ==
    LET ip == req[s].ip
        b == Refilled(BucketOf(ip), PerIpRps, PerIpBurst)
    IN  /\ req[s].at = "perip"
        /\ perIp' = [x \in DOMAIN perIp \cup {ip} |-> IF x = ip THEN Charged(b) ELSE perIp[x]]
        /\ req' = [req EXCEPT ![s].at = IF HasToken(b) THEN "key" ELSE "iplimited"]
        /\ ipPassed' = IF HasToken(b) THEN [ipPassed EXCEPT ![ip] = Counted(@)] ELSE ipPassed
        /\ UNCHANGED <<now, global, passed>>

\* APIKey.
Key(s) == /\ req[s].at = "key"
          /\ req' = [req EXCEPT ![s].at = IF RequireKey /\ ~req[s].key THEN "unauthorized"
                                          ELSE "served"]
          /\ UNCHANGED <<now, global, perIp, passed, ipPassed>>

Answered(s) == /\ req[s].at \in Answers
               /\ req' = [req EXCEPT ![s] = Idle]
               /\ UNCHANGED <<now, global, perIp, passed, ipPassed>>

Next == \/ Tick
        \/ \E s \in Slots : \/ \E ip \in Ips, key \in BOOLEAN : Arrive(s, ip, key)
                            \/ Global(s) \/ PerIp(s) \/ Key(s) \/ Answered(s)

Spec == Init /\ [][Next]_vars

-----------------------------------------------------------------------------
TypeOK == /\ now \in Times
          /\ global \in Bucket
          /\ DOMAIN perIp \subseteq Ips /\ perIp \in [DOMAIN perIp -> Bucket]
          /\ req \in [Slots -> Request]
          /\ \A s \in Slots : req[s].at # "idle" => req[s].ip \in Ips
          /\ passed \in [Times -> Nat]
          /\ ipPassed \in [Ips -> [Times -> Nat]]

\* What a bucket may have given out in the ticks since t: its burst, and its
\* rate for every tick since.
Allowance(rate, capacity, t) == Token * capacity + rate * (now - t)

\* README.md:40, the global token bucket: over no stretch of time up to now
\* are more requests let through than the burst and the rate allow, however
\* requests and clock interleave.
GlobalWindow ==
    \A t \in Times : t <= now => Token * passed[t] <= Allowance(Rps, Burst, t)

\* README.md:41, the same for every client address.
PerIpWindow ==
    \A ip \in Ips, t \in Times :
        t <= now => Token * ipPassed[ip][t] <= Allowance(PerIpRps, PerIpBurst, t)

\* Nobody is refused who has not used up what the bucket grants: at a refusal
\* and for every stretch up to it, less than one token is left of the rate
\* over that stretch, as far as the bucket can hold it.
Spent(count, rate, capacity) ==
    \A t \in Times : t <= now =>
        Token * count[t] + Token > AtMost(Token * capacity, rate * (now - t))

\* For an address this holds whatever other addresses do; a global refusal
\* means that all addresses together spent the global bucket.
RefusalsAreEarned ==
    [][\A s \in Slots :
         /\ req[s].at = "global" /\ req'[s].at = "limited" => Spent(passed, Rps, Burst)
         /\ req[s].at = "perip" /\ req'[s].at = "iplimited" =>
              Spent(ipPassed[req[s].ip], PerIpRps, PerIpBurst)]_vars
=============================================================================
