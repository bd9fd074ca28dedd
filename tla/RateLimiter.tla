---------------------------- MODULE RateLimiter ----------------------------
(* The API's rate limit: fixed windows, with a bucket for each client,      *)
(* method and path, which is the key here.  The middleware reads and writes *)
(* a bucket in one synchronous handler, so requests come one by one, each   *)
(* with its time; an exempt one is an OPTIONS request.                      *)
EXTENDS Naturals, Sequences, FiniteSets

NoBuckets(keys) == [key \in keys |-> [count |-> 0, resetAt |-> 0]]

Passes(config, request) == ~config.enabled \/ request.exempt

(* A bucket whose window is over is replaced, from this request on.         *)
counted(config, current, now) ==
    LET bucket == IF current.resetAt > now THEN current
                  ELSE [count |-> 0, resetAt |-> now + config.windowMs]
    IN [bucket EXCEPT !.count = @ + 1]

(* The buckets before each of the requests, and after the last.             *)
bucketsBefore(config, requests) ==
    LET keys == {requests[i].key : i \in DOMAIN requests}
        buckets[i \in 1 .. Len(requests) + 1] ==
            IF i = 1 THEN NoBuckets(keys)
            ELSE LET before == buckets[i - 1]
                     request == requests[i - 1]
                 IN IF Passes(config, request) THEN before
                    ELSE [before EXCEPT ![request.key] = counted(config, @, request.now)]
    IN buckets

Admitted == [admitted |-> TRUE, remaining |-> 0, retryAfterMs |-> 0]

(* What each of the requests is told.                                       *)
responses(config, requests) ==
    LET buckets == bucketsBefore(config, requests)
        response(i) ==
            LET bucket == buckets[i + 1][requests[i].key]
            IN IF Passes(config, requests[i]) THEN Admitted
               ELSE [admitted |-> bucket.count <= config.limit,
                     remaining |-> IF bucket.count > config.limit THEN 0
                                   ELSE config.limit - bucket.count,
                     retryAfterMs |-> IF bucket.count <= config.limit THEN 0
                                      ELSE bucket.resetAt - requests[i].now]
    IN [i \in DOMAIN requests |-> response(i)]

-----------------------------------------------------------------------------
(* A client that is refused has used its limit in less than a window, and   *)
(* is admitted when it comes back at the time it was told, unless nothing   *)
(* is ever admitted; in any stretch as long as a window at most two limits  *)
(* are admitted, the end of one and the beginning of the next; and what     *)
(* remains can be used at once.                                             *)
LimitIsKept(config, requests) ==
    LET told == responses(config, requests)
        Limited(i) == ~Passes(config, requests[i])
        AdmittedIn(key, from, to) ==
            {j \in DOMAIN requests :
               /\ Limited(j) /\ told[j].admitted /\ requests[j].key = key
               /\ requests[j].now >= from /\ requests[j].now < to}
        Last(list) == responses(config, list)[Len(list)]
        Later(i, time, n) ==
            SubSeq(requests, 1, i) \o [k \in 1 .. n |-> [requests[i] EXCEPT !.now = time]]
    IN \A i \in DOMAIN requests :
         LET key == requests[i].key
             now == requests[i].now
         IN /\ ~Limited(i) => told[i].admitted
            /\ ~told[i].admitted =>
                 /\ Cardinality({j \in AdmittedIn(key, 0, now + 1) :
                        j < i /\ requests[j].now + config.windowMs > now}) >= config.limit
                 /\ config.limit > 0 => Last(Later(i, now + told[i].retryAfterMs, 1)).admitted
            /\ Cardinality(AdmittedIn(key, now, now + config.windowMs)) <= 2 * config.limit
            /\ Limited(i) /\ told[i].admitted =>
                 /\ Last(Later(i, now, told[i].remaining)).admitted
                 /\ ~Last(Later(i, now, told[i].remaining + 1)).admitted
=============================================================================
