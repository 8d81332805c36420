----------------------------- MODULE TokenBucket -----------------------------
(***************************************************************************)
(* What a rate limiter promises: a bucket that is refilled every second.   *)
(* It holds at most its capacity, earns its rate each second, gives what   *)
(* is taken and takes back what is returned.  The program has no process   *)
(* that runs every second; RateLimiter computes the same bucket when it is *)
(* next used.                                                              *)
(***************************************************************************)
EXTENDS U64

VARIABLE bucket   \* None, or a record of capacity, rate and tokens

Fill(b, amount) == [b EXCEPT !.tokens = Lesser(b.capacity, @ + amount)]

Init == bucket = None

Second ==
  /\ bucket # None
  /\ bucket' = Fill(bucket, bucket.rate)

Take(amount) ==
  /\ bucket # None
  /\ bucket.tokens >= amount
  /\ bucket' = [bucket EXCEPT !.tokens = @ - amount]

Return(amount) ==
  /\ bucket # None
  /\ bucket' = Fill(bucket, amount)

(* A new capacity comes as a full bucket; a new rate leaves the tokens. *)
NewCapacity(capacity, rate) ==
  bucket' = [capacity |-> capacity, rate |-> rate, tokens |-> capacity]

NewRate(rate) ==
  bucket' = IF bucket = None
            THEN [capacity |-> 0, rate |-> rate, tokens |-> 0]
            ELSE [bucket EXCEPT !.rate = rate]

Remove == bucket' = None

Next ==
  \/ Second
  \/ \E amount \in U64Values : Take(amount) \/ Return(amount)
  \/ \E capacity, rate \in U64Values : NewCapacity(capacity, rate)
  \/ \E rate \in U64Values : NewRate(rate)
  \/ Remove

Spec == Init /\ [][Next]_bucket
===============================================================================
