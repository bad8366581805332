------------------------- MODULE EvdStreamThrottle -------------------------
(***************************************************************************)
(* EvdStreamThrottle (src/evd/evd-stream-throttle.c): at most `bandwidth`  *)
(* bytes in a second of the clock, and `latency` microseconds between two  *)
(* transfers.  A throttled stream asks (request), moves at most what it    *)
(* was granted, and tells the throttle (report).  The streams that share a *)
(* throttle belong to one main loop, so a request is followed by its       *)
(* report; the clock goes on in between.  Times are GTimeVal pairs, with   *)
(* the real arithmetic on seconds and microseconds.                        *)
(***************************************************************************)
EXTENDS Integers

CONSTANTS G_USEC_PER_SEC,         \* 1000000
          Bandwidths, Latencies,  \* values the two limits are set to
          Sizes,                  \* sizes asked for
          Steps,                  \* microseconds the clock goes on by
          LastSecond,             \* bound: the clock stops in this second
          MaxBytes                \* bound on the bytes of a second

ASSUME ThrottleAssumption ==
  /\ G_USEC_PER_SEC \in Nat \ {0}
  /\ Bandwidths \subseteq Nat /\ Latencies \subseteq Nat
  /\ Sizes \subseteq Nat \ {0} /\ LastSecond \in Nat /\ MaxBytes \in Nat
  /\ Steps \subseteq 1..G_USEC_PER_SEC

VARIABLES bandwidth, latency, now, current_time, last, bytes, granted, retry, since

thrVars == <<bandwidth, latency, now, current_time, last, bytes, granted, retry, since>>

GTimeVal == [tv_sec : Nat, tv_usec : 0..(G_USEC_PER_SEC - 1)]
Micro(t) == t.tv_sec * G_USEC_PER_SEC + t.tv_usec
At(sec, usec) == [tv_sec |-> sec, tv_usec |-> usec]

Init ==
  /\ bandwidth \in Bandwidths /\ latency \in Latencies
  /\ now = At(1, 0) /\ current_time = At(0, 0) /\ last = At(0, 0)
  /\ bytes = 0 /\ granted = 0 /\ retry = 0 /\ since = 0

ABS(x) == IF x < 0 THEN -x ELSE x
MAX(x, y) == IF x < y THEN y ELSE x
MIN(x, y) == IF x < y THEN x ELSE y

\* The distance of the seconds and that of the microseconds, added up.
g_timeval_get_diff_micro(t1, t2) ==
  ABS(t2.tv_sec - t1.tv_sec) * G_USEC_PER_SEC + ABS(t2.tv_usec - t1.tv_usec)

\* evd_stream_throttle_update_current_time: bytes counted at time t.
BytesAt(t, cur, n) == IF t.tv_sec # cur.tv_sec THEN 0 ELSE n

TooSoon(t) == latency > 0 /\ g_timeval_get_diff_micro(t, last) < latency

\* Deviation: the bytes already moved in this second are not subtracted.
WholeBandwidth(t, size) ==
  IF TooSoon(t) THEN 0
  ELSE IF bandwidth > 0 THEN MIN(bandwidth, size) ELSE size

\* evd_stream_throttle_request_internal at time t.
Granted(t, size) ==
  IF TooSoon(t) THEN 0
  ELSE IF bandwidth > 0
  THEN MIN(MAX(bandwidth - BytesAt(t, current_time, bytes), 0), size)
  ELSE size

\* The wait it answers, in milliseconds; 0 when the whole size is granted.
Wait(t, size) ==
  IF TooSoon(t) THEN (latency - g_timeval_get_diff_micro(t, last)) \div 1000 + 2
  ELSE IF Granted(t, size) < size THEN (G_USEC_PER_SEC + 1 - t.tv_usec) \div 1000 + 1
  ELSE 0

\* retry is when the stream asks again, 0 if it need not wait; since is the
\* second in which it asked.
evd_stream_throttle_request(size) ==
  /\ granted = 0
  /\ current_time' = now
  /\ bytes' = BytesAt(now, current_time, bytes)
  /\ granted' = Granted(now, size)
  /\ retry' = IF Wait(now, size) = 0 THEN 0 ELSE Micro(now) + 1000 * Wait(now, size)
  /\ since' = now.tv_sec
  /\ UNCHANGED <<bandwidth, latency, now, last>>

\* n bytes were moved.
evd_stream_throttle_report(n) ==
  /\ n <= granted
  /\ granted' = 0
  /\ current_time' = now
  /\ bytes' = BytesAt(now, current_time, bytes) + n
  /\ last' = now
  /\ UNCHANGED <<bandwidth, latency, now, retry, since>>

\* The kernel had nothing: there is no report.
NothingMoved ==
  /\ granted > 0
  /\ granted' = 0
  /\ UNCHANGED <<bandwidth, latency, now, current_time, last, bytes, retry, since>>

Tick(d) ==
  /\ now.tv_sec < LastSecond
  /\ now' = IF now.tv_usec + d < G_USEC_PER_SEC THEN At(now.tv_sec, now.tv_usec + d)
            ELSE At(now.tv_sec + 1, now.tv_usec + d - G_USEC_PER_SEC)
  /\ UNCHANGED <<bandwidth, latency, current_time, last, bytes, granted, retry, since>>

Next ==
  \/ \E size \in Sizes : evd_stream_throttle_request(size)
  \/ \E n \in 1..granted : bytes + n <= MaxBytes /\ evd_stream_throttle_report(n)
  \/ NothingMoved
  \/ \E d \in Steps : Tick(d)

Spec == Init /\ [][Next]_thrVars

(***************************************************************************)
(* Properties.                                                             *)
(***************************************************************************)

TypeOK ==
  /\ bandwidth \in Nat /\ latency \in Nat
  /\ now \in GTimeVal /\ current_time \in GTimeVal /\ last \in GTimeVal
  /\ bytes \in Nat /\ granted \in Nat /\ retry \in Nat /\ since \in Nat

\* However requests, transfers and the turn of the second interleave, never
\* more than `bandwidth` bytes are counted in a second, a granted transfer
\* that is still to be reported included.
BandwidthKept ==
  bandwidth > 0 =>
    /\ bytes <= bandwidth
    /\ granted <= bandwidth
    /\ current_time.tv_sec = now.tv_sec => bytes + granted <= bandwidth

\* A stream refused for its bandwidth that asks again after the time it was
\* told to wait is not refused again, unless bytes were moved in a second after
\* that of the request.
RetryPasses ==
  bandwidth > 0 /\ latency = 0 /\ retry > 0 /\ Micro(now) >= retry
    /\ last.tv_sec <= since
  => Granted(now, 1) > 0

\* Within a second, a transfer is granted only `latency` after the last one.
LatencyInSecond ==
  granted > 0 /\ latency > 0 /\ current_time.tv_sec = last.tv_sec
  => Micro(current_time) - Micro(last) >= latency

\* What a throttle promises to its streams, over the turn of seconds and any
\* order of requests and reports: the bandwidth, a wait that is long enough, and
\* the latency within a second.
LimitsKept == BandwidthKept /\ RetryPasses /\ LatencyInSecond

\* "The minimum time between two transfers" (evd-stream-throttle.c:93).
LatencyKept ==
  granted > 0 /\ latency > 0 => Micro(current_time) - Micro(last) >= latency
=============================================================================
