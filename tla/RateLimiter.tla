----------------------------- MODULE RateLimiter ----------------------------
(***************************************************************************)
(* FixedWindowRateLimiter of FileController.kt, which guards downloadFile: *)
(* a counter per client key, opened on the first request and restarted by  *)
(* the first request that finds it at least WindowMillis old.              *)
(*                                                                         *)
(* A call reads the clock, looks its counter up, and only then enters the  *)
(* synchronized block; time and other calls pass in between, so its now    *)
(* may be older than the window it is counted in.  Each of the three steps *)
(* is atomic: computeIfAbsent of a ConcurrentHashMap and a block that      *)
(* every call for the key synchronizes on.  The clock does not step back.  *)
(***************************************************************************)
EXTENDS Naturals, FiniteSets

CONSTANTS
  Calls,         \* calls of allow, one per download request
  Clients,       \* client keys: addresses, or "unknown"
  Forwarded,     \* first address of X-Forwarded-For of a call, or NoHeader
  Remote,        \* request.remoteAddr of a call
  NoHeader,      \* the header is missing or starts with a blank
  MaxRequests,   \* app.download.rate-limit.requests-per-second
  WindowMillis,  \* 1000 in the code
  MaxTime        \* bound on the clock

ASSUME RateAssumption ==
  /\ IsFiniteSet(Calls)
  /\ NoHeader \notin Clients
  /\ Forwarded \in [Calls -> Clients \cup {NoHeader}]
  /\ Remote \in [Calls -> Clients]
  /\ MaxRequests \in Nat
  /\ WindowMillis \in Nat \ {0}
  /\ MaxTime \in Nat

VARIABLES
  clock,        \* System.currentTimeMillis()
  opened,       \* the keys of counters
  windowStart,  \* WindowCounter.windowStart of each key
  count,        \* WindowCounter.count of each key
  stage,        \* where each call is
  now,          \* the time each call has read
  verdict,      \* what allow returned
  window        \* history: start of the window a call was counted in

counters == <<opened, windowStart, count>>
rateVars == <<clock, counters, stage, now, verdict, window>>

Times == 0..MaxTime

(* Every variable keeps its type, and no window starts in the future.      *)
RateTypeOK ==
  /\ clock \in Times
  /\ opened \subseteq Clients
  /\ windowStart \in [Clients -> Times] /\ \A k \in Clients : windowStart[k] <= clock
  /\ count \in [Clients -> Nat]
  /\ stage \in [Calls -> {"new", "find", "count", "done"}]
  /\ now \in [Calls -> Times]
  /\ verdict \in [Calls -> {"none", "admitted", "refused"}]
  /\ window \in [Calls -> Times]

RateInit ==
  /\ clock = 0
  /\ opened = {}
  /\ windowStart = [k \in Clients |-> 0]
  /\ count = [k \in Clients |-> 0]
  /\ stage = [c \in Calls |-> "new"]
  /\ now = [c \in Calls |-> 0]
  /\ verdict = [c \in Calls |-> "none"]
  /\ window = [c \in Calls |-> 0]

Advance(c, from, to) == stage[c] = from /\ stage' = [stage EXCEPT ![c] = to]

(* resolveClientKey: behind the proxy the client's own address counts.     *)
Key(c) == IF Forwarded[c] # NoHeader THEN Forwarded[c] ELSE Remote[c]

(* The call is counted: it restarts the window, or is one more in it.      *)
CountedIn(c, start, number) ==
  /\ windowStart' = [windowStart EXCEPT ![Key(c)] = start]
  /\ count' = [count EXCEPT ![Key(c)] = number]
  /\ verdict' = [verdict EXCEPT ![c] = IF number <= MaxRequests THEN "admitted" ELSE "refused"]
  /\ window' = [window EXCEPT ![c] = start]
  /\ UNCHANGED <<clock, opened, now>>

-----------------------------------------------------------------------------
(* Plausible errors in the code, which the properties must notice.         *)

(* get and put instead of computeIfAbsent: a counter that another call has *)
(* just stored is replaced.                                                *)
FindReplaces(c) ==
  /\ Advance(c, "find", "count")
  /\ opened' = opened \cup {Key(c)}
  /\ windowStart' = [windowStart EXCEPT ![Key(c)] = now[c]]
  /\ count' = [count EXCEPT ![Key(c)] = 0]
  /\ UNCHANGED <<clock, now, verdict, window>>

(* The window is restarted a millisecond late.                             *)
CountLate(c) ==
  /\ now[c] < windowStart[Key(c)] + WindowMillis + 1
  /\ Advance(c, "count", "done")
  /\ CountedIn(c, windowStart[Key(c)], count[Key(c)] + 1)

(* Any difference between now and the window restarts it, also backwards.  *)
RestartAnyDifference(c) ==
  /\ now[c] # windowStart[Key(c)]
  /\ Advance(c, "count", "done")
  /\ CountedIn(c, now[c], 1)

-----------------------------------------------------------------------------
Tick ==
  /\ clock < MaxTime
  /\ clock' = clock + 1
  /\ UNCHANGED <<counters, stage, now, verdict, window>>

ReadClock(c) ==
  /\ Advance(c, "new", "find")
  /\ now' = [now EXCEPT ![c] = clock]
  /\ UNCHANGED <<clock, counters, verdict, window>>

(* computeIfAbsent: the first call for a key opens its counter.            *)
Find(c) ==
  /\ Advance(c, "find", "count")
  /\ opened' = opened \cup {Key(c)}
  /\ windowStart' =
       IF Key(c) \in opened THEN windowStart ELSE [windowStart EXCEPT ![Key(c)] = now[c]]
  /\ UNCHANGED <<clock, count, now, verdict, window>>

Restart(c) ==
  /\ now[c] >= windowStart[Key(c)] + WindowMillis
  /\ Advance(c, "count", "done")
  /\ CountedIn(c, now[c], 1)

Count(c) ==
  /\ now[c] < windowStart[Key(c)] + WindowMillis
  /\ Advance(c, "count", "done")
  /\ CountedIn(c, windowStart[Key(c)], count[Key(c)] + 1)

RateNext ==
  \/ Tick
  \/ \E c \in Calls : ReadClock(c) \/ Find(c) \/ Restart(c) \/ Count(c)

RateSpec == RateInit /\ [][RateNext]_rateVars

-----------------------------------------------------------------------------
AdmittedIn(k, start) ==
  {c \in Calls : verdict[c] = "admitted" /\ Key(c) = k /\ window[c] = start}

(* No window of a key admits more than MaxRequests calls, however late     *)
(* they reach the block and whoever restarts the window (lines 593-601).   *)
WindowBound ==
  \A k \in Clients : \A start \in Times : Cardinality(AdmittedIn(k, start)) <= MaxRequests

(* A call is refused only if MaxRequests calls of the same client were     *)
(* admitted in a window that had begun less than WindowMillis before the   *)
(* call read the clock: nobody pays for another client or an old window.   *)
RefusalJustified ==
  \A c \in Calls : verdict[c] = "refused" =>
    /\ Cardinality(AdmittedIn(Key(c), window[c])) = MaxRequests
    /\ now[c] < window[c] + WindowMillis

(* The windows of a key only move forward, by at least WindowMillis: a     *)
(* call that carries an old now never takes a window back (line 594).      *)
WindowsApart ==
  [][\A k \in opened :
       windowStart'[k] # windowStart[k] => windowStart'[k] >= windowStart[k] + WindowMillis]_rateVars
=============================================================================
