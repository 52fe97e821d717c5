--------------------------- MODULE MastersExplorer ---------------------------
(***************************************************************************)
(* The client of the Lichess masters explorer (explorer/mod.rs): a cache   *)
(* of positions with a time to live and a cap, and the pause that a 429    *)
(* demands.  A request is in flight while it awaits Lichess, holding no    *)
(* lock, so answers come in any order.                                     *)
(***************************************************************************)
EXTENDS Integers, FiniteSets

CONSTANTS MastersCallers, Positions,
          CacheTtl, CacheCap, Backoff,   \* in ticks
          MaxClock,                      \* bound
          NoCall

ASSUME MastersAssumption == CacheCap \in Nat \ {0} /\ CacheTtl \in Nat /\ Backoff \in Nat

VARIABLES clock,
          cache,        \* position -> when it was stored, a partial function
          backoffUntil, \* until then Lichess is not called
          asked,        \* caller -> the position it has asked Lichess for, or NoCall
          limited       \* history: when Lichess last said 429, before 0 never
mastersVars == <<clock, cache, backoffUntil, asked, limited>>

MastersInit ==
  /\ clock = 0
  /\ cache = <<>>
  /\ backoffUntil = 0
  /\ asked = [c \in MastersCallers |-> NoCall]
  /\ limited = 0 - Backoff

MastersTick ==
  /\ clock < MaxClock /\ clock' = clock + 1
  /\ UNCHANGED <<cache, backoffUntil, asked, limited>>

Fresh(p)    == p \in DOMAIN cache /\ clock - cache[p] < CacheTtl
BackingOff  == clock < backoffUntil

\* report, past the cache and the pause: a fresh hit is answered at once, and
\* without Lichess whatever is cached is served, so neither changes anything.
Ask(c, p) ==
  /\ asked[c] = NoCall
  /\ ~Fresh(p) /\ ~BackingOff
  /\ asked' = [asked EXCEPT ![c] = p]
  /\ UNCHANGED <<clock, cache, backoffUntil, limited>>

\* store: at the cap, what has expired goes, or else one oldest entry.
Stored(p) ==
  LET live   == {q \in DOMAIN cache : Fresh(q)}
      oldest == {q \in DOMAIN cache : \A r \in DOMAIN cache : cache[q] <= cache[r]}
      keeps  == IF Cardinality(DOMAIN cache) < CacheCap \/ p \in DOMAIN cache THEN {DOMAIN cache}
                ELSE IF Cardinality(live) < CacheCap THEN {live}
                ELSE {DOMAIN cache \ {q} : q \in oldest}
  IN {[q \in keep \cup {p} |-> IF q = p THEN clock ELSE cache[q]] : keep \in keeps}

Received(c) ==
  /\ asked[c] # NoCall
  /\ asked' = [asked EXCEPT ![c] = NoCall]
  /\ UNCHANGED clock

Success(c) ==
  /\ Received(c)
  /\ cache' \in Stored(asked[c])
  /\ UNCHANGED <<backoffUntil, limited>>

\* Mutant: a pause that is running is not prolonged.
TooManyRequests_Once(c) ==
  /\ Received(c)
  /\ backoffUntil' = IF BackingOff THEN backoffUntil ELSE clock + Backoff
  /\ limited' = clock
  /\ UNCHANGED cache

TooManyRequests(c) ==
  /\ Received(c)
  /\ backoffUntil' = clock + Backoff
  /\ limited' = clock
  /\ UNCHANGED cache

\* Any other failure, an unreadable body included.
Failure(c) ==
  /\ Received(c)
  /\ UNCHANGED <<cache, backoffUntil, limited>>

MastersNext ==
  \/ MastersTick
  \/ \E c \in MastersCallers : \/ Success(c) \/ TooManyRequests(c) \/ Failure(c)
                               \/ \E p \in Positions : Ask(c, p)
MastersSpec == MastersInit /\ [][MastersNext]_mastersVars

(***************************************************************************)
(* Properties.                                                             *)
(***************************************************************************)

\* For the whole pause after the last 429, whoever received it, no call starts.
QuietAfterLimit ==
  [][ \A c \in MastersCallers : asked[c] = NoCall /\ asked'[c] # NoCall => clock >= limited + Backoff ]_mastersVars

=============================================================================
