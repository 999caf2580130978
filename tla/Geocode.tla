------------------------------ MODULE Geocode ------------------------------
(***************************************************************************)
(* The geocoder's manners towards its provider (api/services/geocode.py):  *)
(* the minimum spacing of calls, by a Redis key that expires or, without   *)
(* Redis, by a slot of each process, and the backoff after a failure.      *)
(*                                                                         *)
(* Redis carries a SET NX out when its answer arrives or, if the answer is *)
(* lost, when it is given up; its other calls are answered at once.  Calls *)
(* and waits take any number of ticks; all clocks agree; Redis and an      *)
(* interval are configured.  The cache only answers: what its calls can do *)
(* is done by Search and ProviderAnswers.                                  *)
(***************************************************************************)
EXTENDS Integers, Sequences

CONSTANTS Servers,   \* processes of the API
          Searches,  \* searches that can be under way at once
          Nobody,
          Interval,  \* min_interval_ms, in ticks
          MaxWait,   \* throttle_wait_ms
          FailOpen,  \* redis_fail_open_seconds
          Backoff,   \* failure_backoff_seconds
          \* bounds: ticks, slots, failed Redis calls, restarts of a process
          MaxNow, MaxSlots, MaxOutages, MaxRestarts

Redis == <<"redis", 0>>

ASSUME GeocodeAssumption ==
  /\ Nobody \notin Searches \cup Servers /\ "redis" \notin Servers
  /\ {Interval, Backoff} \subseteq Nat \ {0} /\ {MaxWait, FailOpen} \subseteq Nat
  /\ {MaxNow, MaxSlots, MaxOutages, MaxRestarts} \subseteq Nat

VARIABLES
  now,
  throttle, backoff,       \* Redis: when the key expires; an expired one is gone
  openUntil,               \* per process: _redis_fail_open_until
  lock, nextSlot,          \* per process: _local_lock, _local_next_slot
  search,                  \* per search: where it is and what it remembers
  life,                    \* history, per process: how often it was started anew
  slots,                   \* history: the slots given, and who gave them
  outages                  \* history: how many Redis calls failed

processVars == <<openUntil, lock, nextSlot, life>>
geocodeVars == <<now, throttle, backoff, processVars, search, slots, outages>>

Stages == {"idle", "asking", "napping", "queueing", "dozing", "calling"}
NoSearch == [at |-> "idle", on |-> Nobody, deadline |-> 0, since |-> 0, until |-> 0, skips |-> FALSE]

GeocodeInit ==
  /\ now = 0 /\ throttle = 0 /\ backoff = 0
  /\ openUntil = [s \in Servers |-> 0]
  /\ lock = [s \in Servers |-> Nobody]
  /\ nextSlot = [s \in Servers |-> 0]
  /\ search = [q \in Searches |-> NoSearch]
  /\ life = [s \in Servers |-> 0]
  /\ slots = <<>> /\ outages = 0

At(q, stage) == search[q].at = stage
Home(q) == search[q].on
Ends(q) == search' = [search EXCEPT ![q] = NoSearch]

-----------------------------------------------------------------------------
(* _redis_call: skipped for a while after a failure, by that process.      *)
Skipped(s) == now < openUntil[s]
Answered == UNCHANGED <<openUntil, outages>>
Fails(s, since) ==
  /\ outages < MaxOutages /\ outages' = outages + 1
  /\ openUntil' = [openUntil EXCEPT ![s] = since + FailOpen]

(* A call that is answered at once.                                        *)
Reached(s) == ~Skipped(s) /\ Answered
NotReached(s) == (Skipped(s) /\ Answered) \/ (~Skipped(s) /\ Fails(s, now))

Asks(q, s, deadline) ==
  search' = [search EXCEPT ![q] = [NoSearch EXCEPT !.at = "asking", !.on = s, !.deadline = deadline,
                                               !.since = now, !.skips = now < openUntil'[s]]]

-----------------------------------------------------------------------------
(* _cache_get, _in_backoff: what is in backoff is answered at once.        *)
Search(q, s) ==
  /\ At(q, "idle")
  /\ (Reached(s) /\ backoff <= now) \/ NotReached(s)
  /\ Asks(q, s, now + MaxWait)
  /\ UNCHANGED <<now, throttle, backoff, lock, nextSlot, life, slots>>

(* _acquire_slot: SET NX PX                                                *)
Slot(source) == Len(slots) < MaxSlots /\ slots' = Append(slots, [at |-> now, by |-> source])
Proceeds(q) == search' = [search EXCEPT ![q] = [NoSearch EXCEPT !.at = "calling", !.on = Home(q)]]

Acquire(q) ==
  /\ At(q, "asking") /\ ~search[q].skips /\ throttle <= now
  /\ throttle' = now + Interval
  /\ Slot(Redis) /\ Proceeds(q)
  /\ UNCHANGED <<now, backoff, processVars, outages>>

Throttled(q) ==
  /\ At(q, "asking") /\ ~search[q].skips /\ now < throttle
  /\ search[q].deadline <= now
  /\ Ends(q)
  /\ UNCHANGED <<now, throttle, backoff, processVars, slots, outages>>

(* It sleeps for what PTTL says, or 50 ms, at most until the deadline.     *)
Nap(q) ==
  LET deadline == search[q].deadline
      Naps(wait) == search' = [search EXCEPT ![q].at = "napping",
                      ![q].until = IF now + wait < deadline THEN now + wait ELSE deadline] IN
  /\ At(q, "asking") /\ ~search[q].skips /\ now < throttle
  /\ now < deadline
  /\ (Reached(Home(q)) /\ Naps(throttle - now)) \/ (NotReached(Home(q)) /\ Naps(1))
  /\ UNCHANGED <<now, throttle, backoff, lock, nextSlot, life, slots>>

Wake(q) ==
  /\ At(q, "napping") /\ search[q].until <= now
  /\ UNCHANGED <<now, throttle, backoff, processVars, slots, outages>>
  /\ Asks(q, Home(q), search[q].deadline)

(* Redis is skipped, or fails with the key set or not.                     *)
TurnLocal(q) ==
  /\ At(q, "asking")
  /\ \/ search[q].skips /\ Answered /\ UNCHANGED throttle
     \/ /\ ~search[q].skips /\ Fails(Home(q), search[q].since)
        /\ throttle' \in {throttle} \cup (IF throttle <= now THEN {now + Interval} ELSE {})
  /\ search' = [search EXCEPT ![q].at = "queueing"]
  /\ UNCHANGED <<now, backoff, lock, nextSlot, life, slots>>

(* _acquire_local_slot: behind the process's lock, held while it sleeps.   *)
TooLate(q) ==
  /\ At(q, "queueing") /\ lock[Home(q)] = Nobody
  /\ now < nextSlot[Home(q)] /\ search[q].deadline < nextSlot[Home(q)]
  /\ Ends(q)
  /\ UNCHANGED <<now, throttle, backoff, processVars, slots, outages>>

(* Mutant: the lock is let go before the sleep.                            *)
DozeUnlocked(q) ==
  /\ At(q, "queueing") /\ lock[Home(q)] = Nobody
  /\ now < nextSlot[Home(q)] /\ nextSlot[Home(q)] <= search[q].deadline
  /\ search' = [search EXCEPT ![q].at = "dozing", ![q].until = nextSlot[Home(q)]]
  /\ UNCHANGED <<now, throttle, backoff, processVars, slots, outages>>

Doze(q) ==
  /\ At(q, "queueing") /\ lock[Home(q)] = Nobody
  /\ now < nextSlot[Home(q)] /\ nextSlot[Home(q)] <= search[q].deadline
  /\ search' = [search EXCEPT ![q].at = "dozing", ![q].until = nextSlot[Home(q)]]
  /\ lock' = [lock EXCEPT ![Home(q)] = q]
  /\ UNCHANGED <<now, throttle, backoff, openUntil, nextSlot, life, slots, outages>>

AcquireLocal(q) ==
  LET s == Home(q) IN
  /\ \/ At(q, "queueing") /\ lock[s] = Nobody /\ nextSlot[s] <= now
     \/ At(q, "dozing") /\ search[q].until <= now
  /\ nextSlot' = [nextSlot EXCEPT ![s] = now + Interval]
  /\ lock' = [lock EXCEPT ![s] = Nobody]
  /\ Slot(<<s, life[s]>>) /\ Proceeds(q)
  /\ UNCHANGED <<now, throttle, backoff, openUntil, life, outages>>

(* provider.search; then _cache_set or, if it failed, _start_backoff.      *)
ProviderAnswers(q) ==
  /\ At(q, "calling")
  /\ Reached(Home(q)) \/ NotReached(Home(q))
  /\ backoff' \in {backoff} \cup (IF Skipped(Home(q)) THEN {} ELSE {now + Backoff})
  /\ Ends(q)
  /\ UNCHANGED <<now, throttle, lock, nextSlot, life, slots>>

-----------------------------------------------------------------------------
(* A process starts anew: GeocodeService.__init__.                         *)
Restart(s) ==
  /\ life[s] < MaxRestarts
  /\ life' = [life EXCEPT ![s] = @ + 1]
  /\ openUntil' = [openUntil EXCEPT ![s] = 0]
  /\ lock' = [lock EXCEPT ![s] = Nobody]
  /\ nextSlot' = [nextSlot EXCEPT ![s] = 0]
  /\ search' = [q \in Searches |-> IF Home(q) = s THEN NoSearch ELSE search[q]]
  /\ UNCHANGED <<now, throttle, backoff, slots, outages>>

Tick == now < MaxNow /\ now' = now + 1
        /\ UNCHANGED <<throttle, backoff, processVars, search, slots, outages>>

GeocodeNext ==
  \/ \E q \in Searches :
       \/ \E s \in Servers : Search(q, s)
       \/ Acquire(q) \/ Throttled(q) \/ Nap(q) \/ Wake(q) \/ TurnLocal(q) \/ TooLate(q)
       \/ Doze(q) \/ AcquireLocal(q) \/ ProviderAnswers(q)
  \/ \E s \in Servers : Restart(s)
  \/ Tick

GeocodeSpec == GeocodeInit /\ [][GeocodeNext]_geocodeVars

-----------------------------------------------------------------------------
(* Clocks, keys and searches have the shape the code gives them.           *)
Sources == {Redis} \cup (Servers \X Nat)
GeocodeTypeOK ==
  /\ {now, throttle, backoff, outages} \subseteq Nat
  /\ openUntil \in [Servers -> Nat] /\ nextSlot \in [Servers -> Nat] /\ life \in [Servers -> Nat]
  /\ lock \in [Servers -> Searches \cup {Nobody}]
  /\ search \in [Searches -> [at : Stages, on : Servers \cup {Nobody}, deadline : Nat, since : Nat, until : Nat,
                              skips : BOOLEAN]]
  /\ slots \in Seq([at : Nat, by : Sources])

(* "keep the provider's minimum call spacing ... shared by all replicas,   *)
(* an in-process fallback when Redis is down" (geocode.py:10): two slots   *)
(* closer than the interval were given by two different sources, Redis     *)
(* and a process or two processes (one before, one after a restart), and   *)
(* only once a Redis call has failed.                                      *)
SlotsSpaced ==
  \A i, j \in DOMAIN slots :
    i < j /\ slots[j].at - slots[i].at < Interval =>
      slots[i].by # slots[j].by /\ outages > 0
=============================================================================
