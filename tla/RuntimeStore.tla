---------------------------- MODULE RuntimeStore ----------------------------
(***************************************************************************)
(* The runtime store: the key/value store with per-entry TTL in which the  *)
(* OAuth grants keep their transient records.  A deployment uses one of    *)
(* three backends: a SQL table ("db"), a process-local map ("memory") or   *)
(* Redis ("redis").  This module says when an entry is visible, when a     *)
(* conditional write takes effect and with which clock reading; the        *)
(* modules of the grants keep the entries themselves as their state.       *)
(*                                                                         *)
(* Times are whole seconds counted from 1.  Never is the expiry of an      *)
(* entry stored without a TTL: the NULL EXPIRY_TIME of the table, the zero *)
(* time of the map, a key without a TTL in Redis.                          *)
(***************************************************************************)
EXTENDS Integers

Backends == {"db", "memory", "redis"}

Never == 0

(***************************************************************************)
(* The expiry an entry is stored with: a TTL that is not positive stores   *)
(* the entry for good.                                                     *)
(***************************************************************************)
StoredUntil(ttl, now) == IF ttl > 0 THEN now + ttl ELSE Never

(***************************************************************************)
(* An entry is visible at `now`.  The table wants EXPIRY_TIME > now; the   *)
(* map and Redis still serve the entry in the instant of its expiry.       *)
(***************************************************************************)
Live(backend, until, now) ==
  \/ until = Never
  \/ IF backend = "db" THEN until > now ELSE until >= now

(***************************************************************************)
(* The clock readings a conditional write can be decided with when its     *)
(* caller last looked at the clock at `since`.  The table compares with    *)
(* time.Now() of the server that sends the statement, which may run later; *)
(* the map reads the clock under its lock and Redis in its script.         *)
(***************************************************************************)
SwapTimes(backend, since, now) == IF backend = "db" THEN since..now ELSE {now}

(***************************************************************************)
(* CompareFieldAndSwap replaces the value of a visible entry whose field   *)
(* still has the expected value.                                           *)
(***************************************************************************)
FieldMatches(backend, current, expected, until, now) ==
  Live(backend, until, now) /\ current = expected

(***************************************************************************)
(* CompareFieldAndSwapBeforeExpiry also wants the expiry that the          *)
(* application supplies to lie strictly in the future.                     *)
(***************************************************************************)
FieldMatchesBeforeExpiry(backend, current, expected, until, expiry, now) ==
  FieldMatches(backend, current, expected, until, now) /\ now < expiry
=============================================================================
