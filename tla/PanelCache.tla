----------------------------- MODULE PanelCache -----------------------------
(***************************************************************************)
(* The response cache of the parcel panel (api/services/panel_cache.py):   *)
(* an entry per state of the data, found by a stamp that is read before    *)
(* the data, and never invalidated.                                        *)
(*                                                                         *)
(* A fact is a piece of data a panel shows: the publish version, the live  *)
(* assumptions, a column of a planning document.  A body is the facts it   *)
(* was built from.  STAMP_SQL reads some of the facts; the key of an entry *)
(* and a client's ETag are the stamp.                                      *)
(***************************************************************************)
EXTENDS Integers, FiniteSets

CONSTANTS Readers,     \* panel requests that can be under way at once
          Stamped,     \* facts of the panel that STAMP_SQL reads
          Unstamped,   \* facts of the panel that it does not read
          Advancing,   \* facts that never take an earlier value again (ids, times)
          MaxChanges   \* bound: changes of the facts

ASSUME PanelAssumption ==
  /\ Stamped \cap Unstamped = {} /\ Advancing \subseteq Stamped \cup Unstamped
  /\ MaxChanges \in Nat

VARIABLES
  facts,      \* the data as it is committed
  cache,      \* Redis: from stamps to bodies
  stage, key, body, held,   \* per request: where it is, its stamp, its body, the client's copy
  changes,
  since,      \* history: per request, every state of the data since it began
  gone,       \* history: the states the data has left
  edited, recurred       \* history: an unstamped fact changed; a state came back

panelVars == <<facts, cache, stage, key, body, held, changes, since, gone, edited, recurred>>

Facts == Stamped \cup Unstamped
Values == 0..MaxChanges
Bodies == [Facts -> Values]
Stamps == [Stamped -> Values]
Copies == [key : Stamps, body : Bodies]
Stamp(b) == [f \in Stamped |-> b[f]]
Unchanged == [f \in Facts |-> 0]

PanelInit ==
  /\ facts = Unchanged
  /\ cache = [k \in {} |-> Unchanged]
  /\ stage = [r \in Readers |-> "idle"]
  /\ key = [r \in Readers |-> Stamp(Unchanged)]
  /\ body = [r \in Readers |-> Unchanged]
  /\ held = [r \in Readers |-> {}]
  /\ changes = 0
  /\ since = [r \in Readers |-> {}]
  /\ gone = {} /\ edited = FALSE /\ recurred = FALSE

-----------------------------------------------------------------------------
(* PanelCache.serve *)

Holds(r) == \E copy \in held[r] : copy.key = key[r]   \* etag_matches
Active(r) == stage[r] \in {"stamped", "missed", "built"}
World == <<facts, changes, gone, edited, recurred>>

(* The stamp; the client may state the ETag of the copy it holds.          *)
Ask(r) ==
  /\ ~Active(r)
  /\ stage' = [stage EXCEPT ![r] = "stamped"]
  /\ key' = [key EXCEPT ![r] = Stamp(facts)]
  /\ \E copy \in {held[r], {}} : held' = [held EXCEPT ![r] = copy]
  /\ since' = [since EXCEPT ![r] = {facts}]
  /\ UNCHANGED <<World, cache, body>>

Answer(r, b) ==
  /\ stage' = [stage EXCEPT ![r] = "done"]
  /\ body' = [body EXCEPT ![r] = b]
  /\ held' = [held EXCEPT ![r] = {[key |-> key[r], body |-> b]}]
  /\ UNCHANGED <<World, key, since>>

(* 304: the client shows what it holds.                                    *)
Revalidated(r) ==
  /\ stage[r] = "stamped"
  /\ \E copy \in held[r] : copy.key = key[r] /\ Answer(r, copy.body)
  /\ UNCHANGED cache

Hit(r) ==
  /\ stage[r] = "stamped" /\ ~Holds(r)
  /\ key[r] \in DOMAIN cache
  /\ Answer(r, cache[key[r]]) /\ UNCHANGED cache

(* No entry, or Redis is off, down or skipped for a while.                 *)
Miss(r) ==
  /\ stage[r] = "stamped" /\ ~Holds(r)
  /\ stage' = [stage EXCEPT ![r] = "missed"]
  /\ UNCHANGED <<World, cache, key, body, held, since>>

(* The panel's statement: one snapshot of the data.                        *)
Build(r) ==
  /\ stage[r] = "missed"
  /\ stage' = [stage EXCEPT ![r] = "built"]
  /\ body' = [body EXCEPT ![r] = facts]
  /\ UNCHANGED <<World, cache, key, held, since>>

(* The entity does not exist, or the process ends.                         *)
Fail(r) ==
  /\ Active(r)
  /\ stage' = [stage EXCEPT ![r] = "idle"]
  /\ UNCHANGED <<World, cache, key, body, held, since>>

Stored(k, b) == [c \in DOMAIN cache \cup {k} |-> IF c = k THEN b ELSE cache[c]]

(* Mutant: the key is made of a stamp read after the data.                 *)
DeliverUnderNewStamp(r) ==
  /\ stage[r] = "built"
  /\ Answer(r, body[r])
  /\ cache' \in {cache, Stored(Stamp(facts), body[r])}

(* SET may fail; the panel is sent all the same.                           *)
Deliver(r) ==
  /\ stage[r] = "built"
  /\ Answer(r, body[r])
  /\ cache' \in {cache, Stored(key[r], body[r])}

(* PANEL_CACHE_TTL_SECONDS, or memory                                      *)
Expire(k) ==
  /\ cache' = [c \in DOMAIN cache \ {k} |-> cache[c]]
  /\ UNCHANGED <<World, stage, key, body, held, since>>

(* A publish, an import, an administrator's edit commits.                  *)
Change(f) ==
  /\ changes < MaxChanges
  /\ \E v \in (IF f \in Advancing THEN {changes + 1} ELSE {0, 1}) \ {facts[f]} :
       facts' = [facts EXCEPT ![f] = v]
  /\ changes' = changes + 1
  /\ since' = [r \in Readers |-> since[r] \cup {facts'}]
  /\ gone' = gone \cup {facts}
  /\ recurred' = (recurred \/ facts' \in gone')
  /\ edited' = (edited \/ f \in Unstamped)
  /\ UNCHANGED <<cache, stage, key, body, held>>

PanelNext ==
  \/ \E r \in Readers : \/ Ask(r) \/ Revalidated(r) \/ Hit(r) \/ Miss(r)
                        \/ Build(r) \/ Fail(r) \/ Deliver(r)
  \/ \E k \in DOMAIN cache : Expire(k)
  \/ \E f \in Facts : Change(f)

PanelSpec == PanelInit /\ [][PanelNext]_panelVars

-----------------------------------------------------------------------------
(* Properties *)

(* Stamps, bodies and copies are what the code puts there.                 *)
PanelTypeOK ==
  /\ facts \in Bodies
  /\ DOMAIN cache \subseteq Stamps /\ \A k \in DOMAIN cache : cache[k] \in Bodies
  /\ stage \in [Readers -> {"idle", "stamped", "missed", "built", "done"}]
  /\ key \in [Readers -> Stamps] /\ body \in [Readers -> Bodies]
  /\ held \in [Readers -> SUBSET Copies]

(* panel_cache.py:9: nothing stale is served.  What a client shows after a *)
(* request was the data at some moment of that request.                    *)
NothingStale == \A r \in Readers : stage[r] = "done" => body[r] \in since[r]

(* The same, as long as no fact outside the stamp changed and the data did *)
(* not come back to a state it had left (a coverage switch off and on      *)
(* again within the TTL).                                                  *)
FreshUnlessRecurred == edited \/ recurred \/ NothingStale
=============================================================================
