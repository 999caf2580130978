---------------------------- MODULE OfficeProofs ----------------------------
(***************************************************************************)
(* Theorems about the parts of the office that MCOffice composes, each     *)
(* about its own specification: the panel's cache, the register of         *)
(* documents, the market figures, the visitor's own assumptions and the    *)
(* geocoder.  They hold for any number of requests, facts, codes, versions,*)
(* figures, searches and processes.                                        *)
(***************************************************************************)
EXTENDS Market, PanelCache, Documents, Feasibility, Geocode, TLAPS, FiniteSetTheorems, WellFoundedInduction

-----------------------------------------------------------------------------
(* The panel's cache: what it serves was the data during the request.      *)

History == gone \cup {facts}

(* The data is always in Bodies, whatever commits.                         *)
DataOK == facts \in Bodies /\ gone \subseteq Bodies /\ changes \in Nat

THEOREM DataTyped == PanelSpec => []DataOK
<1>. USE PanelAssumption
<1>1. PanelInit => DataOK
  BY DEF PanelInit, DataOK, Bodies, Values, Unchanged
<1>2. DataOK /\ [PanelNext]_panelVars => DataOK'
  <2>. SUFFICES ASSUME DataOK, [PanelNext]_panelVars
                PROVE  DataOK'
    OBVIOUS
  <2>1. CASE \E f \in Facts : Change(f)
    <3>1. PICK f \in Facts : Change(f)
      BY <2>1
    <3>2. PICK v \in (IF f \in Advancing THEN {changes + 1} ELSE {0, 1}) \ {facts[f]} :
            facts' = [facts EXCEPT ![f] = v]
      BY <3>1 DEF Change
    <3>3. v \in Values
      BY <3>1, <3>2 DEF Change, DataOK, Values
    <3>4. facts' \in Bodies
      BY <3>2, <3>3 DEF DataOK, Bodies
    <3>. QED
      BY <3>1, <3>4 DEF Change, DataOK
  <2>2. CASE UNCHANGED World
    BY <2>2 DEF World, DataOK
  <2>. QED
    BY <2>1, <2>2 DEF PanelNext, panelVars, World, Ask, Revalidated, Hit, Miss, Build, Fail,
       Deliver, Expire, Answer
<1>. QED
  BY <1>1, <1>2, PTL DEF PanelSpec

-----------------------------------------------------------------------------
(* What the cache, the requests and the clients hold has its shape.        *)
THEOREM PanelTyped == PanelSpec => []PanelTypeOK
<1>1. PanelInit => PanelTypeOK
  <2>1. Unchanged \in Bodies /\ Stamp(Unchanged) \in Stamps
    BY PanelAssumption DEF Unchanged, Bodies, Stamp, Stamps, Values, Facts
  <2>. QED
    BY <2>1 DEF PanelInit, PanelTypeOK
<1>2. PanelTypeOK /\ DataOK /\ DataOK' /\ [PanelNext]_panelVars => PanelTypeOK'
  <2>. SUFFICES ASSUME PanelTypeOK, DataOK, DataOK', [PanelNext]_panelVars
                PROVE  PanelTypeOK'
    OBVIOUS
  <2>0. facts' \in Bodies /\ Stamp(facts) \in Stamps
    BY DEF DataOK, Stamp, Stamps, Bodies, Facts
  <2>1. ASSUME NEW r \in Readers, NEW b \in Bodies, Answer(r, b), cache' \in {cache, Stored(key[r], b)}
        PROVE  PanelTypeOK'
    <3>1. DOMAIN cache' \subseteq Stamps /\ \A k \in DOMAIN cache' : cache'[k] \in Bodies
      BY <2>1 DEF PanelTypeOK, Stored
    <3>2. [key |-> key[r], body |-> b] \in Copies
      BY DEF PanelTypeOK, Copies
    <3>3. /\ stage' \in [Readers -> {"idle", "stamped", "missed", "built", "done"}]
          /\ key' \in [Readers -> Stamps] /\ body' \in [Readers -> Bodies]
          /\ held' \in [Readers -> SUBSET Copies]
      BY <2>1, <3>2 DEF PanelTypeOK, Answer
    <3>. QED
      BY <2>0, <3>1, <3>3 DEF PanelTypeOK
  <2>2. ASSUME NEW r \in Readers, Revalidated(r) \/ Hit(r) \/ Deliver(r)
        PROVE  PanelTypeOK'
    <3>1. \A copy \in held[r] : copy.body \in Bodies
      BY DEF PanelTypeOK, Copies
    <3>2. body[r] \in Bodies /\ \A k \in DOMAIN cache : cache[k] \in Bodies
      BY DEF PanelTypeOK
    <3>. QED
      BY <2>1, <2>2, <3>1, <3>2 DEF Revalidated, Hit, Deliver
  <2>3. ASSUME NEW r \in Readers, Ask(r) \/ Miss(r) \/ Build(r) \/ Fail(r)
        PROVE  PanelTypeOK'
    BY <2>0, <2>3 DEF Ask, Miss, Build, Fail, World, PanelTypeOK
  <2>4. ASSUME NEW k \in DOMAIN cache, Expire(k)
        PROVE  PanelTypeOK'
    BY <2>4 DEF Expire, World, PanelTypeOK
  <2>5. ASSUME NEW f \in Facts, Change(f)
        PROVE  PanelTypeOK'
    BY <2>0, <2>5 DEF Change, PanelTypeOK
  <2>6. CASE UNCHANGED panelVars
    BY <2>6 DEF panelVars, PanelTypeOK
  <2>. QED
    BY <2>2, <2>3, <2>4, <2>5, <2>6 DEF PanelNext
<1>. QED
  BY <1>1, <1>2, DataTyped, PTL DEF PanelSpec

-----------------------------------------------------------------------------
(* The invariant.  As long as no unstamped fact changed and no state came  *)
(* back, a stamp names one state of the data for ever, and a pair of a     *)
(* stamp and a body that was put together in some request is harmless:     *)
(* under the present stamp it is the present data; every request under way *)
(* that has the stamp has seen the data be that body.                      *)
Alike == \A b \in History, f \in Unstamped : b[f] = 0

Harmless(k, b) ==
  /\ \E g \in History : k = Stamp(g)
  /\ k = Stamp(facts) => b = facts
  /\ \A r \in Readers : Active(r) /\ key[r] = k => b \in since[r]

Kept ==
  /\ DOMAIN cache \subseteq Stamps
  /\ \A k \in DOMAIN cache : Harmless(k, cache[k])
  /\ \A r \in Readers : \A copy \in held[r] : Harmless(copy.key, copy.body)
  /\ \A r \in Readers : stage[r] = "built" => Harmless(key[r], body[r])

Requests ==
  /\ stage \in [Readers -> {"idle", "stamped", "missed", "built", "done"}]
  /\ DOMAIN key = Readers /\ DOMAIN body = Readers
  /\ DOMAIN held = Readers /\ DOMAIN since = Readers
  /\ \A r \in Readers : Active(r) => facts \in since[r] /\ \E g \in History : key[r] = Stamp(g)
  /\ \A r \in Readers : stage[r] = "done" => body[r] \in since[r]

Sound == facts \notin gone /\ Alike /\ Kept /\ Requests
PanelInv == edited \/ recurred \/ Sound

(* Without edits outside the stamp, the stamp tells any two states apart.  *)
LEMMA StampTells ==
  ASSUME NEW a \in Bodies, NEW b \in Bodies, Stamp(a) = Stamp(b),
         \A f \in Unstamped : a[f] = b[f]
  PROVE  a = b
<1>1. \A f \in Stamped : a[f] = Stamp(a)[f] /\ b[f] = Stamp(b)[f]
  BY DEF Stamp
<1>2. \A f \in Facts : a[f] = b[f]
  BY <1>1 DEF Facts
<1>. QED
  BY <1>2 DEF Bodies

(* A commit: no request sees the new state under an old stamp.             *)
LEMMA ChangeSound ==
  ASSUME DataOK, DataOK', Sound, NEW f \in Facts, Change(f), ~edited', ~recurred'
  PROVE  Sound'
<1>. USE DEF Sound
<1>1. f \notin Unstamped
  BY DEF Change
<1>2. PICK v : facts' = [facts EXCEPT ![f] = v]
  BY DEF Change
<1>3. gone' = History /\ facts' \notin gone' /\ History' = History \cup {facts'}
  BY DEF Change, History
<1>4. Alike'
  <2>1. \A u \in Unstamped : facts'[u] = 0
    BY <1>1, <1>2 DEF Alike, History, DataOK, Bodies, Facts
  <2>. QED
    BY <1>3, <2>1 DEF Alike
<1>5. \A g \in History : Stamp(g) # Stamp(facts')
  <2>. SUFFICES ASSUME NEW g \in History, Stamp(g) = Stamp(facts')
                PROVE  FALSE
    OBVIOUS
  <2>1. g \in Bodies /\ facts' \in Bodies /\ \A u \in Unstamped : g[u] = facts'[u]
    BY <1>3, <1>4 DEF Alike, DataOK, History
  <2>2. g = facts'
    BY <2>1, StampTells
  <2>. QED
    BY <1>3, <2>2
<1>6. /\ UNCHANGED <<cache, stage, key, body, held>>
      /\ since' = [r \in Readers |-> since[r] \cup {facts'}]
  BY DEF Change
<1>7. ASSUME NEW k, NEW b, Harmless(k, b)
      PROVE  Harmless(k, b)'
  BY <1>3, <1>5, <1>6, <1>7 DEF Harmless, Active
<1>8. Kept'
  BY <1>6, <1>7 DEF Kept
<1>9. Requests'
  BY <1>3, <1>6 DEF Requests, Active
<1>. QED
  BY <1>3, <1>4, <1>8, <1>9

(* What a request answers with was the data while it ran.                  *)
LEMMA AnswerSound ==
  ASSUME Sound, NEW r \in Readers, NEW b, Active(r), Answer(r, b), Harmless(key[r], b),
         DOMAIN cache' \subseteq Stamps,
         \A k \in DOMAIN cache' : Harmless(k, cache'[k])
  PROVE  Sound'
<1>. USE DEF Sound
<1>1. /\ UNCHANGED <<facts, gone, key, since>>
      /\ stage' = [stage EXCEPT ![r] = "done"]
      /\ body' = [body EXCEPT ![r] = b]
      /\ held' = [held EXCEPT ![r] = {[key |-> key[r], body |-> b]}]
  BY DEF Answer, World
<1>2. \A q \in Readers : Active(q)' => Active(q) /\ q # r
  BY <1>1 DEF Requests, Active
<1>3. ASSUME NEW k, NEW c, Harmless(k, c)
      PROVE  Harmless(k, c)'
  BY <1>1, <1>2, <1>3 DEF Harmless, History, Stamp
<1>4. Kept'
  <2>1. ASSUME NEW q \in Readers, NEW copy \in held'[q]
        PROVE  Harmless(copy.key, copy.body)'
    <3>1. CASE q = r
      BY <1>1, <1>3, <2>1, <3>1 DEF Requests
    <3>2. CASE q # r
      BY <1>1, <1>3, <2>1, <3>2 DEF Requests, Kept
    <3>. QED
      BY <3>1, <3>2
  <2>2. ASSUME NEW q \in Readers, stage'[q] = "built"
        PROVE  Harmless(key[q], body[q])'
    <3>1. q # r /\ stage[q] = "built"
      BY <1>1, <2>2 DEF Requests
    <3>2. key'[q] = key[q] /\ body'[q] = body[q]
      BY <1>1, <3>1 DEF Requests
    <3>. QED
      BY <1>3, <3>1, <3>2 DEF Kept
  <2>3. ASSUME NEW k \in DOMAIN cache'
        PROVE  Harmless(k, cache[k])'
    BY <1>3
  <2>. QED
    BY <2>1, <2>2, <2>3 DEF Kept
<1>5. Requests'
  <2>1. b \in since[r]
    BY DEF Harmless
  <2>. QED
    BY <1>1, <1>2, <2>1 DEF Requests, History
<1>6. (facts \notin gone /\ Alike)'
  BY <1>1 DEF Alike, History
<1>. QED
  BY <1>4, <1>5, <1>6

(* The other steps of a request and of the cache.                          *)
LEMMA StepSound ==
  ASSUME DataOK, Sound,
         \/ \E r \in Readers : Ask(r) \/ Miss(r) \/ Build(r) \/ Fail(r)
         \/ \E k \in DOMAIN cache : Expire(k)
         \/ UNCHANGED panelVars
  PROVE  Sound'
<1>. USE DEF Sound
<1>1. UNCHANGED <<facts, gone>> /\ History' = History
  BY DEF Ask, Miss, Build, Fail, Expire, panelVars, World, History
<1>2. (facts \notin gone /\ Alike)'
  BY <1>1 DEF Alike
<1>3. ASSUME NEW r \in Readers, Ask(r)
      PROVE  Kept' /\ Requests'
  <2>1. /\ stage' = [stage EXCEPT ![r] = "stamped"]
        /\ key' = [key EXCEPT ![r] = Stamp(facts)]
        /\ since' = [since EXCEPT ![r] = {facts}]
        /\ UNCHANGED <<cache, body>>
    BY <1>3 DEF Ask
  <2>2. PICK copy \in {held[r], {}} : held' = [held EXCEPT ![r] = copy]
    BY <1>3 DEF Ask
  <2>3. ASSUME NEW k, NEW b, Harmless(k, b)
        PROVE  Harmless(k, b)'
    <3>1. (\E g \in History : k = Stamp(g))' /\ (k = Stamp(facts) => b = facts)'
      BY <1>1, <2>3 DEF Harmless
    <3>2. ASSUME NEW q \in Readers, Active(q)', key'[q] = k
          PROVE  b \in since'[q]
      <4>1. CASE q = r
        BY <2>1, <2>3, <3>2, <4>1 DEF Harmless, Requests
      <4>2. CASE q # r
        BY <2>1, <2>3, <3>2, <4>2 DEF Harmless, Requests, Active
      <4>. QED
        BY <4>1, <4>2
    <3>. QED
      BY <3>1, <3>2 DEF Harmless
  <2>4. Kept'
    <3>1. \A q \in Readers : held'[q] \subseteq held[q]
      BY <2>2 DEF Requests
    <3>2. \A q \in Readers : stage'[q] = "built" =>
            stage[q] = "built" /\ key'[q] = key[q] /\ body'[q] = body[q]
      BY <2>1 DEF Requests
    <3>. QED
      BY <2>1, <2>3, <3>1, <3>2 DEF Kept
  <2>5. Requests'
    <3>1. facts \in History
      BY DEF History
    <3>. QED
      BY <1>1, <2>1, <2>2, <3>1 DEF Requests, Active
  <2>. QED
    BY <2>4, <2>5
<1>4. ASSUME NEW r \in Readers, Miss(r) \/ Fail(r)
      PROVE  Kept' /\ Requests'
  <2>1. /\ stage' \in {[stage EXCEPT ![r] = "missed"], [stage EXCEPT ![r] = "idle"]}
        /\ UNCHANGED <<cache, key, body, held, since>>
        /\ \A q \in Readers : Active(q)' => Active(q)
    BY <1>4 DEF Miss, Fail, Requests, Active
  <2>2. ASSUME NEW k, NEW b, Harmless(k, b)
        PROVE  Harmless(k, b)'
    BY <1>1, <2>1, <2>2 DEF Harmless
  <2>3. \A q \in Readers : stage'[q] \in {"built", "done"} => stage'[q] = stage[q]
    BY <2>1 DEF Requests
  <2>. QED
    BY <1>1, <2>1, <2>2, <2>3 DEF Kept, Requests
<1>5. ASSUME NEW r \in Readers, Build(r)
      PROVE  Kept' /\ Requests'
  <2>1. /\ stage[r] = "missed" /\ stage' = [stage EXCEPT ![r] = "built"]
        /\ body' = [body EXCEPT ![r] = facts]
        /\ UNCHANGED <<cache, key, held, since>>
        /\ \A q \in Readers : Active(q)' <=> Active(q)
    BY <1>5 DEF Build, Requests, Active
  <2>2. ASSUME NEW k, NEW b, Harmless(k, b)
        PROVE  Harmless(k, b)'
    BY <1>1, <2>1, <2>2 DEF Harmless
  <2>3. Harmless(key[r], facts)
    <3>1. Active(r)
      BY <2>1 DEF Active
    <3>. QED
      BY <3>1 DEF Requests, Harmless
  <2>4. \A q \in Readers \ {r} : stage'[q] = stage[q] /\ body'[q] = body[q]
    BY <2>1 DEF Requests
  <2>5. stage'[r] = "built" /\ body'[r] = facts
    BY <2>1 DEF Requests
  <2>6. Kept'
    BY <2>1, <2>2, <2>3, <2>4, <2>5 DEF Kept
  <2>7. Requests'
    BY <1>1, <2>1, <2>4, <2>5 DEF Requests
  <2>. QED
    BY <2>6, <2>7
<1>6. ASSUME \/ \E k \in DOMAIN cache : Expire(k)
             \/ UNCHANGED panelVars
      PROVE  Kept' /\ Requests'
  <2>1. /\ UNCHANGED <<stage, key, body, held, since>>
        /\ DOMAIN cache' \subseteq DOMAIN cache
        /\ \A k \in DOMAIN cache' : cache'[k] = cache[k]
    BY <1>6 DEF Expire, panelVars
  <2>2. ASSUME NEW k, NEW b, Harmless(k, b)
        PROVE  Harmless(k, b)'
    BY <1>1, <2>1, <2>2 DEF Harmless, Active
  <2>. QED
    BY <1>1, <2>1, <2>2 DEF Kept, Requests, Active
<1>. QED
  BY <1>2, <1>3, <1>4, <1>5, <1>6

(* What a client shows after a request was the data at some moment of that *)
(* request (panel_cache.py:9), as long as no fact outside the stamp        *)
(* changed and no state came back.                                         *)
THEOREM NeverStale == PanelSpec => []FreshUnlessRecurred
<1>1. PanelInit => PanelInv
  <2>. SUFFICES ASSUME PanelInit
                PROVE  Sound
    BY DEF PanelInv
  <2>. QED
    BY DEF PanelInit, Sound, Alike, Kept, Requests, History, Active, Unchanged, Facts
<1>2. DataOK /\ DataOK' /\ PanelInv /\ [PanelNext]_panelVars => PanelInv'
  <2>. SUFFICES ASSUME DataOK, DataOK', PanelInv, [PanelNext]_panelVars, ~edited', ~recurred'
                PROVE  Sound'
    BY DEF PanelInv
  <2>1. ~edited /\ ~recurred
    <3>1. CASE \E f \in Facts : Change(f)
      <4>1. PICK f \in Facts : Change(f)
        BY <3>1
      <4>2. edited' = (edited \/ f \in Unstamped) /\ recurred' = (recurred \/ facts' \in gone')
        BY <4>1 DEF Change
      <4>. QED
        BY <4>2, Zenon
    <3>2. CASE UNCHANGED World
      BY <3>2 DEF World
    <3>. QED
      BY <3>1, <3>2 DEF PanelNext, panelVars, World, Ask, Revalidated, Hit, Miss, Build, Fail,
         Deliver, Expire, Answer
  <2>2. Sound
    BY <2>1 DEF PanelInv
  <2>3. ASSUME NEW r \in Readers, Revalidated(r)
        PROVE  Sound'
    <3>1. PICK copy \in held[r] : copy.key = key[r] /\ Answer(r, copy.body)
      BY <2>3 DEF Revalidated
    <3>2. Active(r) /\ cache' = cache
      BY <2>3 DEF Revalidated, Active
    <3>3. Harmless(key[r], copy.body)
      BY <2>2, <3>1 DEF Sound, Kept
    <3>. QED
      BY <2>2, <3>1, <3>2, <3>3, AnswerSound DEF Sound, Kept
  <2>4. ASSUME NEW r \in Readers, Hit(r)
        PROVE  Sound'
    <3>1. Active(r) /\ cache' = cache /\ key[r] \in DOMAIN cache /\ Answer(r, cache[key[r]])
      BY <2>4 DEF Hit, Active
    <3>2. Harmless(key[r], cache[key[r]])
      BY <2>2, <3>1 DEF Sound, Kept
    <3>. QED
      BY <2>2, <3>1, <3>2, AnswerSound DEF Sound, Kept
  <2>5. ASSUME NEW r \in Readers, Deliver(r)
        PROVE  Sound'
    <3>1. Active(r) /\ stage[r] = "built" /\ Answer(r, body[r])
      BY <2>5 DEF Deliver, Active
    <3>2. Harmless(key[r], body[r])
      BY <2>2, <3>1 DEF Sound, Kept
    <3>3. cache' \in {cache, Stored(key[r], body[r])}
      BY <2>5 DEF Deliver
    <3>4. key[r] \in Stamps
      <4>1. PICK g \in History : key[r] = Stamp(g)
        BY <2>2, <3>1 DEF Sound, Requests
      <4>2. g \in Bodies
        BY DEF History, DataOK
      <4>. QED
        BY <4>1, <4>2 DEF Stamp, Stamps, Bodies, Facts
    <3>5. /\ DOMAIN cache' \subseteq Stamps
          /\ \A k \in DOMAIN cache' : Harmless(k, cache'[k])
      <4>1. DOMAIN cache \subseteq Stamps /\ \A k \in DOMAIN cache : Harmless(k, cache[k])
        BY <2>2 DEF Sound, Kept
      <4>2. CASE cache' = cache
        BY <4>1, <4>2
      <4>3. CASE cache' = Stored(key[r], body[r])
        <5>1. DOMAIN cache' = DOMAIN cache \cup {key[r]}
          BY <4>3 DEF Stored
        <5>2. \A k \in DOMAIN cache' : cache'[k] = IF k = key[r] THEN body[r] ELSE cache[k]
          BY <4>3, <5>1 DEF Stored
        <5>. QED
          BY <3>2, <3>4, <4>1, <5>1, <5>2
      <4>. QED
        BY <3>3, <4>2, <4>3
    <3>. QED
      BY <2>2, <3>1, <3>2, <3>5, AnswerSound
  <2>6. ASSUME NEW f \in Facts, Change(f)
        PROVE  Sound'
    BY <2>2, <2>6, ChangeSound
  <2>. QED
    BY <2>2, <2>3, <2>4, <2>5, <2>6, StepSound DEF PanelNext
<1>3. PanelInv => FreshUnlessRecurred
  BY DEF PanelInv, Sound, Requests, FreshUnlessRecurred, NothingStale
<1>. QED
  BY <1>1, <1>2, <1>3, DataTyped, PTL DEF PanelSpec

-----------------------------------------------------------------------------
(* The register of documents: what it keeps.                               *)

(* Rows get their ids in order.                                            *)
NoGap == \A d \in Registered, e \in Rows : e < d => e \in Registered

(* What a request has read stays true enough until it writes: the version  *)
(* it switches on is drawn and current, or is known to be replaced; the    *)
(* version it edits or replaces is there.                                  *)
AsRead ==
  \A r \in Editors :
    /\ editor[r].at = "patching" => editor[r].doc # 0
    /\ editor[r].at = "switching" => editor[r].doc \in drawn \cap (newest \cup outlived)

Target(r) == IF editor[r].doc = 0 THEN 0 ELSE lineage[editor[r].doc]

(* A short code that a request has checked and nobody else has, names no   *)
(* other document.                                                         *)
CodeStillFree ==
  \A r \in Editors :
    editor[r].at \in {"registering", "patching"} /\ editor[r].code \notin clashed \cup {NoCode}
      => \A d \in newest : code[d] = editor[r].code => lineage[d] = Target(r)

RegisterInv == RegisterTypeOK /\ NoGap /\ AsRead /\ CodeStillFree /\ RegisterKept

(* A step that leaves the rows alone and moves one request.                *)
LEMMA AskKeeps ==
  ASSUME RegisterInv, NEW r \in Editors,
         NEW at \in {"idle", "registering", "patching", "switching"},
         NEW d \in Registered \cup {0}, NEW c \in Codes \cup {NoCode}, Moves(r, at, d, c),
         UNCHANGED <<lineage, number, newest, live, drawn, code, clashed, outlived>>,
         at = "patching" => d # 0,
         at = "switching" => d \in drawn \cap newest,
         at \in {"registering", "patching"} /\ c # NoCode =>
           \A e \in newest : code[e] = c => lineage[e] = IF d = 0 THEN 0 ELSE lineage[d]
  PROVE  RegisterInv'
<1>1. editor' = [editor EXCEPT ![r] = [at |-> at, doc |-> d, code |-> c]]
  BY DEF Moves
<1>2. editor \in [Editors -> [at : {"idle", "registering", "patching", "switching"},
                              doc : Registered \cup {0}, code : Codes \cup {NoCode}]]
  BY DEF RegisterInv, RegisterTypeOK
<1>3. /\ editor'[r] = [at |-> at, doc |-> d, code |-> c]
      /\ \A q \in Editors \ {r} : editor'[q] = editor[q]
  BY <1>1, <1>2
<1>4. Registered' = Registered
  BY DEF Registered
<1>5. RegisterTypeOK'
  BY <1>1, <1>2, <1>4 DEF RegisterInv, RegisterTypeOK
<1>6. NoGap'
  BY <1>4 DEF RegisterInv, NoGap
<1>7. AsRead'
  <2>1. editor'[r].at = at /\ editor'[r].doc = d
    BY <1>3
  <2>. QED
    BY <1>3, <2>1 DEF RegisterInv, AsRead
<1>8. CodeStillFree'
  <2>1. editor'[r].at = at /\ editor'[r].doc = d /\ editor'[r].code = c
    BY <1>3
  <2>2. \A q \in Editors \ {r} : Target(q)' = Target(q)
    BY <1>3 DEF Target
  <2>3. Target(r)' = IF d = 0 THEN 0 ELSE lineage[d]
    BY <2>1 DEF Target
  <2>. QED
    BY <1>3, <2>1, <2>2, <2>3 DEF RegisterInv, CodeStillFree
<1>9. RegisterKept'
  BY <1>4 DEF RegisterInv, RegisterKept, LastIsCurrent, LiveIsCurrent, CodeNamesOne
<1>. QED
  BY <1>5, <1>6, <1>7, <1>8, <1>9 DEF RegisterInv

(* A new version: the unique index makes the replaced version the current  *)
(* one of its document, so the new one is its document's last.             *)
LEMMA RegisterKeeps ==
  ASSUME RegisterInv, NEW r \in Editors, NEW n \in Rows, Register(r, n)
  PROVE  RegisterInv'
<1>. DEFINE d == editor[r].doc
            c == editor[r].code
            l == IF d = 0 THEN n ELSE lineage[d]
            m == IF d = 0 THEN 1 ELSE number[d] + 1
<1>. USE RegisterBounds
<1>1. /\ lineage' = [lineage EXCEPT ![n] = l]
      /\ number' = [number EXCEPT ![n] = m]
      /\ newest' = (newest \ {d}) \cup {n} /\ live' = live \ {d}
      /\ drawn' = IF d \in drawn THEN drawn \cup {n} ELSE drawn
      /\ code' = [code EXCEPT ![n] = c]
      /\ clashed' = clashed \cup (Checked(r) \cap {c})
      /\ outlived' = outlived \cup {e \in {d} :
           \E q \in Editors : editor[q].at = "switching" /\ editor[q].doc = e}
      /\ editor' = [editor EXCEPT ![r] = [at |-> "idle", doc |-> 0, code |-> NoCode]]
      /\ editor[r].at = "registering" /\ lineage[n] = 0 /\ \A e \in Rows : e < n => lineage[e] # 0
  BY DEF Register, Replace, Moves
<1>2. /\ lineage \in [Rows -> Rows \cup {0}] /\ number \in [Rows -> 0..MaxRows]
      /\ newest \subseteq Registered /\ live \subseteq drawn /\ drawn \subseteq Registered
      /\ code \in [Rows -> Codes \cup {NoCode}]
      /\ editor \in [Editors -> [at : {"idle", "registering", "patching", "switching"},
                                 doc : Registered \cup {0}, code : Codes \cup {NoCode}]]
      /\ clashed \subseteq Codes /\ outlived \subseteq Rows
      /\ \A e \in Registered : lineage[e] \in Registered /\ number[e] \in 1..e
  BY DEF RegisterInv, RegisterTypeOK
<1>3. d \in Registered \cup {0} /\ c \in Codes \cup {NoCode} /\ n \notin Registered
  BY <1>1, <1>2 DEF Registered
<1>4. Registered' = Registered \cup {n} /\ l \in Registered \cup {n} /\ l # 0
  BY SMTT(30), <1>1, <1>2, <1>3 DEF Registered, Rows
<1>5. \A e \in Registered : e # n /\ e < n /\ e \in Rows /\ lineage'[e] = lineage[e]
                              /\ number'[e] = number[e] /\ code'[e] = code[e]
  <2>1. \A e \in Registered : e \in Rows /\ e # n
    BY <1>3 DEF Registered
  <2>2. \A e \in Registered : ~(n < e)
    BY <1>3 DEF RegisterInv, NoGap
  <2>. QED
    BY <1>1, <1>2, <2>1, <2>2 DEF Rows
<1>6. lineage'[n] = l /\ number'[n] = m /\ code'[n] = c
  BY <1>1, <1>2
<1>7. m \in 1..n
  BY SMTT(30), <1>2, <1>3, <1>5 DEF Rows
<1>8. d # 0 => d \in newest /\ \A e \in newest \ {d} : lineage[e] # lineage[d]
  <2>1. d # 0 => \A e \in newest \ {d} : lineage[e] # lineage[d]
    BY DEF Register, IndexFree
  <2>2. d # 0 => \E e \in newest : lineage[e] = lineage[d]
    BY <1>3 DEF RegisterInv, RegisterKept, LastIsCurrent
  <2>. QED
    BY <2>1, <2>2
<1>9. RegisterTypeOK'
  <2>1. lineage' \in [Rows -> Rows \cup {0}] /\ number' \in [Rows -> 0..MaxRows]
    <3>1. l \in Rows
      BY <1>4 DEF Registered
    <3>2. m \in 0..MaxRows
      BY <1>7 DEF Rows
    <3>. HIDE DEF l, m
    <3>. QED
      BY <1>1, <1>2, <3>1, <3>2
  <2>2. newest' \subseteq Registered' /\ live' \subseteq drawn' /\ drawn' \subseteq Registered'
    BY <1>1, <1>2, <1>4
  <2>3. code' \in [Rows -> Codes \cup {NoCode}]
    BY <1>1, <1>2, <1>3
  <2>4. editor' \in [Editors -> [at : {"idle", "registering", "patching", "switching"},
                                 doc : Registered' \cup {0}, code : Codes \cup {NoCode}]]
    BY <1>1, <1>2, <1>4
  <2>5. clashed' \subseteq Codes
    BY <1>1, <1>2 DEF Checked
  <2>6. outlived' \subseteq Rows
    <3>1. \A q \in Editors : editor[q].at = "switching" => editor[q].doc \in Rows
      BY <1>2 DEF RegisterInv, AsRead, Registered
    <3>. QED
      BY <1>1, <1>2, <3>1
  <2>7. \A e \in Registered' : lineage'[e] \in Registered' /\ number'[e] \in 1..e
    BY <1>2, <1>4, <1>5, <1>6, <1>7
  <2>. QED
    BY <2>1, <2>2, <2>3, <2>4, <2>5, <2>6, <2>7 DEF RegisterTypeOK
<1>10. NoGap'
  BY <1>1, <1>4, <1>5 DEF RegisterInv, NoGap, Registered
<1>11. \A q \in Editors : /\ q # r => editor'[q] = editor[q]
                          /\ q = r => editor'[q].at = "idle"
  BY <1>1, <1>2
<1>12. AsRead'
  <2>1. ASSUME NEW q \in Editors, q # r, editor[q].at = "switching"
        PROVE  editor[q].doc \in drawn' \cap (newest' \cup outlived')
    BY <1>1, <2>1 DEF RegisterInv, AsRead
  <2>. QED
    BY <1>11, <2>1 DEF RegisterInv, AsRead
<1>13. LastIsCurrent'
  <2>1. \A e \in newest : e \in Registered /\ \A k \in Registered \ {e} :
          lineage[k] = lineage[e] => k \notin newest /\ number[k] < number[e]
    BY <1>2 DEF RegisterInv, RegisterKept, LastIsCurrent
  <2>2. ASSUME NEW e \in Registered'
        PROVE  \E k \in newest' : /\ lineage'[k] = lineage'[e]
                                  /\ \A j \in Registered' \ {k} : lineage'[j] = lineage'[k] =>
                                       j \notin newest' /\ number'[j] < number'[k]
    <3>1. CASE lineage'[e] = l
      <4>1. \A j \in Registered : lineage[j] = l => d # 0 /\ lineage[j] = lineage[d]
        BY <1>2, <1>3
      <4>2. \A j \in Registered : lineage[j] = l => j \notin newest' /\ number[j] < m
        <5>1. ASSUME NEW j \in Registered, lineage[j] = l
              PROVE  j \notin newest' /\ number[j] < m
          <6>1. d \in newest /\ d # 0 /\ d \in Registered /\ lineage[j] = lineage[d]
            BY <1>3, <1>8, <4>1, <5>1
          <6>2. j # d => j \notin newest /\ number[j] < number[d]
            BY <2>1, <6>1
          <6>3. number[j] \in Nat /\ number[d] \in Nat
            BY <1>2, <6>1
          <6>. QED
            BY <1>1, <1>5, <6>1, <6>2, <6>3
        <5>. QED
          BY <5>1
      <4>3. \A j \in Registered' \ {n} : lineage'[j] = l => j \notin newest' /\ number'[j] < m
        BY <1>4, <1>5, <4>2
      <4>. QED
        BY <1>1, <1>6, <3>1, <4>3
    <3>2. CASE lineage'[e] # l
      <4>1. e \in Registered /\ lineage'[e] = lineage[e]
        BY <1>4, <1>5, <1>6, <3>2
      <4>2. PICK k \in newest : lineage[k] = lineage[e]
        BY <4>1 DEF RegisterInv, RegisterKept, LastIsCurrent
      <4>3. k \in newest' /\ k \in Registered /\ k # n /\ lineage'[k] = lineage[k]
        BY <1>1, <1>2, <1>5, <3>2, <4>1, <4>2
      <4>4. ASSUME NEW j \in Registered' \ {k}, lineage'[j] = lineage'[k]
            PROVE  j \notin newest' /\ number'[j] < number'[k]
        <5>1. j \in Registered /\ lineage[j] = lineage[k] /\ j # n
          BY <1>4, <1>5, <1>6, <3>2, <4>1, <4>2, <4>3, <4>4
        <5>2. j \notin newest /\ number[j] < number[k]
          BY <2>1, <4>3, <4>4, <5>1
        <5>. QED
          BY <1>1, <1>5, <4>3, <5>1, <5>2
      <4>. QED
        BY <4>1, <4>2, <4>3, <4>4
    <3>. QED
      BY <3>1, <3>2
  <2>. QED
    BY <2>2 DEF LastIsCurrent
<1>14. LiveIsCurrent'
  BY <1>1 DEF RegisterInv, RegisterKept, LiveIsCurrent
<1>15. c \notin clashed' \cup {NoCode} =>
         /\ \A e \in newest : code[e] = c => lineage[e] = l
         /\ \A q \in Editors \ {r} : editor[q].at \in {"registering", "patching"} =>
              editor[q].code # c
  <2>. SUFFICES ASSUME c \notin clashed' \cup {NoCode}
                PROVE  /\ \A e \in newest : code[e] = c => lineage[e] = l
                       /\ \A q \in Editors \ {r} :
                            editor[q].at \in {"registering", "patching"} => editor[q].code # c
    OBVIOUS
  <2>1. \A e \in newest : code[e] = c => lineage[e] = Target(r)
    BY <1>1 DEF RegisterInv, CodeStillFree
  <2>2. \A e \in newest : lineage[e] # 0
    BY <1>2 DEF Registered
  <2>3. c \in Codes /\ c \notin Checked(r)
    BY <1>1, <1>3
  <2>. QED
    BY <2>1, <2>2, <2>3 DEF Target, Checked
<1>16. CodeNamesOne'
  <2>. SUFFICES ASSUME NEW e \in newest', NEW f \in newest', code'[e] = code'[f],
                       code'[e] \notin clashed' \cup {NoCode}
                PROVE  lineage'[e] = lineage'[f]
    BY DEF CodeNamesOne
  <2>1. \A g \in newest' \ {n} : g \in newest /\ g \in Registered
    BY <1>1, <1>2
  <2>2. clashed \subseteq clashed'
    BY <1>1
  <2>3. CASE e # n /\ f # n
    BY <1>5, <2>1, <2>2, <2>3 DEF RegisterInv, RegisterKept, CodeNamesOne
  <2>4. CASE e = n
    BY <1>5, <1>6, <1>15, <2>1, <2>4
  <2>5. CASE f = n
    BY <1>5, <1>6, <1>15, <2>1, <2>5
  <2>. QED
    BY <2>3, <2>4, <2>5
<1>17. CodeStillFree'
  <2>. SUFFICES ASSUME NEW q \in Editors, editor'[q].at \in {"registering", "patching"},
                       editor'[q].code \notin clashed' \cup {NoCode},
                       NEW e \in newest', code'[e] = editor'[q].code
                PROVE  lineage'[e] = Target(q)'
    BY DEF CodeStillFree
  <2>1. q # r /\ editor'[q] = editor[q]
    BY <1>11
  <2>2. Target(q)' = Target(q)
    <3>1. editor[q].doc \in Registered \cup {0}
      BY <1>2
    <3>. QED
      BY <1>5, <2>1, <3>1 DEF Target
  <2>3. CASE e # n
    <3>1. e \in newest /\ e \in Registered
      BY <1>1, <1>2, <2>3
    <3>2. editor[q].code \notin clashed \cup {NoCode}
      BY <1>1, <2>1
    <3>. QED
      BY <1>5, <2>1, <2>2, <3>1, <3>2 DEF RegisterInv, CodeStillFree
  <2>4. CASE e = n
    <3>1. editor[q].code = c
      BY <1>6, <2>1, <2>4
    <3>. QED
      BY <1>15, <2>1, <3>1
  <2>. QED
    BY <2>3, <2>4
<1>. QED
  BY <1>9, <1>10, <1>12, <1>13, <1>14, <1>16, <1>17 DEF RegisterInv, RegisterKept

(* A short code written to a version.                                      *)
LEMMA PatchKeeps ==
  ASSUME RegisterInv, NEW r \in Editors, Patch(r)
  PROVE  RegisterInv'
<1>. DEFINE d == editor[r].doc
            c == editor[r].code
<1>1. /\ code' = [code EXCEPT ![d] = c]
      /\ clashed' = clashed \cup (Checked(r) \cap {c})
      /\ editor' = [editor EXCEPT ![r] = [at |-> "idle", doc |-> 0, code |-> NoCode]]
      /\ UNCHANGED <<lineage, number, newest, live, drawn, outlived>>
      /\ editor[r].at = "patching"
  BY DEF Patch, Moves
<1>2. /\ newest \subseteq Registered /\ code \in [Rows -> Codes \cup {NoCode}]
      /\ editor \in [Editors -> [at : {"idle", "registering", "patching", "switching"},
                                 doc : Registered \cup {0}, code : Codes \cup {NoCode}]]
      /\ clashed \subseteq Codes
  BY DEF RegisterInv, RegisterTypeOK
<1>3. d \in Registered /\ d \in Rows /\ d # 0 /\ c \in Codes \cup {NoCode}
  BY <1>1, <1>2 DEF RegisterInv, AsRead, Registered
<1>4. Registered' = Registered
  BY <1>1 DEF Registered
<1>5. code'[d] = c /\ \A e \in Rows \ {d} : code'[e] = code[e]
  BY <1>1, <1>2, <1>3
<1>6. \A q \in Editors : /\ q # r => editor'[q] = editor[q]
                         /\ q = r => editor'[q].at = "idle"
  BY <1>1, <1>2
<1>7. RegisterTypeOK'
  BY <1>1, <1>2, <1>3, <1>4 DEF RegisterInv, RegisterTypeOK, Checked
<1>8. NoGap' /\ LastIsCurrent' /\ LiveIsCurrent'
  BY <1>1, <1>4 DEF RegisterInv, NoGap, RegisterKept, LastIsCurrent, LiveIsCurrent
<1>9. AsRead'
  BY <1>1, <1>6 DEF RegisterInv, AsRead
<1>10. c \notin clashed' \cup {NoCode} =>
         /\ \A e \in newest : code[e] = c => lineage[e] = lineage[d]
         /\ \A q \in Editors \ {r} : editor[q].at \in {"registering", "patching"} =>
              editor[q].code # c
  <2>. SUFFICES ASSUME c \notin clashed' \cup {NoCode}
                PROVE  /\ \A e \in newest : code[e] = c => lineage[e] = lineage[d]
                       /\ \A q \in Editors \ {r} :
                            editor[q].at \in {"registering", "patching"} => editor[q].code # c
    OBVIOUS
  <2>1. \A e \in newest : code[e] = c => lineage[e] = Target(r)
    BY <1>1 DEF RegisterInv, CodeStillFree
  <2>2. c \in Codes /\ c \notin Checked(r)
    BY <1>1, <1>3
  <2>. QED
    BY <1>3, <2>1, <2>2 DEF Target, Checked
<1>11. CodeNamesOne'
  <2>. SUFFICES ASSUME NEW e \in newest, NEW f \in newest, code'[e] = code'[f],
                       code'[e] \notin clashed' \cup {NoCode}
                PROVE  lineage[e] = lineage[f]
    BY <1>1 DEF CodeNamesOne
  <2>1. e \in Rows /\ f \in Rows /\ clashed \subseteq clashed'
    BY <1>1, <1>2 DEF Registered
  <2>2. CASE e # d /\ f # d
    BY <1>5, <2>1, <2>2 DEF RegisterInv, RegisterKept, CodeNamesOne
  <2>3. CASE e = d
    BY <1>5, <1>10, <2>1, <2>3
  <2>4. CASE f = d
    BY <1>5, <1>10, <2>1, <2>4
  <2>. QED
    BY <2>2, <2>3, <2>4
<1>12. CodeStillFree'
  <2>. SUFFICES ASSUME NEW q \in Editors, editor'[q].at \in {"registering", "patching"},
                       editor'[q].code \notin clashed' \cup {NoCode},
                       NEW e \in newest, code'[e] = editor'[q].code
                PROVE  lineage[e] = Target(q)'
    BY <1>1 DEF CodeStillFree
  <2>1. q # r /\ editor'[q] = editor[q] /\ Target(q)' = Target(q)
    BY <1>1, <1>6 DEF Target
  <2>2. e \in Rows /\ editor[q].code \notin clashed \cup {NoCode}
    BY <1>1, <1>2, <2>1 DEF Registered
  <2>3. CASE e # d
    BY <1>5, <2>1, <2>2, <2>3 DEF RegisterInv, CodeStillFree
  <2>4. CASE e = d
    BY <1>5, <1>10, <2>1, <2>4
  <2>. QED
    BY <2>3, <2>4
<1>. QED
  BY <1>7, <1>8, <1>9, <1>11, <1>12 DEF RegisterInv, RegisterKept

(* The coverage switches and a publish that draws a coverage.              *)
LEMMA CoverageKeeps ==
  ASSUME RegisterInv,
         \/ \E r \in Editors : SwitchOn(r)
         \/ \E d \in Rows : SwitchOff(d) \/ DrawCoverage(d)
  PROVE  RegisterInv'
<1>1. Registered' = Registered
  BY DEF SwitchOn, SwitchOff, DrawCoverage, Registered
<1>2. ASSUME NEW r \in Editors, SwitchOn(r)
      PROVE  RegisterInv'
  <2>1. /\ live' = live \cup {editor[r].doc}
        /\ editor' = [editor EXCEPT ![r] = [at |-> "idle", doc |-> 0, code |-> NoCode]]
        /\ UNCHANGED <<lineage, number, newest, drawn, code, clashed, outlived>>
    BY <1>2 DEF SwitchOn, Moves
  <2>2. editor[r].doc \in drawn \cap (newest \cup outlived)
    BY <1>2 DEF SwitchOn, RegisterInv, AsRead
  <2>3. editor \in [Editors -> [at : {"idle", "registering", "patching", "switching"},
                                doc : Registered \cup {0}, code : Codes \cup {NoCode}]]
    BY DEF RegisterInv, RegisterTypeOK
  <2>4. \A q \in Editors : /\ q # r => editor'[q] = editor[q]
                           /\ q = r => editor'[q].at = "idle"
    BY <2>1, <2>3
  <2>5. RegisterTypeOK'
    BY <1>1, <2>1, <2>2, <2>3 DEF RegisterInv, RegisterTypeOK
  <2>6. NoGap' /\ RegisterKept'
    BY <1>1, <2>1, <2>2
       DEF RegisterInv, NoGap, RegisterKept, LastIsCurrent, LiveIsCurrent, CodeNamesOne
  <2>7. AsRead' /\ CodeStillFree'
    <3>1. \A q \in Editors : Target(q)' = Target(q) \/ editor'[q].at = "idle"
      BY <2>1, <2>4 DEF Target
    <3>. QED
      BY <2>1, <2>4, <3>1 DEF RegisterInv, AsRead, CodeStillFree
  <2>. QED
    BY <2>5, <2>6, <2>7 DEF RegisterInv
<1>3. ASSUME NEW d \in Rows, SwitchOff(d) \/ DrawCoverage(d)
      PROVE  RegisterInv'
  <2>1. /\ live' \subseteq live /\ drawn \subseteq drawn' /\ drawn' \subseteq Registered
        /\ UNCHANGED <<lineage, number, newest, code, editor, clashed, outlived>>
    BY <1>3 DEF SwitchOff, DrawCoverage, RegisterInv, RegisterTypeOK
  <2>2. RegisterTypeOK' /\ NoGap' /\ RegisterKept'
    BY <1>1, <2>1 DEF RegisterInv, RegisterTypeOK, NoGap, RegisterKept, LastIsCurrent, LiveIsCurrent,
       CodeNamesOne
  <2>3. AsRead' /\ CodeStillFree'
    BY <2>1 DEF RegisterInv, AsRead, CodeStillFree, Target
  <2>. QED
    BY <2>2, <2>3 DEF RegisterInv
<1>. QED
  BY <1>2, <1>3

LEMMA RegisterAlways == RegisterSpec => []RegisterInv
<1>1. RegisterInit => RegisterInv
  <2>. SUFFICES ASSUME RegisterInit
                PROVE  RegisterInv
    OBVIOUS
  <2>1. Registered = {}
    BY DEF RegisterInit, Registered
  <2>2. RegisterTypeOK
    BY <2>1, RegisterBounds DEF RegisterInit, RegisterTypeOK, Idle
  <2>3. NoGap /\ AsRead /\ CodeStillFree
    BY <2>1 DEF RegisterInit, NoGap, AsRead, CodeStillFree, Idle
  <2>4. RegisterKept
    BY <2>1 DEF RegisterInit, RegisterKept, LastIsCurrent, LiveIsCurrent, CodeNamesOne
  <2>. QED
    BY <2>2, <2>3, <2>4 DEF RegisterInv
<1>2. RegisterInv /\ [RegisterNext]_registerVars => RegisterInv'
  <2>. SUFFICES ASSUME RegisterInv, [RegisterNext]_registerVars
                PROVE  RegisterInv'
    OBVIOUS
  <2>1. /\ newest \subseteq Registered
        /\ code \in [Rows -> Codes \cup {NoCode}]
        /\ Registered \subseteq Rows
    BY DEF RegisterInv, RegisterTypeOK, Registered
  <2>2. ASSUME NEW r \in Editors, NEW d \in Rows \cup {0}, NEW c \in Codes \cup {NoCode},
               AskVersion(r, d, c)
        PROVE  RegisterInv'
    <3>. DEFINE wanted == IF c = NoCode /\ d # 0 THEN code[d] ELSE c
    <3>1. d \in Registered \cup {0} /\ wanted \in Codes \cup {NoCode}
      BY <2>1, <2>2 DEF AskVersion
    <3>2. Moves(r, "registering", d, wanted)
      BY <2>2 DEF AskVersion
    <3>3. CodeFree(wanted, IF d = 0 THEN 0 ELSE lineage[d])
      BY <2>2 DEF AskVersion
    <3>4. UNCHANGED <<lineage, number, newest, live, drawn, code, clashed, outlived>>
      BY <2>2 DEF AskVersion
    <3>. HIDE DEF wanted
    <3>. QED
      BY <3>1, <3>2, <3>3, <3>4, AskKeeps DEF CodeFree
  <2>3. ASSUME NEW r \in Editors, NEW d \in Rows, NEW c \in Codes \cup {NoCode},
               AskPatch(r, d, c)
        PROVE  RegisterInv'
    <3>1. d \in Registered /\ d # 0 /\ Moves(r, "patching", d, c) /\ CodeFree(c, lineage[d])
      BY <2>1, <2>3 DEF AskPatch, Rows
    <3>2. UNCHANGED <<lineage, number, newest, live, drawn, code, clashed, outlived>>
      BY <2>3 DEF AskPatch
    <3>. QED
      BY <3>1, <3>2, AskKeeps DEF CodeFree
  <2>4. ASSUME NEW r \in Editors, NEW d \in Rows, AskLive(r, d)
        PROVE  RegisterInv'
    BY <2>1, <2>4, AskKeeps DEF AskLive
  <2>5. ASSUME NEW r \in Editors, Abandon(r)
        PROVE  RegisterInv'
    BY <2>5, AskKeeps DEF Abandon
  <2>6. CASE UNCHANGED registerVars
    BY <2>6 DEF registerVars, RegisterInv, RegisterTypeOK, NoGap, AsRead, CodeStillFree, RegisterKept,
       LastIsCurrent, LiveIsCurrent, CodeNamesOne, Registered, Target
  <2>. QED
    BY <2>2, <2>3, <2>4, <2>5, <2>6, RegisterKeeps, PatchKeeps, CoverageKeeps DEF RegisterNext
<1>. QED
  BY <1>1, <1>2, PTL DEF RegisterSpec

(* However the requests interleave, a document has one current version,    *)
(* its last; live coverage is the current version's, unless it was         *)
(* replaced while it was switched on; a short code names one document,     *)
(* unless two requests checked it side by side.                            *)
THEOREM Register_Kept == RegisterSpec => []RegisterKept
<1>1. RegisterInv => RegisterKept
  BY DEF RegisterInv
<1>. QED
  BY <1>1, RegisterAlways, PTL

(* Rows, requests and what is current keep their shape, and a row's number *)
(* and document are never beyond the rows there are.                       *)
THEOREM RegisterTyped == RegisterSpec => []RegisterTypeOK
<1>1. RegisterInv => RegisterTypeOK
  BY DEF RegisterInv
<1>. QED
  BY <1>1, RegisterAlways, PTL

-----------------------------------------------------------------------------
(* The market figures of a zone.                                           *)

(* The data of every variable, in full.                                    *)
JobRecord == [item : SUBSET Items, at : Nat, ready : SUBSET Items, edits : SUBSET Metrics,
              base : Nat, saw : Nat, head : Nat, old : Nat, from : Days, day : Days]
VersionRow == [rate : [Metrics -> Items \cup Nat], changed : SUBSET Metrics, no : Nat, from : Days,
               saved : Days, retired : BOOLEAN, saw : Nat]
MarketTyped ==
  /\ verdict \in [Items -> {"pending", "approved", "rejected"}]
  /\ decided \in [Items -> Nat] /\ applied \in [Items -> Nat]
  /\ versions \in Seq(VersionRow)
  /\ current \in {0, Len(versions)}
  /\ today \in Days /\ decisions \in Nat
  /\ pc \in [Clerks -> {"idle", "decided", "reading", "based", "queueing", "inserting", "retiring"}]
  /\ job \in [Clerks -> JobRecord]
  /\ holds \in [Clerks -> SUBSET Items]
  /\ row \in [Clerks -> Nat]
  /\ late \subseteq Clerks /\ crossed \in BOOLEAN

(* Versions are numbered from the one before or an older one, and a        *)
(* request refers to versions that are there.                              *)
VersionsThere ==
  /\ \A v \in VersionIds : versions[v].no \in 1..v
  /\ \A c \in Clerks : {job[c].base, job[c].saw, job[c].head} \subseteq 0..Len(versions)
MarketShape == MarketTyped /\ VersionsThere

Saving == {"based", "queueing", "inserting"}

(* A request works on items it has locked, which nobody has applied.       *)
ItemsLocked ==
  /\ \A c \in Clerks : job[c].item \subseteq holds[c]
  /\ \A c \in Clerks : pc[c] \in Saving => job[c].ready \subseteq holds[c]
  /\ \A c, d \in Clerks : c # d => holds[c] \cap holds[d] = {}
  /\ \A c \in Clerks : \A i \in holds[c] : applied[i] = 0

(* Every decision has a number of its own.                                 *)
DecisionsNumbered ==
  /\ \A i \in Items : decided[i] <= decisions /\ (Waiting(i) => decided[i] # 0)
  /\ \A i, k \in Items : decided[i] = decided[k] /\ decided[i] # 0 => i = k
  /\ \A c \in Clerks : \A i, k \in job[c].item : i = k
  /\ \A c \in Clerks : job[c].item # {} =>
       job[c].at \in 1..decisions /\ \A i \in Items : decided[i] # job[c].at
  /\ \A c, d \in Clerks : c # d /\ job[c].item # {} /\ job[d].item # {} => job[c].at # job[d].at

(* What a request will write: one item a metric, its own among them or one *)
(* decided later, each approved by then; and a rate for every metric.      *)
Covered(c) == job[c].edits \cup {MetricOf[i] : i \in job[c].ready}
ReadyPicked ==
  /\ \A c \in Clerks : pc[c] \in {"decided", "reading"} => job[c].edits = {}
  /\ \A c \in Clerks : pc[c] \in Saving =>
       /\ job[c].edits # {} => job[c].ready = {}
       /\ \A i, k \in job[c].ready : MetricOf[i] = MetricOf[k] => i = k
       /\ \A i \in job[c].ready : i \in job[c].item \/ Waiting(i)
       /\ \A i \in job[c].item : \E k \in job[c].ready : MetricOf[k] = MetricOf[i]
       /\ job[c].base = 0 => Metrics \subseteq Covered(c)

(* Figures and items name each other.                                      *)
Figures ==
  /\ \A i \in Items : applied[i] # 0 =>
        applied[i] \in VersionIds /\ verdict[i] = "approved" /\ versions[applied[i]].rate[MetricOf[i]] = i
  /\ \A v \in VersionIds, m \in Metrics : versions[v].rate[m] \in Items =>
        applied[versions[v].rate[m]] \in 1..v

(* Where the last version is on top of the timeline, a save that has seen  *)
(* it is based on it.                                                      *)
OnTop(day) ==
  LET last == Len(versions) IN
  /\ last # 0 /\ AppliesFrom(last) <= day
  /\ \A u \in 1..(last - 1) : AppliesFrom(u) <= AppliesFrom(last) /\ versions[u].no < versions[last].no
BasedOnTop ==
  \A c \in Clerks :
    pc[c] \in Saving /\ job[c].saw = Len(versions) /\ OnTop(job[c].day) /\ ~(Metrics \subseteq Covered(c))
    => job[c].base = Len(versions)

(* Some metric has no approved item waiting; who has looked and is not     *)
(* overtaken has seen all that wait.                                       *)
SomeMissing == \E m \in Metrics : \A i \in Items : MetricOf[i] = m => ~Waiting(i)
SeesAll ==
  \A c \in Clerks : pc[c] = "reading" /\ c \notin late =>
    \A i \in Items : Waiting(i) => i \in job[c].ready
ItemSeen == \A c \in Clerks : pc[c] = "reading" => job[c].item \subseteq job[c].ready
WaitInv == crossed \/ (SomeMissing /\ SeesAll)

(* A bounded set of numbers has a largest one.                             *)
LEMMA LargestThere ==
  ASSUME NEW S, S # {}, NEW f \in [S -> Nat], NEW B \in Nat, \A x \in S : f[x] <= B
  PROVE  \E x \in S : \A y \in S : f[y] <= f[x]
<1>. DEFINE Bound == {n \in Nat : \A x \in S : f[x] <= n}
<1>1. PICK R : IsWellFoundedOn(R, Nat) /\ \A m, n \in Nat : m < n => <<m, n>> \in R
  <2>. DEFINE Less == OpToRel(<, Nat)
  <2>1. IsWellFoundedOn(Less, Nat)
    BY NatLessThanWellFounded
  <2>2. \A m, n \in Nat : m < n => <<m, n>> \in Less
    BY DEF OpToRel
  <2>. HIDE DEF Less
  <2>. QED
    BY <2>1, <2>2
<1>2. Bound \subseteq Nat /\ Bound # {}
  OBVIOUS
<1>3. PICK n \in Bound : \A m \in Bound : ~ (<<m, n>> \in R)
  <2>1. IsWellFoundedOn(R, Nat)
    BY <1>1
  <2>. HIDE <1>1 DEF Bound
  <2>. QED
    BY <2>1, <1>2, WFMin
<1>4. n \in Nat /\ \A x \in S : f[x] <= n
  BY <1>3
<1>5. \E x \in S : f[x] = n
  <2>. SUFFICES ASSUME \A x \in S : f[x] # n PROVE FALSE
    OBVIOUS
  <2>1. PICK x \in S : TRUE
    OBVIOUS
  <2>2. n > 0 /\ f[x] \in Nat
    BY <1>4
  <2>3. n - 1 \in Bound
    BY <1>4, <2>2
  <2>4. <<n - 1, n>> \in R
    BY <1>1, <1>4, <2>2
  <2>. QED
    BY <1>3, <2>3, <2>4
<1>. QED
  BY <1>4, <1>5

LEMMA VersionRows ==
  ASSUME MarketTyped
  PROVE  /\ DOMAIN versions = VersionIds /\ Len(versions) \in Nat
         /\ \A v \in VersionIds : versions[v] \in VersionRow /\ v \in Nat \ {0}
BY DEF MarketTyped, VersionIds

LEMMA AppliesLater ==
  ASSUME MarketTyped, NEW v \in VersionIds
  PROVE  AppliesFrom(v) = (IF versions[v].from >= versions[v].saved THEN versions[v].from ELSE versions[v].saved)
         /\ AppliesFrom(v) \in Days
<1>1. versions[v].from \in Int /\ versions[v].saved \in Int /\ versions[v].from \in Days /\ versions[v].saved \in Days
  BY VersionRows, MarketAssumption DEF VersionRow, Days
<1>2. \A a, b \in Int : Max({a, b}) = IF a >= b THEN a ELSE b
  BY DEF Max
<1>. QED
  BY <1>1, <1>2 DEF AppliesFrom

(* The timeline has one top, and the rows one newest.                      *)
LEMMA TopThere ==
  ASSUME MarketShape, NEW due \in SUBSET VersionIds, due # {}
  PROVE  \E w \in due : \A v \in due \ {w} : RanksBelow(v, w)
<1>0. MarketTyped /\ MaxDay \in Nat /\ Len(versions) \in Nat
  BY VersionRows, MarketAssumption DEF MarketShape
<1>1. PICK x \in due : \A y \in due : AppliesFrom(y) <= AppliesFrom(x)
  <2>. DEFINE f == [v \in due |-> AppliesFrom(v)]
  <2>1. \A v \in due : f[v] \in Nat /\ f[v] <= MaxDay
    BY <1>0, AppliesLater DEF Days
  <2>2. f = [v \in due |-> f[v]]
    OBVIOUS
  <2>. HIDE DEF f
  <2>3. f \in [due -> Nat]
    BY <2>1, <2>2
  <2>4. \E x \in due : \A y \in due : f[y] <= f[x]
    BY <1>0, <2>1, <2>3, LargestThere
  <2>. QED
    BY <2>4 DEF f
<1>. DEFINE S == {v \in due : AppliesFrom(v) = AppliesFrom(x)}
<1>2. PICK y \in S : \A z \in S : versions[z].no <= versions[y].no
  <2>. DEFINE f == [v \in S |-> versions[v].no]
  <2>1. \A v \in S : f[v] \in Nat /\ f[v] <= Len(versions)
    BY <1>0 DEF MarketShape, VersionsThere, VersionIds
  <2>2. f = [v \in S |-> f[v]]
    OBVIOUS
  <2>. HIDE DEF f
  <2>3. f \in [S -> Nat] /\ S # {}
    BY <2>1, <2>2
  <2>. HIDE DEF S
  <2>4. \E u \in S : \A z \in S : f[z] <= f[u]
    BY <1>0, <2>1, <2>3, LargestThere
  <2>. QED
    BY <2>4 DEF f
<1>. DEFINE T == {v \in S : versions[v].no = versions[y].no}
<1>3. PICK w \in T : \A z \in T : z <= w
  <2>. DEFINE f == [v \in T |-> v]
  <2>1. \A v \in T : f[v] \in Nat /\ f[v] <= Len(versions)
    BY <1>0 DEF VersionIds
  <2>2. f = [v \in T |-> f[v]]
    OBVIOUS
  <2>. HIDE DEF f
  <2>3. f \in [T -> Nat] /\ T # {}
    BY <2>1, <2>2
  <2>. HIDE DEF T
  <2>4. \E u \in T : \A z \in T : f[z] <= f[u]
    BY <1>0, <2>1, <2>3, LargestThere
  <2>. QED
    BY <2>4 DEF f
<1>4. ASSUME NEW v \in due \ {w} PROVE RanksBelow(v, w)
  <2>1. /\ AppliesFrom(v) \in Int /\ AppliesFrom(w) \in Int /\ AppliesFrom(w) = AppliesFrom(x)
        /\ versions[v].no \in Int /\ versions[w].no \in Int /\ v \in Int /\ w \in Int
        /\ versions[w].no = versions[y].no
    BY <1>0, AppliesLater DEF Days, MarketShape, VersionsThere, VersionIds
  <2>2. AppliesFrom(v) <= AppliesFrom(w)
    BY <1>1, <2>1
  <2>3. AppliesFrom(v) = AppliesFrom(w) => versions[v].no <= versions[w].no
    BY <1>2, <2>1
  <2>4. AppliesFrom(v) = AppliesFrom(w) /\ versions[v].no = versions[w].no => v <= w
    BY <1>3, <2>1
  <2>. QED
    BY <2>1, <2>2, <2>3, <2>4 DEF RanksBelow
<1>. QED
  BY <1>4

LEMMA TopIsVersion ==
  ASSUME MarketShape, NEW day
  PROVE  /\ Top(day) \in 0..Len(versions) /\ Live(day) \in 0..Len(versions) /\ Live(day) \in {0, Top(day)}
         /\ LET due == {v \in VersionIds : AppliesFrom(v) <= day} IN
            due # {} => Top(day) \in due /\ \A v \in due \ {Top(day)} : RanksBelow(v, Top(day))
         /\ Live(day) # 0 => ~versions[Live(day)].retired
<1>. DEFINE due == {v \in VersionIds : AppliesFrom(v) <= day}
<1>1. Len(versions) \in Nat
  BY VersionRows DEF MarketShape
<1>2. due # {} => \E w \in due : \A v \in due \ {w} : RanksBelow(v, w)
  BY TopThere
<1>3. due # {} => Top(day) \in due /\ \A v \in due \ {Top(day)} : RanksBelow(v, Top(day))
  BY <1>2 DEF Top
<1>4. Top(day) \in 0..Len(versions)
  BY <1>1, <1>3 DEF Top, VersionIds
<1>. QED
  BY <1>1, <1>3, <1>4 DEF Live

LEMMA EmptyHasNone ==
  ASSUME NEW T, NEW s \in Seq(T), s # <<>>
  PROVE  1 \in 1..Len(s)
OBVIOUS

LEMMA NewestIsVersion ==
  ASSUME MarketShape
  PROVE  Newest \in 0..Len(versions)
<1>0. MarketTyped /\ Len(versions) \in Nat
  BY VersionRows DEF MarketShape
<1>1. CASE versions = <<>>
  BY <1>0, <1>1 DEF Newest
<1>2. CASE versions # <<>>
  <2>0. VersionIds # {}
    BY <1>0, <1>2, EmptyHasNone DEF MarketTyped, VersionIds
  <2>2. PICK y \in VersionIds : \A z \in VersionIds : versions[z].no <= versions[y].no
    <3>. DEFINE f == [v \in VersionIds |-> versions[v].no]
    <3>1. \A v \in VersionIds : f[v] \in Nat /\ f[v] <= Len(versions)
      BY <1>0 DEF MarketShape, VersionsThere, VersionIds
    <3>2. f = [v \in VersionIds |-> f[v]]
      OBVIOUS
    <3>. HIDE DEF f
    <3>3. f \in [VersionIds -> Nat]
      BY <3>1, <3>2
    <3>4. \E u \in VersionIds : \A z \in VersionIds : f[z] <= f[u]
      BY <1>0, <2>0, <3>1, <3>3, LargestThere
    <3>. QED
      BY <3>4 DEF f
  <2>. DEFINE T == {v \in VersionIds : versions[v].no = versions[y].no}
  <2>3. PICK w \in T : \A z \in T : z <= w
    <3>. DEFINE f == [v \in T |-> v]
    <3>1. \A v \in T : f[v] \in Nat /\ f[v] <= Len(versions)
      BY <1>0 DEF VersionIds
    <3>2. f = [v \in T |-> f[v]]
      OBVIOUS
    <3>. HIDE DEF f
    <3>3. f \in [T -> Nat] /\ T # {}
      BY <3>1, <3>2
    <3>. HIDE DEF T
    <3>4. \E u \in T : \A z \in T : f[z] <= f[u]
      BY <1>0, <3>1, <3>3, LargestThere
    <3>. QED
      BY <3>4 DEF f
  <2>4. ASSUME NEW v \in VersionIds \ {w}
        PROVE  versions[v].no < versions[w].no \/ (versions[v].no = versions[w].no /\ v < w)
    <3>1. versions[v].no \in Int /\ versions[w].no \in Int /\ v \in Int /\ w \in Int /\ versions[w].no = versions[y].no
      BY <1>0 DEF MarketShape, VersionsThere, VersionIds
    <3>. QED
      BY <2>2, <2>3, <3>1
  <2>5. \E u \in VersionIds : \A v \in VersionIds \ {u} :
          versions[v].no < versions[u].no \/ (versions[v].no = versions[u].no /\ v < u)
    BY <2>4
  <2>. QED
    <3>1. Newest \in VersionIds
      BY <1>2, <2>5 DEF Newest
    <3>. QED
      BY <1>0, <3>1 DEF VersionIds
<1>. QED
  BY <1>1, <1>2

LEMMA JobsTyped ==
  /\ NoJob \in JobRecord
  /\ NoJob.item = {} /\ NoJob.at = 0 /\ NoJob.ready = {} /\ NoJob.edits = {} /\ NoJob.base = 0
  /\ NoJob.saw = 0 /\ NoJob.head = 0 /\ NoJob.old = 0
BY MarketAssumption DEF NoJob, JobRecord, Days

(* What each action writes, field by field.                                *)
Others(c) ==
  \A d \in Clerks \ {c} : pc'[d] = pc[d] /\ job'[d] = job[d] /\ holds'[d] = holds[d] /\ row'[d] = row[d]
Released(c) == pc'[c] = "idle" /\ job'[c] = NoJob /\ holds'[c] = {} /\ row'[c] = 0

LEMMA ReleaseWrites ==
  ASSUME MarketTyped, NEW c \in Clerks, Release(c)
  PROVE  Others(c) /\ Released(c)
BY DEF MarketTyped, Release, Others, Released

LEMMA AdvanceWrites ==
  ASSUME MarketTyped, NEW c \in Clerks, NEW at, NEW j, Advance(c, at, j)
  PROVE  /\ pc'[c] = at /\ job'[c] = j
         /\ \A d \in Clerks \ {c} : pc'[d] = pc[d] /\ job'[d] = job[d]
BY DEF MarketTyped, Advance

LEMMA ApproveWrites ==
  ASSUME MarketTyped, NEW c \in Clerks, NEW i \in Items, Approve(c, i)
  PROVE  /\ Others(c) /\ pc[c] = "idle" /\ pc'[c] = "decided" /\ holds'[c] = {i} /\ row'[c] = row[c]
         /\ LET j == job'[c] IN
            /\ j.item = {i} /\ j.at = decisions + 1 /\ j.ready = {} /\ j.edits = {} /\ j.base = 0
            /\ j.saw = 0 /\ j.head = 0 /\ j.old = 0 /\ j.day = today
         /\ job'[c] \in JobRecord
         /\ decisions' = decisions + 1 /\ applied[i] = 0 /\ \A d \in Clerks \ {c} : i \notin holds[d]
         /\ UNCHANGED <<verdict, decided, applied, versions, current, today, late, crossed>>
<1>. DEFINE j == [NoJob EXCEPT !.item = {i}, !.at = decisions + 1, !.day = today]
<1>1. pc'[c] = "decided" /\ job'[c] = j /\ \A d \in Clerks \ {c} : pc'[d] = pc[d] /\ job'[d] = job[d]
  BY AdvanceWrites DEF Approve
<1>2. /\ j.item = {i} /\ j.at = decisions + 1 /\ j.day = today
      /\ j.ready = NoJob.ready /\ j.edits = NoJob.edits /\ j.base = NoJob.base
      /\ j.saw = NoJob.saw /\ j.head = NoJob.head /\ j.old = NoJob.old /\ j \in JobRecord
  <2>. DEFINE at == decisions + 1 own == {i}
  <2>1. at \in Nat /\ today \in Days /\ own \in SUBSET Items
    BY DEF MarketTyped
  <2>2. j = [NoJob EXCEPT !.item = own, !.at = at, !.day = today]
    OBVIOUS
  <2>3. at = decisions + 1 /\ own = {i}
    OBVIOUS
  <2>. HIDE DEF j, at, own
  <2>. QED
    BY <2>1, <2>2, <2>3, JobsTyped DEF JobRecord
<1>. HIDE DEF j
<1>3. \A d \in Clerks \ {c} : i \notin holds[d]
  BY DEF Approve, ItemFree
<1>. QED
  BY <1>1, <1>2, <1>3, JobsTyped DEF Approve, Others, MarketTyped, itemVars, zoneVars

LEMMA ReadReadyWrites ==
  ASSUME MarketTyped, NEW c \in Clerks, ReadReady(c)
  PROVE  /\ Others(c) /\ pc[c] = "decided" /\ pc'[c] = "reading" /\ holds'[c] = holds[c] /\ row'[c] = row[c]
         /\ LET old == job[c] new == job'[c] IN
            /\ new.item = old.item /\ new.at = old.at /\ new.ready = Seen(c) /\ new.edits = old.edits
            /\ new.base = old.base /\ new.saw = old.saw /\ new.head = old.head /\ new.day = old.day
         /\ job'[c] \in JobRecord
         /\ UNCHANGED <<verdict, decided, applied, versions, current, today, decisions, late, crossed>>
<1>. DEFINE seen == Seen(c) j == [job[c] EXCEPT !.ready = seen]
<1>1. pc'[c] = "reading" /\ job'[c] = j /\ \A d \in Clerks \ {c} : pc'[d] = pc[d] /\ job'[d] = job[d]
  BY AdvanceWrites DEF ReadReady
<1>2. job[c] \in JobRecord
  BY DEF MarketTyped
<1>3. seen \in SUBSET Items
  BY <1>2 DEF Seen, JobRecord
<1>4. seen = Seen(c)
  OBVIOUS
<1>. HIDE DEF seen
<1>5. LET old == job[c] IN
      /\ j.item = old.item /\ j.at = old.at /\ j.ready = seen /\ j.edits = old.edits
      /\ j.base = old.base /\ j.saw = old.saw /\ j.head = old.head /\ j.day = old.day /\ j \in JobRecord
  BY <1>2, <1>3 DEF JobRecord
<1>. HIDE DEF j
<1>. QED
  BY <1>1, <1>4, <1>5 DEF ReadReady, Others, Undisturbed, itemVars, zoneVars

LEMMA LockReadyWrites ==
  ASSUME MarketShape, NEW c \in Clerks, LockReady(c)
  PROVE  /\ Others(c) /\ pc[c] = "reading" /\ pc'[c] = "based" /\ row'[c] = row[c]
         /\ holds'[c] = holds[c] \cup LockedReady(c)
         /\ \A i \in LockedReady(c) : i \in Items /\ \A d \in Clerks \ {c} : i \notin holds[d]
         /\ Complete(c)
         /\ LET old == job[c] new == job'[c] IN
            /\ new.item = old.item /\ new.at = old.at /\ new.ready = Chosen(c) /\ new.edits = old.edits
            /\ new.base = Live(old.day) /\ new.saw = Len(versions) /\ new.head = old.head /\ new.day = old.day
         /\ job'[c] \in JobRecord
         /\ UNCHANGED <<verdict, decided, applied, versions, current, today, decisions, late, crossed>>
<1>0. MarketTyped
  BY DEF MarketShape
<1>. DEFINE base == Live(job[c].day) saw == Len(versions) ready == Chosen(c)
            j == [job[c] EXCEPT !.base = base, !.saw = saw, !.ready = ready]
<1>1. pc'[c] = "based" /\ job'[c] = j /\ \A d \in Clerks \ {c} : pc'[d] = pc[d] /\ job'[d] = job[d]
  BY <1>0, AdvanceWrites DEF LockReady
<1>2. job[c] \in JobRecord
  BY <1>0 DEF MarketTyped
<1>3. ready \in SUBSET Items /\ LockedReady(c) \subseteq job[c].ready /\ job[c].ready \subseteq Items
  BY <1>2 DEF Chosen, LockedReady, JobRecord
<1>4. base \in Nat /\ saw \in Nat
  BY <1>0, TopIsVersion, VersionRows
<1>5. base = Live(job[c].day) /\ saw = Len(versions) /\ ready = Chosen(c)
  OBVIOUS
<1>. HIDE DEF base, saw, ready
<1>6. LET old == job[c] IN
      /\ j.item = old.item /\ j.at = old.at /\ j.ready = ready /\ j.edits = old.edits
      /\ j.base = base /\ j.saw = saw /\ j.head = old.head /\ j.day = old.day /\ j \in JobRecord
  BY <1>2, <1>3, <1>4 DEF JobRecord
<1>. HIDE DEF j
<1>7. holds'[c] = holds[c] \cup LockedReady(c) /\ \A d \in Clerks \ {c} : holds'[d] = holds[d]
  BY <1>0 DEF LockReady, MarketTyped
<1>8. \A i \in LockedReady(c) : i \in Items /\ \A d \in Clerks \ {c} : i \notin holds[d]
  BY <1>3 DEF LockReady, CanLockReady, ItemFree
<1>. QED
  BY <1>1, <1>5, <1>6, <1>7, <1>8 DEF LockReady, CanLockReady, Others, Undisturbed, itemVars, zoneVars

LEMMA CommitWaitingWrites ==
  ASSUME MarketTyped, NEW c \in Clerks, CommitWaiting(c)
  PROVE  /\ Others(c) /\ pc[c] = "reading" /\ Released(c) /\ ~Complete(c)
         /\ \A i \in Items : verdict'[i] = IF i \in job[c].item THEN "approved" ELSE verdict[i]
         /\ \A i \in Items : decided'[i] = IF i \in job[c].item THEN job[c].at ELSE decided[i]
         /\ late' = (late \ {c}) \cup {d \in Clerks \ {c} : pc[d] \notin {"idle", "decided"}}
         /\ crossed' = (crossed \/ c \in late)
         /\ UNCHANGED <<applied, versions, current, today, decisions>>
BY ReleaseWrites DEF CommitWaiting, CanLockReady, CommitDecision, Overtake, zoneVars

LEMMA AdministratorWrites ==
  ASSUME MarketShape, NEW c \in Clerks, Create(c) \/ Update(c) \/ RetireRead(c)
  PROVE  /\ Others(c) /\ pc[c] = "idle" /\ pc'[c] \in {"based", "retiring"} /\ holds'[c] = holds[c] /\ row'[c] = row[c]
         /\ LET j == job'[c] IN
            /\ j.item = {} /\ j.ready = {} /\ j.head = 0
            /\ {j.base, j.saw} \subseteq 0..Len(versions)
            /\ pc'[c] = "based" =>
                 j.edits = Metrics \/ (current # 0 /\ j.base = current /\ j.saw = Len(versions))
         /\ job'[c] \in JobRecord
         /\ UNCHANGED <<verdict, decided, applied, versions, current, today, decisions, late, crossed>>
<1>0. /\ MarketTyped /\ Len(versions) \in Nat /\ current \in 0..Len(versions) /\ today \in Days /\ today \in Nat
      /\ Live(today) \in 0..Len(versions)
  BY TopIsVersion, VersionRows, MarketAssumption DEF MarketShape, MarketTyped, Days
<1>. DEFINE Goal == /\ Others(c) /\ pc'[c] \in {"based", "retiring"}
                    /\ LET j == job'[c] IN
                       /\ j.item = {} /\ j.ready = {} /\ j.head = 0
                       /\ {j.base, j.saw} \subseteq 0..Len(versions)
                       /\ pc'[c] = "based" =>
                            j.edits = Metrics \/ (current # 0 /\ j.base = current /\ j.saw = Len(versions))
                    /\ job'[c] \in JobRecord
<1>1. ASSUME Create(c) PROVE Goal
  <2>1. PICK from \in today..MaxDay :
          Advance(c, "based", [NoJob EXCEPT !.edits = Metrics, !.from = from, !.day = today])
    BY <1>1 DEF Create
  <2>. DEFINE j == [NoJob EXCEPT !.edits = Metrics, !.from = from, !.day = today]
  <2>2. pc'[c] = "based" /\ job'[c] = j /\ \A d \in Clerks \ {c} : pc'[d] = pc[d] /\ job'[d] = job[d]
    BY <1>0, <2>1, AdvanceWrites
  <2>3. from \in Days
    BY <1>0, MarketAssumption DEF Days
  <2>4. /\ j.item = NoJob.item /\ j.ready = NoJob.ready /\ j.head = NoJob.head /\ j.base = NoJob.base
        /\ j.saw = NoJob.saw /\ j.edits = Metrics /\ j \in JobRecord
    BY <1>0, <2>3, JobsTyped DEF JobRecord
  <2>. HIDE DEF j
  <2>5. holds' = holds /\ row' = row
    BY <1>1 DEF Create
  <2>6. /\ j.item = {} /\ j.ready = {} /\ j.head = 0 /\ j.base = 0 /\ j.saw = 0
    BY <2>4, JobsTyped
  <2>. QED
    BY <1>0, <2>2, <2>4, <2>5, <2>6 DEF Others
<1>2. ASSUME Update(c) PROVE Goal
  <2>1. PICK from \in today..MaxDay, m \in Metrics :
          Advance(c, "based", [NoJob EXCEPT !.edits = {m}, !.base = current, !.saw = Len(versions),
                                            !.from = from, !.day = today])
    BY <1>2 DEF Update
  <2>. DEFINE saw == Len(versions)
              j == [NoJob EXCEPT !.edits = {m}, !.base = current, !.saw = saw, !.from = from, !.day = today]
  <2>2. pc'[c] = "based" /\ job'[c] = j /\ \A d \in Clerks \ {c} : pc'[d] = pc[d] /\ job'[d] = job[d]
    BY <1>0, <2>1, AdvanceWrites
  <2>3. from \in Days /\ saw \in Nat /\ current \in Nat
    BY <1>0, MarketAssumption DEF Days
  <2>4. /\ j.item = NoJob.item /\ j.ready = NoJob.ready /\ j.head = NoJob.head /\ j.base = current
        /\ j.saw = saw /\ j \in JobRecord
    BY <1>0, <2>3, JobsTyped DEF JobRecord
  <2>. HIDE DEF j
  <2>5. holds' = holds /\ row' = row /\ current # 0
    BY <1>2 DEF Update
  <2>6. /\ j.item = {} /\ j.ready = {} /\ j.head = 0 /\ j.base = current /\ j.saw = Len(versions)
    BY <2>4, JobsTyped DEF saw
  <2>. HIDE DEF saw
  <2>. QED
    BY <1>0, <2>2, <2>4, <2>5, <2>6 DEF Others
<1>3. ASSUME RetireRead(c) PROVE Goal
  <2>. DEFINE base == Live(today) j == [NoJob EXCEPT !.base = base]
  <2>2. pc'[c] = "retiring" /\ job'[c] = j /\ \A d \in Clerks \ {c} : pc'[d] = pc[d] /\ job'[d] = job[d]
    BY <1>0, <1>3, AdvanceWrites DEF RetireRead
  <2>3. base \in 0..Len(versions) /\ base \in Nat
    BY <1>0
  <2>. HIDE DEF base
  <2>4. /\ j.item = NoJob.item /\ j.ready = NoJob.ready /\ j.head = NoJob.head /\ j.base = base
        /\ j.saw = NoJob.saw /\ j \in JobRecord
    BY <1>0, <2>3, JobsTyped DEF JobRecord
  <2>. HIDE DEF j
  <2>5. holds' = holds /\ row' = row
    BY <1>3 DEF RetireRead
  <2>6. /\ j.item = {} /\ j.ready = {} /\ j.head = 0 /\ j.base = base /\ j.saw = 0
    BY <2>4, JobsTyped
  <2>. QED
    BY <1>0, <2>2, <2>3, <2>4, <2>5, <2>6 DEF Others
<1>4. Goal
  BY <1>1, <1>2, <1>3
<1>5. /\ pc[c] = "idle" /\ UNCHANGED <<holds, row>>
      /\ UNCHANGED <<verdict, decided, applied, versions, current, today, decisions, late, crossed>>
  BY DEF Create, Update, RetireRead, Undisturbed, itemVars, zoneVars
<1>. QED
  BY <1>4, <1>5

LEMMA RetireWriteWrites ==
  ASSUME MarketTyped, NEW c \in Clerks, RetireWrite(c)
  PROVE  /\ Others(c) /\ pc[c] = "retiring" /\ Released(c)
         /\ Len(versions') = Len(versions) /\ versions' \in Seq(VersionRow)
         /\ \A v \in VersionIds : LET old == versions[v] new == versions'[v] IN
              /\ new.rate = old.rate /\ new.changed = old.changed /\ new.no = old.no
              /\ new.from = old.from /\ new.saved = old.saved /\ new.saw = old.saw
              /\ new.retired = (old.retired \/ v = job[c].base)
         /\ current' = IF current = job[c].base THEN 0 ELSE current
         /\ late' = (late \ {c}) \cup {d \in Clerks \ {c} : pc[d] \notin {"idle", "decided"}}
         /\ crossed' = (crossed \/ c \in late)
         /\ UNCHANGED <<verdict, decided, applied, today, decisions>>
<1>1. versions' = [versions EXCEPT ![job[c].base].retired = TRUE]
  BY DEF RetireWrite
<1>2. \A v \in VersionIds : versions[v] \in VersionRow
  BY VersionRows
<1>3. \A v \in VersionIds : [versions[v] EXCEPT !.retired = TRUE] \in VersionRow
  BY <1>2 DEF VersionRow
<1>4. DOMAIN versions = 1..Len(versions) /\ VersionIds = 1..Len(versions) /\ Len(versions) \in Nat
  BY VersionRows DEF VersionIds
<1>5. \A v \in VersionIds : versions'[v] = IF v = job[c].base THEN [versions[v] EXCEPT !.retired = TRUE] ELSE versions[v]
  BY <1>1, <1>4 DEF MarketTyped
<1>6. versions' \in [1..Len(versions) -> VersionRow]
  <2>1. DOMAIN versions' = 1..Len(versions) /\ versions' = [v \in DOMAIN versions |-> versions'[v]]
    BY <1>1, <1>4 DEF MarketTyped
  <2>2. \A v \in 1..Len(versions) : versions'[v] \in VersionRow
    BY <1>2, <1>3, <1>4, <1>5
  <2>. QED
    BY <1>4, <2>1, <2>2
<1>7. Len(versions') = Len(versions) /\ versions' \in Seq(VersionRow)
  BY <1>4, <1>6
<1>8. \A v \in VersionIds : LET old == versions[v] new == versions'[v] IN
        /\ new.rate = old.rate /\ new.changed = old.changed /\ new.no = old.no
        /\ new.from = old.from /\ new.saved = old.saved /\ new.saw = old.saw
        /\ new.retired = (old.retired \/ v = job[c].base)
  BY ZenonT(60), <1>2, <1>5 DEF VersionRow
<1>9. Others(c) /\ Released(c)
  BY ReleaseWrites DEF RetireWrite
<1>. QED
  BY <1>7, <1>8, <1>9 DEF RetireWrite, Overtake, itemVars

LEMMA LatestWrites ==
  ASSUME MarketShape, NEW c \in Clerks, PickLatest(c) \/ LockLatest(c)
  PROVE  /\ \A d \in Clerks \ {c} : pc'[d] = pc[d] /\ job'[d] = job[d] /\ row'[d] = row[d]
         /\ holds' = holds /\ pc[c] \in {"based", "queueing"} /\ pc'[c] \in {"queueing", "inserting"}
         /\ LET old == job[c] new == job'[c] IN
            /\ new.item = old.item /\ new.at = old.at /\ new.ready = old.ready /\ new.edits = old.edits
            /\ new.base = old.base /\ new.saw = old.saw /\ new.head \in 0..Len(versions) /\ new.day = old.day
         /\ job'[c] \in JobRecord /\ row'[c] \in Nat
         /\ UNCHANGED <<verdict, decided, applied, versions, current, today, decisions, late, crossed>>
<1>0. MarketTyped /\ job[c] \in JobRecord /\ Len(versions) \in Nat /\ job[c].head \in 0..Len(versions)
      /\ current \in Nat /\ row \in [Clerks -> Nat]
  BY VersionRows DEF MarketShape, MarketTyped, VersionsThere
<1>1. CASE PickLatest(c)
  <2>. DEFINE head == Newest j == [job[c] EXCEPT !.head = head]
  <2>1. pc'[c] = "queueing" /\ job'[c] = j /\ \A d \in Clerks \ {c} : pc'[d] = pc[d] /\ job'[d] = job[d]
    BY <1>0, <1>1, AdvanceWrites DEF PickLatest
  <2>2. head \in 0..Len(versions) /\ head \in Nat
    BY <1>0, NewestIsVersion
  <2>. HIDE DEF head
  <2>3. LET old == job[c] IN
        /\ j.item = old.item /\ j.at = old.at /\ j.ready = old.ready /\ j.edits = old.edits
        /\ j.base = old.base /\ j.saw = old.saw /\ j.head = head /\ j.day = old.day /\ j \in JobRecord
    BY <1>0, <2>2 DEF JobRecord
  <2>. HIDE DEF j
  <2>. QED
    BY <1>0, <1>1, <2>1, <2>2, <2>3 DEF PickLatest, Undisturbed, itemVars, zoneVars
<1>2. CASE LockLatest(c)
  <2>. DEFINE j == [job[c] EXCEPT !.old = current]
  <2>1. pc'[c] = "inserting" /\ job'[c] = j /\ \A d \in Clerks \ {c} : pc'[d] = pc[d] /\ job'[d] = job[d]
    BY <1>0, <1>2, AdvanceWrites DEF LockLatest
  <2>3. LET old == job[c] IN
        /\ j.item = old.item /\ j.at = old.at /\ j.ready = old.ready /\ j.edits = old.edits
        /\ j.base = old.base /\ j.saw = old.saw /\ j.head = old.head /\ j.day = old.day /\ j \in JobRecord
    BY <1>0 DEF JobRecord
  <2>4. row'[c] = job[c].head /\ \A d \in Clerks \ {c} : row'[d] = row[d]
    BY <1>0, <1>2 DEF LockLatest
  <2>. HIDE DEF j
  <2>. QED
    BY <1>0, <1>2, <2>1, <2>3, <2>4 DEF LockLatest, Undisturbed, itemVars, zoneVars
<1>. QED
  BY <1>1, <1>2

LEMMA RollBackWrites ==
  ASSUME MarketTyped, NEW c \in Clerks, RollBack(c)
  PROVE  /\ Others(c) /\ pc[c] # "idle" /\ Released(c)
         /\ late' = late \ {c}
         /\ UNCHANGED <<verdict, decided, applied, versions, current, today, decisions, crossed>>
BY ReleaseWrites DEF RollBack, itemVars, zoneVars

LEMMA RejectWrites ==
  ASSUME MarketTyped, NEW i \in Items, Reject(i)
  PROVE  /\ \A c \in Clerks : i \notin holds[c]
         /\ applied[i] = 0
         /\ \A k \in Items \ {i} : verdict'[k] = verdict[k] /\ decided'[k] = decided[k]
         /\ verdict'[i] = "rejected" /\ decided'[i] = 0 /\ decisions' = decisions + 1
         /\ late' = late \cup {d \in Clerks : pc[d] \notin {"idle", "decided"}}
         /\ UNCHANGED <<applied, versions, current, today, pc, job, holds, row, crossed>>
BY DEF Reject, MarketTyped, zoneVars

LEMMA NextDayWrites ==
  ASSUME MarketTyped, NextDay
  PROVE  /\ today' = today + 1 /\ today' \in Days
         /\ UNCHANGED <<verdict, decided, applied, versions, current, decisions, pc, job, holds, row, late, crossed>>
BY MarketAssumption DEF NextDay, MarketTyped, Days, itemVars, zoneVars

(* The version a save writes.                                              *)
LEMMA NewVersionIs ==
  ASSUME MarketShape, NEW c \in Clerks, job[c].base = 0 => Metrics \subseteq Covered(c)
  PROVE  LET N == Len(versions) + 1 new == NewVersion(c) IN
         /\ new \in VersionRow
         /\ new.no \in 1..N /\ new.from = job[c].from /\ new.saved = job[c].day /\ ~new.retired
         /\ new.changed = Covered(c)
         /\ new.saw = IF job[c].edits = Metrics THEN Len(versions) ELSE job[c].saw
         /\ \A m \in job[c].edits : new.rate[m] = N
         /\ \A m \in Metrics \ job[c].edits :
              \/ new.rate[m] \in job[c].ready /\ MetricOf[new.rate[m]] = m
              \/ m \notin Covered(c) /\ job[c].base \in VersionIds /\ new.rate[m] = versions[job[c].base].rate[m]
<1>. DEFINE N == Len(versions) + 1
            from(m) == {i \in job[c].ready : MetricOf[i] = m}
            rate == [m \in Metrics |-> IF m \in job[c].edits THEN N
                                       ELSE IF from(m) # {} THEN CHOOSE i \in from(m) : TRUE
                                       ELSE versions[job[c].base].rate[m]]
            no == IF job[c].head = 0 THEN 1 ELSE versions[job[c].head].no + 1
            saw == IF job[c].edits = Metrics THEN Len(versions) ELSE job[c].saw
            new == NewVersion(c)
<1>0. /\ MarketTyped /\ job[c] \in JobRecord /\ Len(versions) \in Nat
      /\ {job[c].base, job[c].saw, job[c].head} \subseteq 0..Len(versions)
      /\ \A v \in VersionIds : versions[v] \in VersionRow /\ versions[v].no \in 1..v
      /\ VersionIds = 1..Len(versions)
  BY VersionRows DEF MarketShape, MarketTyped, VersionsThere, VersionIds
<1>1. new = [rate |-> rate, changed |-> Covered(c), no |-> no, from |-> job[c].from,
             saved |-> job[c].day, retired |-> FALSE, saw |-> saw]
  BY DEF NewVersion, Covered
<1>2. no \in 1..N
  BY <1>0
<1>3. saw \in Nat /\ Covered(c) \subseteq Metrics /\ job[c].from \in Days /\ job[c].day \in Days
  BY <1>0, MarketAssumption DEF JobRecord, Covered
<1>4. ASSUME NEW m \in Metrics, m \notin job[c].edits
      PROVE  \/ rate[m] \in job[c].ready /\ MetricOf[rate[m]] = m
             \/ m \notin Covered(c) /\ job[c].base \in VersionIds /\ rate[m] = versions[job[c].base].rate[m]
  <2>1. CASE from(m) # {}
    <3>1. rate[m] = CHOOSE i \in from(m) : TRUE
      BY <1>4, <2>1
    <3>2. (CHOOSE i \in from(m) : TRUE) \in from(m)
      BY <2>1
    <3>. QED
      BY <3>1, <3>2
  <2>2. CASE from(m) = {}
    <3>1. rate[m] = versions[job[c].base].rate[m]
      BY <1>4, <2>2
    <3>2. m \notin Covered(c)
      BY <1>4, <2>2 DEF Covered
    <3>3. job[c].base \in VersionIds
      BY <1>0, <1>4, <3>2
    <3>. QED
      BY <3>1, <3>2, <3>3
  <2>. QED
    BY <2>1, <2>2
<1>5. \A m \in job[c].edits : rate[m] = N
  BY <1>0 DEF JobRecord
<1>6. \A m \in Metrics : rate[m] \in Items \cup Nat
  <2>1. ASSUME NEW m \in Metrics PROVE rate[m] \in Items \cup Nat
    <3>1. CASE m \in job[c].edits
      BY <1>0, <1>5, <3>1
    <3>2. CASE m \notin job[c].edits
      <4>1. job[c].ready \subseteq Items
        BY <1>0 DEF JobRecord
      <4>2. \A v \in VersionIds : versions[v].rate[m] \in Items \cup Nat
        BY <1>0 DEF VersionRow
      <4>. QED
        BY <1>4, <3>2, <4>1, <4>2
    <3>. QED
      BY <3>1, <3>2
  <2>. QED
    BY <2>1
<1>7. rate \in [Metrics -> Items \cup Nat]
  <2>1. rate = [m \in Metrics |-> rate[m]]
    OBVIOUS
  <2>. HIDE DEF rate
  <2>. QED
    BY <1>6, <2>1
<1>. HIDE DEF rate, no, saw, new
<1>8. new \in VersionRow /\ new.rate = rate /\ new.no = no /\ new.saw = saw /\ new.from = job[c].from
      /\ new.saved = job[c].day /\ new.changed = Covered(c) /\ new.retired = FALSE
  BY <1>0, <1>1, <1>2, <1>3, <1>7 DEF VersionRow
<1>9. saw = IF job[c].edits = Metrics THEN Len(versions) ELSE job[c].saw
  BY DEF saw
<1>. QED
  BY <1>2, <1>4, <1>5, <1>8, <1>9 DEF new

LEMMA InsertWrites ==
  ASSUME MarketShape, ReadyPicked, NEW c \in Clerks, Insert(c)
  PROVE  LET N == Len(versions) + 1 IN
         /\ Others(c) /\ pc[c] = "inserting" /\ Released(c)
         /\ Len(versions') = N /\ versions' \in Seq(VersionRow)
         /\ \A v \in VersionIds : versions'[v] = versions[v]
         /\ versions'[N] = NewVersion(c)
         /\ current' = N
         /\ \A i \in Items : applied'[i] = IF i \in job[c].ready THEN N ELSE applied[i]
         /\ \A i \in Items : verdict'[i] = IF i \in job[c].item THEN "approved" ELSE verdict[i]
         /\ \A i \in Items : decided'[i] = IF i \in job[c].item THEN job[c].at ELSE decided[i]
         /\ late' = (late \ {c}) \cup {d \in Clerks \ {c} : pc[d] \notin {"idle", "decided"}}
         /\ crossed' = (crossed \/ c \in late)
         /\ UNCHANGED <<today, decisions>>
<1>0. MarketTyped /\ Len(versions) \in Nat /\ VersionIds = 1..Len(versions) /\ versions \in Seq(VersionRow)
  BY VersionRows DEF MarketShape, MarketTyped, VersionIds
<1>1. NewVersion(c) \in VersionRow
  BY NewVersionIs DEF ReadyPicked, Insert, Saving
<1>2. versions' = Append(versions, NewVersion(c))
  BY DEF Insert
<1>3. /\ Len(versions') = Len(versions) + 1 /\ versions' \in Seq(VersionRow)
      /\ \A v \in VersionIds : versions'[v] = versions[v]
      /\ versions'[Len(versions) + 1] = NewVersion(c)
  BY <1>0, <1>1, <1>2
<1>4. Others(c) /\ Released(c)
  BY <1>0, ReleaseWrites DEF Insert
<1>. QED
  BY <1>3, <1>4 DEF Insert, CommitDecision, MarkApplied, Overtake

LEMMA StillFunctions ==
  ASSUME MarketTyped, [MarketNext]_marketVars
  PROVE  /\ pc' = [d \in Clerks |-> pc'[d]] /\ job' = [d \in Clerks |-> job'[d]]
         /\ holds' = [d \in Clerks |-> holds'[d]] /\ row' = [d \in Clerks |-> row'[d]]
         /\ verdict' = [i \in Items |-> verdict'[i]] /\ decided' = [i \in Items |-> decided'[i]]
         /\ applied' = [i \in Items |-> applied'[i]]
<1>. DEFINE Goal == /\ pc' = [d \in Clerks |-> pc'[d]] /\ job' = [d \in Clerks |-> job'[d]]
                    /\ holds' = [d \in Clerks |-> holds'[d]] /\ row' = [d \in Clerks |-> row'[d]]
                    /\ verdict' = [i \in Items |-> verdict'[i]] /\ decided' = [i \in Items |-> decided'[i]]
                    /\ applied' = [i \in Items |-> applied'[i]]
<1>0. /\ pc = [d \in Clerks |-> pc[d]] /\ job = [d \in Clerks |-> job[d]]
      /\ holds = [d \in Clerks |-> holds[d]] /\ row = [d \in Clerks |-> row[d]]
      /\ verdict = [i \in Items |-> verdict[i]] /\ decided = [i \in Items |-> decided[i]]
      /\ applied = [i \in Items |-> applied[i]]
  BY DEF MarketTyped
<1>a. ASSUME NEW c, Release(c)
      PROVE  /\ pc' = [d \in Clerks |-> pc'[d]] /\ job' = [d \in Clerks |-> job'[d]]
             /\ holds' = [d \in Clerks |-> holds'[d]] /\ row' = [d \in Clerks |-> row'[d]]
  BY <1>0, <1>a DEF Release
<1>b. ASSUME NEW c, NEW at, NEW j, Advance(c, at, j)
      PROVE  pc' = [d \in Clerks |-> pc'[d]] /\ job' = [d \in Clerks |-> job'[d]]
  BY <1>0, <1>b DEF Advance
<1>c. ASSUME NEW c, CommitDecision(c)
      PROVE  verdict' = [i \in Items |-> verdict'[i]] /\ decided' = [i \in Items |-> decided'[i]]
  BY <1>c DEF CommitDecision
<1>1. ASSUME NEW c \in Clerks, NEW i \in Items, Approve(c, i)
      PROVE  Goal
  BY <1>1, <1>0, <1>b DEF Undisturbed, itemVars, zoneVars, Approve
<1>2. ASSUME NEW c \in Clerks, ReadReady(c)
      PROVE  Goal
  BY <1>2, <1>0, <1>b DEF Undisturbed, itemVars, zoneVars, ReadReady
<1>3. ASSUME NEW c \in Clerks, LockReady(c)
      PROVE  Goal
  BY <1>3, <1>0, <1>b DEF Undisturbed, itemVars, zoneVars, LockReady
<1>4. ASSUME NEW c \in Clerks, CommitWaiting(c)
      PROVE  Goal
  BY <1>4, <1>0, <1>a, <1>c DEF Undisturbed, itemVars, zoneVars, CommitWaiting
<1>5. ASSUME NEW c \in Clerks, Create(c) \/ Update(c) \/ RetireRead(c)
      PROVE  Goal
  BY <1>5, <1>0, <1>b DEF Undisturbed, itemVars, zoneVars, Create, Update, RetireRead
<1>6. ASSUME NEW c \in Clerks, RetireWrite(c)
      PROVE  Goal
  BY <1>6, <1>0, <1>a DEF Undisturbed, itemVars, zoneVars, RetireWrite
<1>7. ASSUME NEW c \in Clerks, PickLatest(c) \/ LockLatest(c)
      PROVE  Goal
  BY <1>7, <1>0, <1>b DEF Undisturbed, itemVars, zoneVars, PickLatest, LockLatest
<1>8. ASSUME NEW c \in Clerks, Insert(c)
      PROVE  Goal
  BY <1>8, <1>0, <1>a, <1>c DEF Undisturbed, itemVars, zoneVars, Insert, MarkApplied
<1>9. ASSUME NEW c \in Clerks, RollBack(c)
      PROVE  Goal
  BY <1>9, <1>0, <1>a DEF Undisturbed, itemVars, zoneVars, RollBack
<1>10. ASSUME NEW i \in Items, Reject(i)
      PROVE  Goal
  BY <1>10, <1>0 DEF Undisturbed, itemVars, zoneVars, Reject
<1>11. ASSUME NextDay
      PROVE  Goal
  BY <1>11, <1>0 DEF Undisturbed, itemVars, zoneVars, NextDay
<1>12. ASSUME UNCHANGED marketVars
      PROVE  Goal
  BY <1>12, <1>0 DEF marketVars, itemVars, zoneVars
<1>. QED
  BY <1>1, <1>2, <1>3, <1>4, <1>5, <1>6, <1>7, <1>8, <1>9, <1>10, <1>11, <1>12 DEF MarketNext, Saves

LEMMA MarketShapeInit == MarketInit => MarketShape
<1>. SUFFICES ASSUME MarketInit PROVE MarketShape
  OBVIOUS
<1>1. versions \in Seq(VersionRow) /\ Len(versions) = 0
  BY DEF MarketInit
<1>2. job \in [Clerks -> JobRecord] /\ today \in Days
  BY JobsTyped, MarketAssumption DEF MarketInit, Days
<1>3. \A c \in Clerks : job[c] = NoJob
  BY DEF MarketInit
<1>4. /\ verdict \in [Items -> {"pending", "approved", "rejected"}] /\ decided \in [Items -> Nat]
      /\ applied \in [Items -> Nat] /\ holds \in [Clerks -> SUBSET Items] /\ row \in [Clerks -> Nat]
      /\ pc \in [Clerks -> {"idle", "decided", "reading", "based", "queueing", "inserting", "retiring"}]
  BY DEF MarketInit
<1>. QED
  <2>1. MarketTyped
    BY <1>1, <1>2, <1>4 DEF MarketInit, MarketTyped
  <2>. QED
    BY <1>1, <1>3, <2>1, JobsTyped DEF MarketShape, VersionsThere, VersionIds

(* What a step leaves of the shape, request by request.                    *)
LEMMA ShapeOfOthers ==
  ASSUME MarketShape, NEW c \in Clerks, Others(c), Len(versions') \in Nat, Len(versions') >= Len(versions),
         pc'[c] \in {"idle", "decided", "reading", "based", "queueing", "inserting", "retiring"},
         job'[c] \in JobRecord, holds'[c] \in SUBSET Items, row'[c] \in Nat,
         {job'[c].base, job'[c].saw, job'[c].head} \subseteq 0..Len(versions')
  PROVE  \A d \in Clerks :
           /\ pc'[d] \in {"idle", "decided", "reading", "based", "queueing", "inserting", "retiring"}
           /\ job'[d] \in JobRecord /\ holds'[d] \in SUBSET Items /\ row'[d] \in Nat
           /\ {job'[d].base, job'[d].saw, job'[d].head} \subseteq 0..Len(versions')
<1>1. ASSUME NEW d \in Clerks \ {c}
      PROVE  /\ pc'[d] \in {"idle", "decided", "reading", "based", "queueing", "inserting", "retiring"}
             /\ job'[d] \in JobRecord /\ holds'[d] \in SUBSET Items /\ row'[d] \in Nat
             /\ {job'[d].base, job'[d].saw, job'[d].head} \subseteq 0..Len(versions')
  <2>1. /\ pc[d] \in {"idle", "decided", "reading", "based", "queueing", "inserting", "retiring"}
        /\ job[d] \in JobRecord /\ holds[d] \in SUBSET Items /\ row[d] \in Nat
        /\ {job[d].base, job[d].saw, job[d].head} \subseteq 0..Len(versions) /\ Len(versions) \in Nat
    BY VersionRows DEF MarketShape, MarketTyped, VersionsThere
  <2>. QED
    BY <2>1, <1>1 DEF Others
<1>. QED
  BY <1>1

LEMMA MarketShapeStep ==
  ASSUME MarketShape, ReadyPicked, [MarketNext]_marketVars
  PROVE  MarketShape'
<1>. DEFINE Clerk(d) == /\ pc'[d] \in {"idle", "decided", "reading", "based", "queueing", "inserting", "retiring"}
                        /\ job'[d] \in JobRecord /\ holds'[d] \in SUBSET Items /\ row'[d] \in Nat
                        /\ {job'[d].base, job'[d].saw, job'[d].head} \subseteq 0..Len(versions')
            Rest == /\ \A i \in Items : /\ verdict'[i] \in {"pending", "approved", "rejected"}
                                        /\ decided'[i] \in Nat /\ applied'[i] \in Nat
                    /\ versions' \in Seq(VersionRow) /\ \A v \in 1..Len(versions') : versions'[v].no \in 1..v
                    /\ current' \in {0, Len(versions')}
                    /\ today' \in Days /\ decisions' \in Nat
                    /\ late' \subseteq Clerks /\ crossed' \in BOOLEAN
            Goal == (\A d \in Clerks : Clerk(d)) /\ Rest
<1>0. /\ MarketTyped /\ Len(versions) \in Nat /\ VersionIds = 1..Len(versions)
      /\ \A d \in Clerks :
           /\ pc[d] \in {"idle", "decided", "reading", "based", "queueing", "inserting", "retiring"}
           /\ job[d] \in JobRecord /\ holds[d] \in SUBSET Items /\ row[d] \in Nat
           /\ {job[d].base, job[d].saw, job[d].head} \subseteq 0..Len(versions)
      /\ \A i \in Items : /\ verdict[i] \in {"pending", "approved", "rejected"}
                          /\ decided[i] \in Nat /\ applied[i] \in Nat
      /\ versions \in Seq(VersionRow) /\ \A v \in 1..Len(versions) : versions[v].no \in 1..v
      /\ current \in {0, Len(versions)} /\ today \in Days /\ decisions \in Nat
      /\ late \subseteq Clerks /\ crossed \in BOOLEAN
  BY VersionRows DEF MarketShape, MarketTyped, VersionsThere, VersionIds
<1>a. ASSUME UNCHANGED <<verdict, decided, applied, versions, current, late, crossed>>, today' \in Days, decisions' \in Nat
      PROVE  Rest
  BY <1>0, <1>a
<1>b. NoJob \in JobRecord /\ {NoJob.base, NoJob.saw, NoJob.head} \subseteq 0..Len(versions) /\ Len(versions) >= Len(versions)
  BY <1>0, JobsTyped
<1>c. \A d \in Clerks : job[d].item \subseteq Items /\ job[d].ready \subseteq Items /\ job[d].at \in Nat
  BY <1>0 DEF JobRecord
<1>1. ASSUME NEW c \in Clerks, NEW i \in Items, Approve(c, i)
      PROVE  Goal
  <2>1. Clerk(c) /\ Len(versions') = Len(versions)
    BY <1>0, <1>1, ApproveWrites
  <2>2. \A d \in Clerks : Clerk(d)
    BY <1>0, <1>b, <1>1, <2>1, ShapeOfOthers, ApproveWrites
  <2>3. Rest
    BY <1>0, <1>a, <1>1, ApproveWrites
  <2>. QED
    BY <2>2, <2>3
<1>2. ASSUME NEW c \in Clerks, ReadReady(c)
      PROVE  Goal
  <2>1. Clerk(c) /\ Len(versions') = Len(versions)
    BY <1>0, <1>2, ReadReadyWrites
  <2>2. \A d \in Clerks : Clerk(d)
    BY <1>0, <1>b, <1>2, <2>1, ShapeOfOthers, ReadReadyWrites
  <2>3. Rest
    BY <1>0, <1>a, <1>2, ReadReadyWrites
  <2>. QED
    BY <2>2, <2>3
<1>3. ASSUME NEW c \in Clerks, LockReady(c)
      PROVE  Goal
  <2>1. Clerk(c) /\ Len(versions') = Len(versions)
    <3>1. Live(job[c].day) \in 0..Len(versions) /\ LockedReady(c) \subseteq Items
      BY <1>0, <1>c, TopIsVersion DEF LockedReady
    <3>. QED
      BY <1>0, <1>3, <3>1, LockReadyWrites
  <2>2. \A d \in Clerks : Clerk(d)
    BY <1>0, <1>b, <1>3, <2>1, ShapeOfOthers, LockReadyWrites
  <2>3. Rest
    BY <1>0, <1>a, <1>3, LockReadyWrites
  <2>. QED
    BY <2>2, <2>3
<1>4. ASSUME NEW c \in Clerks, CommitWaiting(c)
      PROVE  Goal
  <2>1. Clerk(c) /\ Len(versions') = Len(versions)
    BY <1>0, <1>b, <1>4, CommitWaitingWrites DEF Released
  <2>2. \A d \in Clerks : Clerk(d)
    BY <1>0, <1>b, <1>4, <2>1, ShapeOfOthers, CommitWaitingWrites
  <2>3. Rest
    BY <1>0, <1>c, <1>4, CommitWaitingWrites
  <2>. QED
    BY <2>2, <2>3
<1>5. ASSUME NEW c \in Clerks, Create(c) \/ Update(c) \/ RetireRead(c)
      PROVE  Goal
  <2>1. Clerk(c) /\ Len(versions') = Len(versions)
    BY <1>0, <1>5, AdministratorWrites
  <2>2. \A d \in Clerks : Clerk(d)
    BY <1>0, <1>b, <1>5, <2>1, ShapeOfOthers, AdministratorWrites
  <2>3. Rest
    BY <1>0, <1>a, <1>5, AdministratorWrites
  <2>. QED
    BY <2>2, <2>3
<1>6. ASSUME NEW c \in Clerks, RetireWrite(c)
      PROVE  Goal
  <2>1. Clerk(c) /\ Len(versions') = Len(versions)
    BY <1>0, <1>b, <1>6, RetireWriteWrites DEF Released
  <2>2. \A d \in Clerks : Clerk(d)
    BY <1>0, <1>b, <1>6, <2>1, ShapeOfOthers, RetireWriteWrites
  <2>3. \A v \in 1..Len(versions') : versions'[v].no \in 1..v
    BY <1>0, <1>6, <2>1, RetireWriteWrites
  <2>5. current' \in {0, Len(versions')} /\ versions' \in Seq(VersionRow) /\ late' \subseteq Clerks /\ crossed' \in BOOLEAN
    BY ZenonT(60), <1>0, <1>6, <2>1, RetireWriteWrites
  <2>6. UNCHANGED <<verdict, decided, applied, today, decisions>>
    BY <1>0, <1>6, RetireWriteWrites
  <2>4. Rest
    BY <1>0, <2>3, <2>5, <2>6
  <2>. QED
    BY <2>2, <2>4
<1>7. ASSUME NEW c \in Clerks, PickLatest(c) \/ LockLatest(c)
      PROVE  Goal
  <2>1. \A d \in Clerks : Clerk(d)
    <3>1. Clerk(c)
      BY <1>0, <1>7, LatestWrites
    <3>. QED
      BY SMTT(30), <1>0, <1>7, <3>1, LatestWrites
  <2>3. Rest
    BY <1>0, <1>a, <1>7, LatestWrites
  <2>. QED
    BY <2>1, <2>3
<1>8. ASSUME NEW c \in Clerks, Insert(c)
      PROVE  Goal
  <2>. DEFINE N == Len(versions) + 1
  <2>1. Clerk(c) /\ Len(versions') = N /\ N \in Nat /\ N >= Len(versions)
    BY <1>0, <1>b, <1>8, InsertWrites DEF Released
  <2>2. \A d \in Clerks : Clerk(d)
    BY <1>0, <1>b, <1>8, <2>1, ShapeOfOthers, InsertWrites
  <2>3. \A v \in 1..N : versions'[v].no \in 1..v
    <3>1. job[c].base = 0 => Metrics \subseteq Covered(c)
      BY <1>8, InsertWrites DEF ReadyPicked, Saving
    <3>2. versions'[N].no \in 1..N
      BY <1>8, <3>1, InsertWrites, NewVersionIs
    <3>3. \A v \in 1..Len(versions) : versions'[v] = versions[v]
      BY <1>0, <1>8, InsertWrites
    <3>. QED
      BY <1>0, <3>2, <3>3
  <2>4. Rest
    BY ZenonT(60), <1>0, <1>c, <1>8, <2>1, <2>3, InsertWrites
  <2>. QED
    BY <2>2, <2>4
<1>9. ASSUME NEW c \in Clerks, RollBack(c)
      PROVE  Goal
  <2>1. Clerk(c) /\ Len(versions') = Len(versions)
    BY <1>0, <1>b, <1>9, RollBackWrites DEF Released
  <2>2. \A d \in Clerks : Clerk(d)
    BY <1>0, <1>b, <1>9, <2>1, ShapeOfOthers, RollBackWrites
  <2>3. Rest
    BY <1>0, <1>c, <1>9, RollBackWrites
  <2>. QED
    BY <2>2, <2>3
<1>10. ASSUME NEW i \in Items, Reject(i)
      PROVE  Goal
  BY SMTT(30), <1>10, RejectWrites, <1>0
<1>11. ASSUME NextDay
      PROVE  Goal
  <2>1. UNCHANGED <<pc, job, holds, row, versions>>
    BY <1>0, <1>11, NextDayWrites
  <2>2. \A d \in Clerks : Clerk(d)
    BY <1>0, <2>1
  <2>3. Rest
    BY <1>0, <1>a, <1>11, NextDayWrites
  <2>. QED
    BY <2>2, <2>3
<1>12. ASSUME UNCHANGED marketVars
      PROVE  Goal
  <2>1. UNCHANGED <<pc, job, holds, row, versions>>
    BY <1>12 DEF marketVars, itemVars, zoneVars
  <2>2. \A d \in Clerks : Clerk(d)
    BY <1>0, <2>1
  <2>3. Rest
    BY <1>0, <1>a, <1>12 DEF marketVars, itemVars, zoneVars
  <2>. QED
    BY <2>2, <2>3
<1>13. Goal
  <2>. HIDE DEF Clerk, Rest
  <2>. QED
    BY <1>1, <1>2, <1>3, <1>4, <1>5, <1>6, <1>7, <1>8, <1>9, <1>10, <1>11, <1>12 DEF MarketNext, Saves
<1>14. VersionIds' = 1..Len(versions')
  BY DEF VersionIds
<1>. QED
  <2>1. MarketTyped'
    BY <1>13, StillFunctions, <1>0 DEF MarketTyped
  <2>. QED
    BY <1>13, <1>14, <2>1 DEF MarketShape, VersionsThere

LEMMA HoldsAreItems ==
  ASSUME MarketShape
  PROVE  /\ MarketTyped
         /\ \A c \in Clerks : holds[c] \subseteq Items /\ job[c].item \subseteq Items /\ job[c].ready \subseteq Items
BY DEF MarketShape, MarketTyped, JobRecord

LEMMA ChosenIsLocked ==
  ASSUME NEW c
  PROVE  Chosen(c) \subseteq LockedReady(c) /\ \A i \in LockedReady(c) : i \in job[c].ready /\ (i \in job[c].item \/ Waiting(i))
BY DEF Chosen, LockedReady

LEMMA ItemsLockedStep ==
  ASSUME MarketShape, ReadyPicked, ItemsLocked, [MarketNext]_marketVars
  PROVE  ItemsLocked'
<1>0. MarketTyped /\ \A d \in Clerks : holds[d] \subseteq Items
  BY HoldsAreItems
<1>a. /\ \A d \in Clerks : job[d].item \subseteq holds[d]
      /\ \A d \in Clerks : pc[d] \in Saving => job[d].ready \subseteq holds[d]
      /\ \A d, e \in Clerks : d # e => holds[d] \cap holds[e] = {}
      /\ \A d \in Clerks : \A i \in holds[d] : applied[i] = 0
  BY DEF ItemsLocked
<1>b. ASSUME NEW c \in Clerks, Others(c), \A i \in Items : applied'[i] = applied[i] \/ i \in holds[c],
             job'[c].item \subseteq holds'[c], pc'[c] \in Saving => job'[c].ready \subseteq holds'[c],
             \A i \in holds'[c] : applied'[i] = 0 /\ \A d \in Clerks \ {c} : i \notin holds[d]
      PROVE  ItemsLocked'
  <2>1. \A d \in Clerks \ {c} : pc'[d] = pc[d] /\ job'[d] = job[d] /\ holds'[d] = holds[d]
    BY <1>b DEF Others
  <2>2. \A d \in Clerks : job'[d].item \subseteq holds'[d] /\ (pc'[d] \in Saving => job'[d].ready \subseteq holds'[d])
    BY <1>a, <1>b, <2>1
  <2>3. \A d, e \in Clerks : d # e => holds'[d] \cap holds'[e] = {}
    <3>1. ASSUME NEW d \in Clerks, NEW e \in Clerks, d # e PROVE holds'[d] \cap holds'[e] = {}
      <4>1. CASE d = c
        BY <1>b, <2>1, <3>1, <4>1
      <4>2. CASE e = c
        BY <1>b, <2>1, <3>1, <4>2
      <4>3. CASE d # c /\ e # c
        BY <1>a, <2>1, <3>1, <4>3
      <4>. QED
        BY <4>1, <4>2, <4>3
    <3>. QED
      BY <3>1
  <2>4. \A d \in Clerks : \A i \in holds'[d] : applied'[i] = 0
    <3>1. ASSUME NEW d \in Clerks \ {c}, NEW i \in holds[d] PROVE applied'[i] = 0
      BY <1>0, <1>a, <1>b, <3>1
    <3>. QED
      BY <1>b, <2>1, <3>1
  <2>. QED
    BY <2>2, <2>3, <2>4 DEF ItemsLocked, Saving
<1>c. NoJob.item = {} /\ NoJob.ready = {}
  BY JobsTyped
<1>1. ASSUME NEW c \in Clerks, NEW i \in Items, Approve(c, i)
      PROVE  ItemsLocked'
  BY <1>0, <1>1, <1>b, ApproveWrites DEF Saving
<1>2. ASSUME NEW c \in Clerks, ReadReady(c)
      PROVE  ItemsLocked'
  BY <1>0, <1>2, <1>a, <1>b, ReadReadyWrites DEF Saving
<1>3. ASSUME NEW c \in Clerks, LockReady(c)
      PROVE  ItemsLocked'
  <2>1. \A i \in LockedReady(c) : applied[i] = 0
    BY <1>a, ChosenIsLocked DEF Waiting
  <2>2. job'[c].item \subseteq holds'[c] /\ job'[c].ready \subseteq holds'[c] /\ UNCHANGED applied /\ Others(c)
    BY <1>3, <1>a, LockReadyWrites, ChosenIsLocked
  <2>3. \A i \in holds'[c] : applied'[i] = 0 /\ \A d \in Clerks \ {c} : i \notin holds[d]
    BY <1>3, <1>a, <2>1, LockReadyWrites
  <2>. QED
    BY <1>b, <2>2, <2>3
<1>4. ASSUME NEW c \in Clerks, CommitWaiting(c)
      PROVE  ItemsLocked'
  BY <1>0, <1>4, <1>b, <1>c, CommitWaitingWrites DEF Released, Saving
<1>5. ASSUME NEW c \in Clerks, Create(c) \/ Update(c) \/ RetireRead(c)
      PROVE  ItemsLocked'
  BY <1>0, <1>5, <1>a, <1>b, AdministratorWrites
<1>6. ASSUME NEW c \in Clerks, RetireWrite(c)
      PROVE  ItemsLocked'
  BY <1>0, <1>6, <1>b, <1>c, RetireWriteWrites DEF Released, Saving
<1>7. ASSUME NEW c \in Clerks, PickLatest(c) \/ LockLatest(c)
      PROVE  ItemsLocked'
  <2>1. holds' = holds /\ applied' = applied
    BY <1>7, LatestWrites
  <2>2. \A d \in Clerks : job'[d].item = job[d].item /\ job'[d].ready = job[d].ready
    BY <1>7, LatestWrites
  <2>3. \A d \in Clerks : pc'[d] \in Saving => pc[d] \in Saving
    BY <1>7, LatestWrites DEF Saving
  <2>. QED
    BY <1>a, <2>1, <2>2, <2>3 DEF ItemsLocked, Saving
<1>8. ASSUME NEW c \in Clerks, Insert(c)
      PROVE  ItemsLocked'
  <2>1. Others(c) /\ Released(c) /\ job[c].ready \subseteq holds[c]
    BY <1>8, <1>a, InsertWrites DEF Saving
  <2>2. \A i \in Items : applied'[i] = applied[i] \/ i \in holds[c]
    BY <1>8, <2>1, InsertWrites
  <2>. QED
    BY <1>b, <1>c, <2>1, <2>2 DEF Released
<1>9. ASSUME NEW c \in Clerks, RollBack(c)
      PROVE  ItemsLocked'
  BY <1>0, <1>9, <1>b, <1>c, RollBackWrites DEF Released, Saving
<1>10. ASSUME NEW i \in Items, Reject(i)
      PROVE  ItemsLocked'
  <2>1. UNCHANGED <<applied, pc, job, holds>>
    BY <1>0, <1>10, RejectWrites
  <2>. QED
    BY <2>1, <1>a DEF ItemsLocked, Saving
<1>11. ASSUME NextDay
      PROVE  ItemsLocked'
  <2>1. UNCHANGED <<applied, pc, job, holds>>
    BY <1>0, <1>11, NextDayWrites
  <2>. QED
    BY <2>1, <1>a DEF ItemsLocked, Saving
<1>12. ASSUME UNCHANGED marketVars
      PROVE  ItemsLocked'
  <2>1. UNCHANGED <<applied, pc, job, holds>>
    BY <1>12 DEF marketVars, itemVars
  <2>. QED
    BY <2>1, <1>a DEF ItemsLocked, Saving
<1>. QED
  BY <1>1, <1>2, <1>3, <1>4, <1>5, <1>6, <1>7, <1>8, <1>9, <1>10, <1>11, <1>12 DEF MarketNext, Saves

LEMMA DecisionsNumberedStep ==
  ASSUME MarketShape, ReadyPicked, DecisionsNumbered, [MarketNext]_marketVars
  PROVE  DecisionsNumbered'
<1>0. /\ MarketTyped /\ decisions \in Nat
      /\ \A i \in Items : decided[i] \in Nat /\ applied[i] \in Nat
      /\ \A d \in Clerks : job[d].item \subseteq Items /\ job[d].at \in Nat
  BY DEF MarketShape, MarketTyped, JobRecord
<1>a. /\ \A i \in Items : decided[i] <= decisions /\ (Waiting(i) => decided[i] # 0)
      /\ \A i, k \in Items : decided[i] = decided[k] /\ decided[i] # 0 => i = k
      /\ \A d \in Clerks : \A i, k \in job[d].item : i = k
      /\ \A d \in Clerks : job[d].item # {} =>
           job[d].at \in 1..decisions /\ \A i \in Items : decided[i] # job[d].at
      /\ \A d, e \in Clerks : d # e /\ job[d].item # {} /\ job[e].item # {} => job[d].at # job[e].at
  BY DEF DecisionsNumbered
<1>b. ASSUME UNCHANGED <<verdict, decided, applied, decisions>>,
             \A d \in Clerks : job'[d].item = {} \/ (job'[d].item = job[d].item /\ job'[d].at = job[d].at)
      PROVE  DecisionsNumbered'
  <2>1. \A d \in Clerks : job'[d].item # {} => job'[d].item = job[d].item /\ job'[d].at = job[d].at
    BY <1>b
  <2>2. \A i \in Items : Waiting(i)' <=> Waiting(i)
    BY <1>b DEF Waiting
  <2>. QED
    BY <1>a, <1>b, <2>1, <2>2 DEF DecisionsNumbered
<1>c. ASSUME NEW c \in Clerks, Others(c), Released(c), decisions' = decisions,
             \A i \in Items : verdict'[i] = IF i \in job[c].item THEN "approved" ELSE verdict[i],
             \A i \in Items : decided'[i] = IF i \in job[c].item THEN job[c].at ELSE decided[i],
             \A i \in Items : applied'[i] = 0 => applied[i] = 0
      PROVE  DecisionsNumbered'
  <2>1. job'[c].item = {} /\ \A d \in Clerks \ {c} : job'[d] = job[d]
    BY <1>c, JobsTyped DEF Others, Released
  <2>2. \A i \in Items : Waiting(i)' => i \in job[c].item \/ Waiting(i)
    BY <1>c DEF Waiting
  <2>3. \A i \in Items : decided'[i] <= decisions /\ (Waiting(i)' => decided'[i] # 0)
    BY <1>0, <1>a, <1>c, <2>2
  <2>4. ASSUME NEW i \in Items, NEW k \in Items, decided'[i] = decided'[k], decided'[i] # 0
        PROVE  i = k
    <3>1. CASE i \in job[c].item /\ k \in job[c].item
      BY <1>a, <3>1
    <3>2. CASE ~(i \in job[c].item /\ k \in job[c].item)
      BY <1>a, <1>c, <2>4, <3>2
    <3>. QED
      BY <3>1, <3>2
  <2>5. \A d \in Clerks : job'[d].item # {} =>
           job'[d].at \in 1..decisions /\ \A i \in Items : decided'[i] # job'[d].at
    <3>1. ASSUME NEW d \in Clerks \ {c}, job[d].item # {}, NEW i \in Items PROVE decided'[i] # job[d].at
      BY <1>a, <1>c, <3>1
    <3>. QED
      BY <1>a, <2>1, <3>1
  <2>6. /\ \A d \in Clerks : \A i, k \in job'[d].item : i = k
        /\ \A d, e \in Clerks : d # e /\ job'[d].item # {} /\ job'[e].item # {} => job'[d].at # job'[e].at
    BY <1>a, <2>1
  <2>. QED
    BY <1>c, <2>3, <2>4, <2>5, <2>6 DEF DecisionsNumbered
<1>d. NoJob.item = {}
  BY JobsTyped
<1>1. ASSUME NEW c \in Clerks, NEW i \in Items, Approve(c, i)
      PROVE  DecisionsNumbered'
  <2>1. /\ job'[c].item = {i} /\ job'[c].at = decisions + 1 /\ decisions' = decisions + 1
        /\ UNCHANGED <<verdict, decided, applied>> /\ \A d \in Clerks \ {c} : job'[d] = job[d]
    BY <1>0, <1>1, ApproveWrites DEF Others
  <2>2. \A k \in Items : Waiting(k)' <=> Waiting(k)
    BY <2>1 DEF Waiting
  <2>3. \A k \in Items : decided'[k] <= decisions' /\ (Waiting(k)' => decided'[k] # 0)
    BY <1>0, <1>a, <2>1, <2>2
  <2>4. \A d \in Clerks : job'[d].item # {} =>
          job'[d].at \in 1..decisions' /\ \A k \in Items : decided'[k] # job'[d].at
    BY <1>0, <1>a, <2>1
  <2>5. \A d, e \in Clerks : d # e /\ job'[d].item # {} /\ job'[e].item # {} => job'[d].at # job'[e].at
    <3>1. \A d \in Clerks \ {c} : job[d].item # {} => job[d].at # decisions + 1
      BY <1>0, <1>a
    <3>. QED
      BY <1>a, <2>1, <3>1
  <2>. QED
    BY <1>a, <2>1, <2>3, <2>4, <2>5 DEF DecisionsNumbered
<1>2. ASSUME NEW c \in Clerks, ReadReady(c)
      PROVE  DecisionsNumbered'
  BY <1>0, <1>2, <1>b, ReadReadyWrites DEF Others
<1>3. ASSUME NEW c \in Clerks, LockReady(c)
      PROVE  DecisionsNumbered'
  BY <1>3, <1>b, LockReadyWrites DEF Others
<1>4. ASSUME NEW c \in Clerks, CommitWaiting(c)
      PROVE  DecisionsNumbered'
  BY <1>0, <1>4, <1>c, CommitWaitingWrites
<1>5. ASSUME NEW c \in Clerks, Create(c) \/ Update(c) \/ RetireRead(c)
      PROVE  DecisionsNumbered'
  BY <1>5, <1>b, AdministratorWrites DEF Others
<1>6. ASSUME NEW c \in Clerks, RetireWrite(c)
      PROVE  DecisionsNumbered'
  BY <1>0, <1>6, <1>b, <1>d, RetireWriteWrites DEF Others, Released
<1>7. ASSUME NEW c \in Clerks, PickLatest(c) \/ LockLatest(c)
      PROVE  DecisionsNumbered'
  BY <1>7, <1>b, LatestWrites
<1>8. ASSUME NEW c \in Clerks, Insert(c)
      PROVE  DecisionsNumbered'
  <2>1. \A i \in Items : applied'[i] = 0 => applied[i] = 0
    BY <1>0, <1>8, InsertWrites, VersionRows
  <2>. QED
    BY <1>8, <1>c, <2>1, InsertWrites
<1>9. ASSUME NEW c \in Clerks, RollBack(c)
      PROVE  DecisionsNumbered'
  BY <1>0, <1>9, <1>b, <1>d, RollBackWrites DEF Others, Released
<1>10. ASSUME NEW i \in Items, Reject(i)
      PROVE  DecisionsNumbered'
  <2>1. /\ decided'[i] = 0 /\ verdict'[i] = "rejected" /\ decisions' = decisions + 1 /\ UNCHANGED <<applied, job>>
        /\ \A k \in Items \ {i} : decided'[k] = decided[k] /\ verdict'[k] = verdict[k]
    BY <1>0, <1>10, RejectWrites
  <2>2. \A k \in Items : decided'[k] \in {0, decided[k]} /\ (Waiting(k)' => Waiting(k) /\ k # i)
    BY <2>1 DEF Waiting
  <2>3. \A k \in Items : decided'[k] <= decisions' /\ (Waiting(k)' => decided'[k] # 0)
    BY <1>0, <1>a, <2>1, <2>2
  <2>4. \A k, l \in Items : decided'[k] = decided'[l] /\ decided'[k] # 0 => k = l
    BY <1>a, <2>2
  <2>5. \A d \in Clerks : job'[d].item # {} =>
          job'[d].at \in 1..decisions' /\ \A k \in Items : decided'[k] # job'[d].at
    BY <1>0, <1>a, <2>1, <2>2
  <2>. QED
    BY <1>a, <2>1, <2>3, <2>4, <2>5 DEF DecisionsNumbered
<1>11. ASSUME NextDay
      PROVE  DecisionsNumbered'
  BY <1>0, <1>11, <1>b, NextDayWrites
<1>12. ASSUME UNCHANGED marketVars
      PROVE  DecisionsNumbered'
  BY <1>12, <1>b DEF marketVars, itemVars
<1>. QED
  BY <1>1, <1>2, <1>3, <1>4, <1>5, <1>6, <1>7, <1>8, <1>9, <1>10, <1>11, <1>12 DEF MarketNext, Saves

(* Of the items that count for a metric the one decided last is chosen,    *)
(* and no other.                                                           *)
LEMMA OneChosen ==
  ASSUME MarketShape, DecisionsNumbered, NEW c \in Clerks
  PROVE  /\ \A i, k \in Chosen(c) : MetricOf[i] = MetricOf[k] => i = k
         /\ \A i \in LockedReady(c) : \E k \in Chosen(c) : MetricOf[k] = MetricOf[i]
<1>0. /\ decisions \in Nat /\ job[c].ready \subseteq Items /\ job[c].item \subseteq Items /\ job[c].at \in Nat
      /\ \A i \in Items : decided[i] \in Nat
  BY DEF MarketShape, MarketTyped, JobRecord
<1>1. \A i \in LockedReady(c) : i \in Items /\ (i \in job[c].item \/ Waiting(i))
  BY <1>0, ChosenIsLocked
<1>2. \A i, k \in LockedReady(c) : DecidedAt(c, i) = DecidedAt(c, k) => i = k
  BY <1>0, <1>1 DEF DecidedAt, DecisionsNumbered
<1>3. \A i \in LockedReady(c) : DecidedAt(c, i) \in Nat /\ DecidedAt(c, i) <= decisions
  BY <1>0, <1>1 DEF DecidedAt, DecisionsNumbered
<1>4. \A i, k \in Chosen(c) : MetricOf[i] = MetricOf[k] => i = k
  <2>1. ASSUME NEW i \in Chosen(c), NEW k \in Chosen(c), MetricOf[i] = MetricOf[k] PROVE i = k
    <3>1. i \in LockedReady(c) /\ k \in LockedReady(c)
      BY ChosenIsLocked
    <3>2. DecidedAt(c, k) <= DecidedAt(c, i) /\ DecidedAt(c, i) <= DecidedAt(c, k)
      BY <2>1, <3>1 DEF Chosen
    <3>. QED
      BY <1>2, <1>3, <3>1, <3>2
  <2>. QED
    BY <2>1
<1>5. ASSUME NEW i \in LockedReady(c) PROVE \E k \in Chosen(c) : MetricOf[k] = MetricOf[i]
  <2>. DEFINE S == {k \in LockedReady(c) : MetricOf[k] = MetricOf[i]}
              f == [k \in S |-> DecidedAt(c, k)]
  <2>1. \A k \in S : f[k] \in Nat /\ f[k] <= decisions
    BY <1>3
  <2>2. f = [k \in S |-> f[k]]
    OBVIOUS
  <2>. HIDE DEF f
  <2>3. f \in [S -> Nat] /\ S # {}
    BY <2>1, <2>2
  <2>4. PICK k \in S : \A l \in S : f[l] <= f[k]
    <3>. HIDE DEF S
    <3>. QED
      BY <1>0, <2>1, <2>3, LargestThere
  <2>5. k \in Chosen(c)
    <3>1. \A l \in LockedReady(c) : MetricOf[l] = MetricOf[k] => DecidedAt(c, l) <= DecidedAt(c, k)
      BY <2>4 DEF f
    <3>. QED
      BY <3>1 DEF Chosen
  <2>. QED
    BY <2>5
<1>. QED
  BY <1>4, <1>5

LEMMA ReadyPickedStep ==
  ASSUME MarketShape, ItemsLocked, DecisionsNumbered, ReadyPicked, ItemSeen, [MarketNext]_marketVars
  PROVE  ReadyPicked' /\ ItemSeen'
<1>0. MarketTyped /\ \A d \in Clerks : holds[d] \subseteq Items /\ job[d].item \subseteq Items /\ job[d].ready \subseteq Items
  BY HoldsAreItems
<1>. DEFINE Picked(d) == /\ pc'[d] \in {"decided", "reading"} => job'[d].edits = {}
                         /\ pc'[d] = "reading" => job'[d].item \subseteq job'[d].ready
                         /\ pc'[d] \in Saving =>
                              /\ job'[d].edits # {} => job'[d].ready = {}
                              /\ \A i, k \in job'[d].ready : MetricOf[i] = MetricOf[k] => i = k
                              /\ \A i \in job'[d].ready : i \in job'[d].item \/ Waiting(i)'
                              /\ \A i \in job'[d].item : \E k \in job'[d].ready : MetricOf[k] = MetricOf[i]
                              /\ job'[d].base = 0 => Metrics \subseteq Covered(d)'
            Goal == \A d \in Clerks : Picked(d)
<1>a. \A d \in Clerks :
        /\ pc[d] \in {"decided", "reading"} => job[d].edits = {}
        /\ pc[d] = "reading" => job[d].item \subseteq job[d].ready
        /\ pc[d] \in Saving =>
             /\ job[d].edits # {} => job[d].ready = {}
             /\ \A i, k \in job[d].ready : MetricOf[i] = MetricOf[k] => i = k
             /\ \A i \in job[d].ready : i \in job[d].item \/ Waiting(i)
             /\ \A i \in job[d].item : \E k \in job[d].ready : MetricOf[k] = MetricOf[i]
             /\ job[d].base = 0 => Metrics \subseteq Covered(d)
  BY DEF ReadyPicked, ItemSeen
<1>b. ASSUME NEW d \in Clerks, pc'[d] = pc[d], job'[d] = job[d], \A i \in holds[d] : Waiting(i) => Waiting(i)'
      PROVE  Picked(d)
  <2>1. pc[d] \in Saving => job[d].ready \subseteq holds[d]
    BY DEF ItemsLocked
  <2>2. Covered(d)' = Covered(d)
    BY <1>b DEF Covered
  <2>3. pc[d] \in Saving => \A i \in job[d].ready : i \in job[d].item \/ Waiting(i)'
    BY <1>a, <1>b, <2>1
  <2>. QED
    BY <1>a, <1>b, <2>2, <2>3
<1>c. ASSUME NEW c \in Clerks, Others(c), Picked(c), UNCHANGED <<verdict, applied>>
      PROVE  Goal
  <2>1. \A i : Waiting(i) => Waiting(i)'
    BY <1>c DEF Waiting
  <2>. HIDE DEF Picked
  <2>2. \A d \in Clerks \ {c} : Picked(d)
    BY <1>b, <1>c, <2>1 DEF Others
  <2>. QED
    BY <1>c, <2>2
<1>d. ASSUME NEW c \in Clerks, Released(c) PROVE Picked(c)
  BY <1>d DEF Released, Saving
<1>e. ASSUME UNCHANGED <<verdict, applied, pc, job>> PROVE Goal
  <2>1. \A i : Waiting(i) => Waiting(i)'
    BY <1>e DEF Waiting
  <2>. HIDE DEF Picked
  <2>. QED
    BY <1>b, <1>e, <2>1
<1>1. ASSUME NEW c \in Clerks, NEW i \in Items, Approve(c, i)
      PROVE  Goal
  <2>1. Picked(c)
    BY <1>0, <1>1, ApproveWrites DEF Saving
  <2>. HIDE DEF Picked
  <2>. QED
    BY <1>0, <1>1, <1>c, <2>1, ApproveWrites
<1>2. ASSUME NEW c \in Clerks, ReadReady(c)
      PROVE  Goal
  <2>1. Picked(c)
    BY <1>0, <1>2, <1>a, ReadReadyWrites DEF Saving, Seen
  <2>. HIDE DEF Picked
  <2>. QED
    BY <1>0, <1>2, <1>c, <2>1, ReadReadyWrites
<1>3. ASSUME NEW c \in Clerks, LockReady(c)
      PROVE  Goal
  <2>0. /\ job'[c].item = job[c].item /\ job'[c].ready = Chosen(c) /\ job'[c].edits = {}
        /\ job'[c].base = Live(job[c].day) /\ pc'[c] = "based" /\ pc[c] = "reading" /\ Complete(c)
    BY <1>3, <1>a, LockReadyWrites
  <2>1. job[c].item \subseteq LockedReady(c)
    BY <1>a, <2>0 DEF LockedReady
  <2>2. \A i \in Chosen(c) : i \in job[c].item \/ Waiting(i)'
    <3>1. \A i : Waiting(i) => Waiting(i)'
      BY <1>3, LockReadyWrites DEF Waiting
    <3>. QED
      BY <3>1, ChosenIsLocked
  <2>3. job'[c].base = 0 => Metrics \subseteq Covered(c)'
    <3>1. ASSUME job'[c].base = 0, NEW m \in Metrics PROVE m \in Covered(c)'
      <4>1. m \in {MetricOf[i] : i \in LockedReady(c)}
        BY <2>0, <3>1 DEF Complete
      <4>2. \E k \in Chosen(c) : MetricOf[k] = m
        BY <4>1, OneChosen
      <4>. QED
        BY <2>0, <4>2 DEF Covered
    <3>. QED
      BY <3>1
  <2>4. Picked(c)
    BY <2>0, <2>1, <2>2, <2>3, OneChosen
  <2>. HIDE DEF Picked
  <2>. QED
    BY <1>3, <1>c, <2>4, LockReadyWrites
<1>4. ASSUME NEW c \in Clerks, CommitWaiting(c)
      PROVE  Goal
  <2>1. \A i \in Items : Waiting(i) => Waiting(i)'
    BY <1>0, <1>4, CommitWaitingWrites DEF Waiting
  <2>2. Others(c) /\ Released(c)
    BY <1>0, <1>4, CommitWaitingWrites
  <2>. HIDE DEF Picked
  <2>. QED
    BY <1>0, <1>b, <1>d, <2>1, <2>2 DEF Others
<1>5. ASSUME NEW c \in Clerks, Create(c) \/ Update(c) \/ RetireRead(c)
      PROVE  Goal
  <2>1. Picked(c)
    <3>1. /\ pc'[c] \in {"based", "retiring"} /\ job'[c].item = {} /\ job'[c].ready = {}
          /\ pc'[c] = "based" => job'[c].edits = Metrics \/ job'[c].base # 0
      BY <1>5, AdministratorWrites
    <3>2. job'[c].edits = Metrics => Metrics \subseteq Covered(c)'
      BY DEF Covered
    <3>3. pc'[c] \notin {"decided", "reading"} /\ (pc'[c] \in Saving => pc'[c] = "based")
      BY <3>1 DEF Saving
    <3>. HIDE DEF Saving
    <3>. QED
      BY <3>1, <3>2, <3>3
  <2>. HIDE DEF Picked
  <2>. QED
    BY <1>5, <1>c, <2>1, AdministratorWrites
<1>6. ASSUME NEW c \in Clerks, RetireWrite(c)
      PROVE  Goal
  <2>. HIDE DEF Picked
  <2>. QED
    BY <1>0, <1>6, <1>c, <1>d, RetireWriteWrites
<1>7. ASSUME NEW c \in Clerks, PickLatest(c) \/ LockLatest(c)
      PROVE  Goal
  <2>0. /\ job'[c].item = job[c].item /\ job'[c].ready = job[c].ready /\ job'[c].edits = job[c].edits
        /\ job'[c].base = job[c].base /\ pc[c] \in {"based", "queueing"} /\ pc'[c] \in {"queueing", "inserting"}
        /\ UNCHANGED <<verdict, applied>> /\ \A d \in Clerks \ {c} : pc'[d] = pc[d] /\ job'[d] = job[d]
    BY <1>7, LatestWrites
  <2>1. \A i : Waiting(i) => Waiting(i)'
    BY <2>0 DEF Waiting
  <2>2. Covered(c)' = Covered(c)
    BY <2>0 DEF Covered
  <2>3. pc[c] \in Saving
    BY <2>0 DEF Saving
  <2>4. Picked(c)
    BY <1>a, <2>0, <2>1, <2>2, <2>3
  <2>. HIDE DEF Picked
  <2>. QED
    BY <1>b, <2>0, <2>1, <2>4
<1>8. ASSUME NEW c \in Clerks, Insert(c)
      PROVE  Goal
  <2>1. Others(c) /\ Released(c) /\ job[c].ready \subseteq holds[c]
    BY <1>8, InsertWrites DEF ItemsLocked, Saving
  <2>2. ASSUME NEW d \in Clerks \ {c}, NEW i \in holds[d], Waiting(i) PROVE Waiting(i)'
    <3>1. i \notin job[c].ready /\ i \in Items
      BY <1>0, <2>1 DEF ItemsLocked
    <3>. QED
      BY <1>8, <2>2, <3>1, InsertWrites DEF Waiting
  <2>. HIDE DEF Picked
  <2>3. \A d \in Clerks \ {c} : Picked(d)
    BY <1>b, <2>1, <2>2 DEF Others
  <2>. QED
    BY <1>d, <2>1, <2>3
<1>9. ASSUME NEW c \in Clerks, RollBack(c)
      PROVE  Goal
  <2>. HIDE DEF Picked
  <2>. QED
    BY <1>0, <1>9, <1>c, <1>d, RollBackWrites
<1>10. ASSUME NEW i \in Items, Reject(i)
      PROVE  Goal
  <2>1. UNCHANGED <<pc, job>> /\ UNCHANGED applied
    BY <1>0, <1>10, RejectWrites
  <2>2. \A d \in Clerks : \A k \in holds[d] : Waiting(k) => Waiting(k)'
    BY <1>0, <1>10, RejectWrites DEF Waiting
  <2>. HIDE DEF Picked
  <2>. QED
    BY <1>b, <2>1, <2>2
<1>11. ASSUME NextDay
      PROVE  Goal
  BY <1>0, <1>11, <1>e, NextDayWrites
<1>12. ASSUME UNCHANGED marketVars
      PROVE  Goal
  BY <1>12, <1>e DEF marketVars, itemVars
<1>13. Goal
  <2>. HIDE DEF Picked
  <2>. QED
    BY <1>1, <1>2, <1>3, <1>4, <1>5, <1>6, <1>7, <1>8, <1>9, <1>10, <1>11, <1>12 DEF MarketNext, Saves
<1>. QED
  BY <1>13 DEF ReadyPicked, ItemSeen, Saving

LEMMA FiguresStep ==
  ASSUME MarketShape, ItemsLocked, ReadyPicked, Figures, [MarketNext]_marketVars
  PROVE  Figures'
<1>0. /\ MarketTyped /\ \A d \in Clerks : holds[d] \subseteq Items /\ job[d].item \subseteq Items /\ job[d].ready \subseteq Items
      /\ Len(versions) \in Nat /\ VersionIds = 1..Len(versions) /\ VersionIds' = 1..Len(versions')
      /\ \A v \in VersionIds : versions[v] \in VersionRow
  BY HoldsAreItems, VersionRows DEF VersionIds
<1>a. /\ \A i \in Items : applied[i] # 0 =>
           applied[i] \in VersionIds /\ verdict[i] = "approved" /\ versions[applied[i]].rate[MetricOf[i]] = i
      /\ \A v \in VersionIds, m \in Metrics : versions[v].rate[m] \in Items =>
           applied[versions[v].rate[m]] \in 1..v
  BY DEF Figures
<1>b. ASSUME UNCHANGED applied, Len(versions') = Len(versions),
             \A v \in VersionIds : versions'[v].rate = versions[v].rate,
             \A i \in Items : applied[i] # 0 /\ verdict[i] = "approved" => verdict'[i] = "approved"
      PROVE  Figures'
  <2>1. VersionIds' = VersionIds
    BY <1>0, <1>b
  <2>. QED
    BY <1>a, <1>b, <2>1 DEF Figures
<1>1. ASSUME NEW c \in Clerks, NEW i \in Items, Approve(c, i)
      PROVE  Figures'
  BY <1>0, <1>1, <1>b, ApproveWrites
<1>2. ASSUME NEW c \in Clerks, ReadReady(c)
      PROVE  Figures'
  BY <1>0, <1>2, <1>b, ReadReadyWrites
<1>3. ASSUME NEW c \in Clerks, LockReady(c)
      PROVE  Figures'
  BY <1>0, <1>3, <1>b, LockReadyWrites
<1>4. ASSUME NEW c \in Clerks, CommitWaiting(c)
      PROVE  Figures'
  BY <1>0, <1>4, <1>b, CommitWaitingWrites
<1>5. ASSUME NEW c \in Clerks, Create(c) \/ Update(c) \/ RetireRead(c)
      PROVE  Figures'
  BY <1>0, <1>5, <1>b, AdministratorWrites
<1>6. ASSUME NEW c \in Clerks, RetireWrite(c)
      PROVE  Figures'
  BY <1>0, <1>6, <1>b, RetireWriteWrites
<1>7. ASSUME NEW c \in Clerks, PickLatest(c) \/ LockLatest(c)
      PROVE  Figures'
  BY <1>0, <1>7, <1>b, LatestWrites
<1>8. ASSUME NEW c \in Clerks, Insert(c)
      PROVE  Figures'
  <2>. DEFINE N == Len(versions) + 1
  <2>0. /\ Len(versions') = N /\ \A v \in VersionIds : versions'[v] = versions[v]
        /\ versions'[N] = NewVersion(c) /\ N \in Nat \ {0} /\ N \notin VersionIds /\ VersionIds' = VersionIds \cup {N}
        /\ \A i \in Items : applied'[i] = IF i \in job[c].ready THEN N ELSE applied[i]
        /\ \A i \in Items : verdict'[i] = IF i \in job[c].item THEN "approved" ELSE verdict[i]
        /\ pc[c] \in Saving
    BY <1>0, <1>8, InsertWrites DEF Saving
  <2>1. \A i \in Items : i \in job[c].ready \/ i \in job[c].item => applied[i] = 0
    BY <2>0 DEF ItemsLocked
  <2>2. /\ job[c].edits # {} => job[c].ready = {}
        /\ \A i, k \in job[c].ready : MetricOf[i] = MetricOf[k] => i = k
        /\ \A i \in job[c].ready : i \in job[c].item \/ Waiting(i)
        /\ job[c].base = 0 => Metrics \subseteq Covered(c)
    BY <2>0 DEF ReadyPicked
  <2>3. /\ \A m \in job[c].edits : versions'[N].rate[m] = N
        /\ \A m \in Metrics \ job[c].edits :
             \/ versions'[N].rate[m] \in job[c].ready /\ MetricOf[versions'[N].rate[m]] = m
             \/ m \notin Covered(c) /\ job[c].base \in VersionIds /\ versions'[N].rate[m] = versions[job[c].base].rate[m]
    BY <2>0, <2>2, NewVersionIs
  <2>4. ASSUME NEW i \in Items, applied'[i] # 0
        PROVE  applied'[i] \in VersionIds' /\ verdict'[i] = "approved" /\ versions'[applied'[i]].rate[MetricOf[i]] = i
    <3>1. CASE i \in job[c].ready
      <4>1. applied'[i] = N /\ MetricOf[i] \in Metrics /\ job[c].edits = {}
        BY <2>0, <2>2, <3>1, MarketAssumption
      <4>2. MetricOf[i] \in Covered(c)
        BY <3>1 DEF Covered
      <4>3. versions'[N].rate[MetricOf[i]] = i
        BY <2>2, <2>3, <3>1, <4>1, <4>2
      <4>4. verdict'[i] = "approved"
        BY <2>0, <2>2, <3>1 DEF Waiting
      <4>. QED
        BY <2>0, <4>1, <4>3, <4>4
    <3>2. CASE i \notin job[c].ready
      BY <1>a, <2>0, <2>1, <2>4, <3>2
    <3>. QED
      BY <3>1, <3>2
  <2>5. ASSUME NEW v \in VersionIds', NEW m \in Metrics, versions'[v].rate[m] \in Items
        PROVE  applied'[versions'[v].rate[m]] \in 1..v
    <3>1. CASE v \in VersionIds
      <4>1. applied[versions[v].rate[m]] \in 1..v /\ versions'[v] = versions[v]
        BY <1>a, <2>0, <2>5, <3>1
      <4>2. versions[v].rate[m] \notin job[c].ready
        BY <1>0, <2>1, <4>1
      <4>. QED
        BY <2>0, <2>5, <4>1, <4>2
    <3>2. CASE v = N
      <4>1. m \notin job[c].edits
        BY <2>0, <2>3, <2>5, <3>2, MarketAssumption
      <4>2. CASE versions'[N].rate[m] \in job[c].ready
        BY <2>0, <2>5, <3>2, <4>2
      <4>3. CASE job[c].base \in VersionIds /\ versions'[N].rate[m] = versions[job[c].base].rate[m]
        <5>1. applied[versions[job[c].base].rate[m]] \in 1..job[c].base
          BY <1>a, <2>5, <3>2, <4>3
        <5>2. versions[job[c].base].rate[m] \notin job[c].ready
          BY <1>0, <2>1, <5>1
        <5>3. job[c].base \in Nat /\ job[c].base <= N
          BY <1>0, <4>3
        <5>4. applied'[versions'[N].rate[m]] = applied[versions[job[c].base].rate[m]]
          BY <2>0, <2>5, <3>2, <4>3, <5>2
        <5>. HIDE DEF N
        <5>. QED
          BY <2>0, <3>2, <5>1, <5>3, <5>4
      <4>. QED
        BY <2>3, <4>1, <4>2, <4>3
    <3>. QED
      BY <2>0, <3>1, <3>2
  <2>. QED
    BY <2>4, <2>5 DEF Figures
<1>9. ASSUME NEW c \in Clerks, RollBack(c)
      PROVE  Figures'
  BY <1>0, <1>9, <1>b, RollBackWrites
<1>10. ASSUME NEW i \in Items, Reject(i)
      PROVE  Figures'
  BY <1>0, <1>10, <1>b, RejectWrites
<1>11. ASSUME NextDay
      PROVE  Figures'
  BY <1>0, <1>11, <1>b, NextDayWrites
<1>12. ASSUME UNCHANGED marketVars
      PROVE  Figures'
  BY <1>12, <1>b DEF marketVars, itemVars, zoneVars
<1>. QED
  BY <1>1, <1>2, <1>3, <1>4, <1>5, <1>6, <1>7, <1>8, <1>9, <1>10, <1>11, <1>12 DEF MarketNext, Saves

(* Where the last version is on top, no other version applies.             *)
LEMMA LastApplies ==
  ASSUME MarketShape, NEW day, OnTop(day), Live(day) # 0
  PROVE  Live(day) = Len(versions)
<1>. DEFINE last == Len(versions) due == {v \in VersionIds : AppliesFrom(v) <= day}
<1>0. MarketTyped /\ last \in Nat /\ last # 0 /\ VersionIds = 1..last
  BY VersionRows DEF MarketShape, VersionIds, OnTop
<1>1. last \in due
  BY <1>0 DEF OnTop
<1>2. Top(day) \in due /\ \A v \in due \ {Top(day)} : RanksBelow(v, Top(day))
  BY <1>1, TopIsVersion
<1>3. Live(day) = Top(day)
  BY TopIsVersion
<1>4. ASSUME Top(day) # last PROVE FALSE
  <2>1. RanksBelow(last, Top(day)) /\ Top(day) \in 1..(last - 1) /\ Top(day) \in VersionIds /\ last \in VersionIds
    BY <1>0, <1>1, <1>2, <1>4
  <2>2. AppliesFrom(Top(day)) <= AppliesFrom(last) /\ versions[Top(day)].no < versions[last].no
    BY <2>1 DEF OnTop
  <2>3. AppliesFrom(Top(day)) \in Int /\ AppliesFrom(last) \in Int /\ versions[Top(day)].no \in Int /\ versions[last].no \in Int
    BY <1>0, <2>1, AppliesLater DEF Days, MarketShape, VersionsThere
  <2>. HIDE DEF last
  <2>. QED
    BY <2>1, <2>2, <2>3 DEF RanksBelow
<1>. QED
  BY <1>3, <1>4

LEMMA BasedOnTopStep ==
  ASSUME MarketShape, ReadyPicked, ReadyPicked', BasedOnTop, [MarketNext]_marketVars
  PROVE  BasedOnTop'
<1>. DEFINE Based(d) == (pc[d] \in Saving /\ job[d].saw = Len(versions) /\ OnTop(job[d].day) /\ ~(Metrics \subseteq Covered(d)))
                        => job[d].base = Len(versions)
            BasedNext(d) == (pc'[d] \in Saving /\ job'[d].saw = Len(versions') /\ OnTop(job[d].day)'
                             /\ ~(Metrics \subseteq Covered(d)'))
                            => job'[d].base = Len(versions')
            Goal == \A d \in Clerks : BasedNext(d)
<1>0. /\ MarketTyped /\ Len(versions) \in Nat
      /\ \A d \in Clerks : Based(d) /\ job[d].saw \in 0..Len(versions)
  BY VersionRows DEF BasedOnTop, MarketShape, VersionsThere
<1>a. ASSUME Len(versions') = Len(versions),
             \A v \in VersionIds : versions'[v].from = versions[v].from /\ versions'[v].saved = versions[v].saved
                                   /\ versions'[v].no = versions[v].no,
             NEW d \in Clerks, pc'[d] \in Saving => pc[d] \in Saving,
             job'[d].saw = job[d].saw, job'[d].day = job[d].day, job'[d].base = job[d].base,
             job'[d].edits = job[d].edits, job'[d].ready = job[d].ready
      PROVE  BasedNext(d)
  <2>1. Covered(d)' = Covered(d)
    BY <1>a DEF Covered
  <2>2. OnTop(job[d].day)' <=> OnTop(job[d].day)
    <3>1. Len(versions) # 0 => Len(versions) \in VersionIds /\ 1..(Len(versions) - 1) \subseteq VersionIds
      BY <1>0 DEF VersionIds
    <3>. QED
      BY <1>0, <1>a, <3>1 DEF OnTop, AppliesFrom
  <2>3. Based(d)
    BY <1>0
  <2>. QED
    BY <1>a, <2>1, <2>2, <2>3
<1>b. ASSUME NEW c \in Clerks, Others(c), versions' = versions, BasedNext(c)
      PROVE  Goal
  <2>1. \A d \in Clerks \ {c} : BasedNext(d)
    <3>1. ASSUME NEW d \in Clerks \ {c} PROVE BasedNext(d)
      <4>. HIDE DEF BasedNext
      <4>. QED
        BY <1>a, <1>b DEF Others
    <3>. QED
      BY <3>1
  <2>. HIDE DEF BasedNext
  <2>. QED
    BY <1>b, <2>1
<1>c. ASSUME NEW c \in Clerks, pc'[c] \notin Saving
      PROVE  BasedNext(c)
  BY <1>c
<1>d. ASSUME UNCHANGED <<versions, pc, job>>
      PROVE  Goal
  <2>. HIDE DEF BasedNext
  <2>. QED
    BY <1>a, <1>d
<1>1. ASSUME NEW c \in Clerks, NEW i \in Items, Approve(c, i)
      PROVE  Goal
  <2>1. pc'[c] \notin Saving /\ Others(c) /\ versions' = versions
    BY <1>0, <1>1, ApproveWrites DEF Saving, Released
  <2>. HIDE DEF BasedNext
  <2>. QED
    BY <1>b, <1>c, <2>1
<1>2. ASSUME NEW c \in Clerks, ReadReady(c)
      PROVE  Goal
  <2>1. pc'[c] \notin Saving /\ Others(c) /\ versions' = versions
    BY <1>0, <1>2, ReadReadyWrites DEF Saving, Released
  <2>. HIDE DEF BasedNext
  <2>. QED
    BY <1>b, <1>c, <2>1
<1>3. ASSUME NEW c \in Clerks, LockReady(c)
      PROVE  Goal
  <2>0. /\ Others(c) /\ versions' = versions /\ pc'[c] = "based"
        /\ job'[c].base = Live(job[c].day) /\ job'[c].day = job[c].day
    BY <1>3, LockReadyWrites
  <2>1. job'[c].base = 0 => Metrics \subseteq Covered(c)'
    BY <2>0 DEF ReadyPicked, Saving
  <2>2. OnTop(job[c].day)' <=> OnTop(job[c].day)
    BY <2>0 DEF OnTop, AppliesFrom
  <2>3. BasedNext(c)
    BY <2>0, <2>1, <2>2, LastApplies
  <2>. HIDE DEF BasedNext
  <2>. QED
    BY <1>b, <2>0, <2>3
<1>4. ASSUME NEW c \in Clerks, CommitWaiting(c)
      PROVE  Goal
  <2>1. pc'[c] \notin Saving /\ Others(c) /\ versions' = versions
    BY <1>0, <1>4, CommitWaitingWrites DEF Saving, Released
  <2>. HIDE DEF BasedNext
  <2>. QED
    BY <1>b, <1>c, <2>1
<1>5. ASSUME NEW c \in Clerks, Create(c) \/ Update(c) \/ RetireRead(c)
      PROVE  Goal
  <2>0. /\ Others(c) /\ versions' = versions
        /\ pc'[c] \in {"based", "retiring"}
        /\ pc'[c] = "based" => job'[c].edits = Metrics \/ (current # 0 /\ job'[c].base = current)
    BY <1>5, AdministratorWrites
  <2>1. job'[c].edits = Metrics => Metrics \subseteq Covered(c)'
    BY DEF Covered
  <2>2. current # 0 => current = Len(versions)
    BY <1>0 DEF MarketTyped
  <2>3. BasedNext(c)
    BY <2>0, <2>1, <2>2 DEF Saving
  <2>. HIDE DEF BasedNext
  <2>. QED
    BY <1>b, <2>0, <2>3
<1>6. ASSUME NEW c \in Clerks, RetireWrite(c)
      PROVE  Goal
  <2>0. /\ Others(c) /\ pc'[c] \notin Saving /\ Len(versions') = Len(versions)
        /\ \A v \in VersionIds : versions'[v].from = versions[v].from /\ versions'[v].saved = versions[v].saved
                                 /\ versions'[v].no = versions[v].no
    BY <1>0, <1>6, RetireWriteWrites DEF Released, Saving
  <2>. HIDE DEF BasedNext
  <2>1. \A d \in Clerks \ {c} : BasedNext(d)
    BY <1>a, <2>0 DEF Others
  <2>. QED
    BY <1>c, <2>0, <2>1
<1>7. ASSUME NEW c \in Clerks, PickLatest(c) \/ LockLatest(c)
      PROVE  Goal
  <2>0. /\ versions' = versions /\ \A d \in Clerks \ {c} : pc'[d] = pc[d] /\ job'[d] = job[d]
        /\ pc[c] \in Saving /\ job'[c].saw = job[c].saw /\ job'[c].day = job[c].day /\ job'[c].base = job[c].base
        /\ job'[c].edits = job[c].edits /\ job'[c].ready = job[c].ready
    BY <1>7, LatestWrites DEF Saving
  <2>. HIDE DEF BasedNext
  <2>1. \A d \in Clerks : BasedNext(d)
    BY <1>a, <2>0
  <2>. QED
    BY <2>1
<1>8. ASSUME NEW c \in Clerks, Insert(c)
      PROVE  Goal
  <2>0. Others(c) /\ pc'[c] \notin Saving /\ Len(versions') = Len(versions) + 1
    BY <1>8, InsertWrites DEF Released, Saving
  <2>1. ASSUME NEW d \in Clerks \ {c} PROVE BasedNext(d)
    <3>1. job'[d].saw # Len(versions')
      BY <1>0, <2>0 DEF Others
    <3>. QED
      BY <3>1
  <2>. HIDE DEF BasedNext
  <2>. QED
    BY <1>c, <2>0, <2>1
<1>9. ASSUME NEW c \in Clerks, RollBack(c)
      PROVE  Goal
  <2>1. pc'[c] \notin Saving /\ Others(c) /\ versions' = versions
    BY <1>0, <1>9, RollBackWrites DEF Saving, Released
  <2>. HIDE DEF BasedNext
  <2>. QED
    BY <1>b, <1>c, <2>1
<1>10. ASSUME NEW i \in Items, Reject(i)
      PROVE  Goal
  <2>1. UNCHANGED <<versions, pc, job>>
    BY <1>0, <1>10, RejectWrites
  <2>. QED
    BY <1>d, <2>1
<1>11. ASSUME NextDay
      PROVE  Goal
  <2>1. UNCHANGED <<versions, pc, job>>
    BY <1>0, <1>11, NextDayWrites
  <2>. QED
    BY <1>d, <2>1
<1>12. ASSUME UNCHANGED marketVars
      PROVE  Goal
  BY <1>12, <1>d DEF marketVars, zoneVars
<1>13. Goal
  <2>. HIDE DEF BasedNext
  <2>. QED
    BY <1>1, <1>2, <1>3, <1>4, <1>5, <1>6, <1>7, <1>8, <1>9, <1>10, <1>11, <1>12 DEF MarketNext, Saves
<1>. QED
  BY <1>13 DEF BasedOnTop, Saving

LEMMA WaitStep ==
  ASSUME MarketShape, ItemsLocked, DecisionsNumbered, ReadyPicked, ItemSeen, WaitInv, [MarketNext]_marketVars
  PROVE  WaitInv'
<1>. DEFINE Sees(d) == pc[d] = "reading" /\ d \notin late => \A i \in Items : Waiting(i) => i \in job[d].ready
<1>0. /\ MarketTyped /\ crossed \in BOOLEAN
      /\ \A d \in Clerks : holds[d] \subseteq Items /\ job[d].item \subseteq Items /\ job[d].ready \subseteq Items
  BY HoldsAreItems DEF MarketTyped
<1>a. ASSUME crossed' = crossed, \A i \in Items : Waiting(i)' => Waiting(i), \A d \in Clerks : Sees(d) => Sees(d)'
      PROVE  WaitInv'
  <2>1. SomeMissing => SomeMissing'
    BY <1>a DEF SomeMissing
  <2>2. SeesAll => SeesAll'
    BY <1>a DEF SeesAll
  <2>. QED
    BY <1>a, <2>1, <2>2 DEF WaitInv
<1>b. ASSUME UNCHANGED <<verdict, applied>>
      PROVE  \A i \in Items : Waiting(i)' <=> Waiting(i)
  BY <1>b DEF Waiting
<1>c. ASSUME NEW c \in Clerks, Others(c), pc'[c] # "reading", late' = late \/ late' = late \ {c},
             UNCHANGED <<verdict, applied>>
      PROVE  \A d \in Clerks : Sees(d) => Sees(d)'
  <2>1. \A d \in Clerks \ {c} : pc'[d] = pc[d] /\ job'[d] = job[d] /\ (d \in late' <=> d \in late)
    BY <1>c DEF Others
  <2>. QED
    BY <1>b, <1>c, <2>1
<1>d. ASSUME NEW c \in Clerks, Others(c), pc'[c] # "reading",
             late' = (late \ {c}) \cup {d \in Clerks \ {c} : pc[d] \notin {"idle", "decided"}}
      PROVE  SeesAll'
  <2>1. \A d \in Clerks \ {c} : pc'[d] = "reading" => d \in late'
    BY <1>d DEF Others
  <2>. QED
    BY <1>d, <2>1 DEF SeesAll
<1>1. ASSUME NEW c \in Clerks, NEW i \in Items, Approve(c, i)
      PROVE  WaitInv'
  <2>1. Others(c) /\ pc'[c] # "reading" /\ (late' = late \/ late' = late \ {c}) /\ UNCHANGED <<verdict, applied, crossed>>
    BY <1>0, <1>1, ApproveWrites
  <2>. HIDE DEF Sees
  <2>. QED
    BY <1>a, <1>b, <1>c, <2>1
<1>2. ASSUME NEW c \in Clerks, ReadReady(c)
      PROVE  WaitInv'
  <2>1. Others(c) /\ UNCHANGED <<verdict, applied, late, crossed>> /\ job'[c].ready = Seen(c)
    BY <1>0, <1>2, ReadReadyWrites
  <2>2. \A i \in Items : Waiting(i)' => i \in job'[c].ready
    BY <1>b, <2>1 DEF Seen
  <2>3. \A d \in Clerks : Sees(d) => Sees(d)'
    BY <1>b, <2>1, <2>2 DEF Others
  <2>. HIDE DEF Sees
  <2>. QED
    BY <1>a, <1>b, <2>1, <2>3
<1>3. ASSUME NEW c \in Clerks, LockReady(c)
      PROVE  WaitInv'
  <2>1. Others(c) /\ pc'[c] # "reading" /\ (late' = late \/ late' = late \ {c}) /\ UNCHANGED <<verdict, applied, crossed>>
    BY <1>0, <1>3, LockReadyWrites
  <2>. HIDE DEF Sees
  <2>. QED
    BY <1>a, <1>b, <1>c, <2>1
<1>4. ASSUME NEW c \in Clerks, CommitWaiting(c)
      PROVE  WaitInv'
  <2>0. /\ Others(c) /\ Released(c) /\ pc[c] = "reading" /\ ~Complete(c)
        /\ \A i \in Items : verdict'[i] = IF i \in job[c].item THEN "approved" ELSE verdict[i]
        /\ late' = (late \ {c}) \cup {d \in Clerks \ {c} : pc[d] \notin {"idle", "decided"}}
        /\ crossed' = (crossed \/ c \in late) /\ applied' = applied
    BY <1>0, <1>4, CommitWaitingWrites
  <2>1. SeesAll'
    BY <1>d, <2>0 DEF Released
  <2>2. ASSUME ~crossed, c \notin late, SeesAll PROVE SomeMissing'
    <3>1. \A i \in Items : Waiting(i)' => i \in LockedReady(c)
      BY <2>0, <2>2 DEF Waiting, SeesAll, LockedReady, ItemSeen
    <3>2. {MetricOf[i] : i \in LockedReady(c)} # Metrics
      BY <2>0 DEF Complete
    <3>3. {MetricOf[i] : i \in LockedReady(c)} \subseteq Metrics
      BY <1>0, MarketAssumption DEF LockedReady
    <3>4. PICK m \in Metrics : m \notin {MetricOf[i] : i \in LockedReady(c)}
      BY <3>2, <3>3
    <3>. QED
      BY <3>1, <3>4 DEF SomeMissing
  <2>. QED
    BY <2>0, <2>1, <2>2 DEF WaitInv
<1>5. ASSUME NEW c \in Clerks, Create(c) \/ Update(c) \/ RetireRead(c)
      PROVE  WaitInv'
  <2>1. Others(c) /\ pc'[c] # "reading" /\ (late' = late \/ late' = late \ {c}) /\ UNCHANGED <<verdict, applied, crossed>>
    BY <1>0, <1>5, AdministratorWrites
  <2>. HIDE DEF Sees
  <2>. QED
    BY <1>a, <1>b, <1>c, <2>1
<1>6. ASSUME NEW c \in Clerks, RetireWrite(c)
      PROVE  WaitInv'
  <2>0. /\ Others(c) /\ Released(c) /\ UNCHANGED <<verdict, applied>>
        /\ late' = (late \ {c}) \cup {d \in Clerks \ {c} : pc[d] \notin {"idle", "decided"}}
        /\ crossed' = (crossed \/ c \in late)
    BY <1>0, <1>6, RetireWriteWrites
  <2>1. SeesAll'
    BY <1>d, <2>0 DEF Released
  <2>2. SomeMissing => SomeMissing'
    BY <1>b, <2>0 DEF SomeMissing
  <2>. QED
    BY <2>0, <2>1, <2>2 DEF WaitInv
<1>7. ASSUME NEW c \in Clerks, PickLatest(c) \/ LockLatest(c)
      PROVE  WaitInv'
  <2>1. /\ UNCHANGED <<verdict, applied, late, crossed>> /\ pc'[c] # "reading"
        /\ \A d \in Clerks \ {c} : pc'[d] = pc[d] /\ job'[d] = job[d]
    BY <1>7, LatestWrites
  <2>2. \A d \in Clerks : Sees(d) => Sees(d)'
    BY <1>b, <2>1
  <2>. HIDE DEF Sees
  <2>. QED
    BY <1>a, <1>b, <2>1, <2>2
<1>8. ASSUME NEW c \in Clerks, Insert(c)
      PROVE  WaitInv'
  <2>. DEFINE N == Len(versions) + 1
  <2>0. /\ Others(c) /\ Released(c) /\ pc[c] \in Saving /\ N # 0
        /\ \A i \in Items : applied'[i] = IF i \in job[c].ready THEN N ELSE applied[i]
        /\ \A i \in Items : verdict'[i] = IF i \in job[c].item THEN "approved" ELSE verdict[i]
        /\ late' = (late \ {c}) \cup {d \in Clerks \ {c} : pc[d] \notin {"idle", "decided"}}
        /\ crossed' = (crossed \/ c \in late)
    BY <1>0, <1>8, InsertWrites, VersionRows DEF Saving
  <2>. HIDE DEF N
  <2>1. SeesAll'
    BY <1>d, <2>0 DEF Released
  <2>2. ASSUME SomeMissing PROVE SomeMissing'
    <3>1. PICK m \in Metrics : \A i \in Items : MetricOf[i] = m => ~Waiting(i)
      BY <2>2 DEF SomeMissing
    <3>2. ASSUME NEW i \in Items, Waiting(i)', MetricOf[i] = m PROVE FALSE
      <4>1. i \notin job[c].ready
        BY <2>0, <3>2 DEF Waiting
      <4>2. i \in job[c].item
        BY <2>0, <3>1, <3>2, <4>1 DEF Waiting
      <4>3. PICK k \in job[c].ready : MetricOf[k] = m
        BY <2>0, <3>2, <4>2 DEF ReadyPicked
      <4>4. Waiting(k) \/ k \in job[c].item
        BY <2>0 DEF ReadyPicked
      <4>5. k \in job[c].item
        BY <1>0, <3>1, <4>3, <4>4
      <4>. QED
        BY <4>1, <4>2, <4>3, <4>5 DEF DecisionsNumbered
    <3>. QED
      BY <3>2 DEF SomeMissing
  <2>. QED
    BY <2>0, <2>1, <2>2 DEF WaitInv
<1>9. ASSUME NEW c \in Clerks, RollBack(c)
      PROVE  WaitInv'
  <2>1. Others(c) /\ pc'[c] # "reading" /\ (late' = late \/ late' = late \ {c}) /\ UNCHANGED <<verdict, applied, crossed>>
    BY <1>0, <1>9, RollBackWrites DEF Released
  <2>. HIDE DEF Sees
  <2>. QED
    BY <1>a, <1>b, <1>c, <2>1
<1>10. ASSUME NEW i \in Items, Reject(i)
      PROVE  WaitInv'
  <2>1. /\ UNCHANGED <<applied, pc, job, crossed>> /\ late \subseteq late'
        /\ \A k \in Items \ {i} : verdict'[k] = verdict[k]
        /\ verdict'[i] = "rejected"
    BY <1>0, <1>10, RejectWrites
  <2>2. \A k \in Items : Waiting(k)' => Waiting(k)
    BY <2>1 DEF Waiting
  <2>3. \A d \in Clerks : Sees(d) => Sees(d)'
    BY <2>1, <2>2
  <2>. HIDE DEF Sees
  <2>. QED
    BY <1>a, <2>1, <2>2, <2>3
<1>11. ASSUME NextDay
      PROVE  WaitInv'
  <2>1. UNCHANGED <<verdict, applied, pc, job, late, crossed>>
    BY <1>0, <1>11, NextDayWrites
  <2>2. \A d \in Clerks : Sees(d) => Sees(d)'
    BY <1>b, <2>1
  <2>. HIDE DEF Sees
  <2>. QED
    BY <1>a, <1>b, <2>1, <2>2
<1>12. ASSUME UNCHANGED marketVars
      PROVE  WaitInv'
  <2>1. UNCHANGED <<verdict, applied, pc, job, late, crossed>>
    BY <1>12 DEF marketVars, itemVars
  <2>2. \A d \in Clerks : Sees(d) => Sees(d)'
    BY <1>b, <2>1
  <2>. HIDE DEF Sees
  <2>. QED
    BY <1>a, <1>b, <2>1, <2>2
<1>. QED
  BY <1>1, <1>2, <1>3, <1>4, <1>5, <1>6, <1>7, <1>8, <1>9, <1>10, <1>11, <1>12 DEF MarketNext, Saves

LEMMA ClosedStep ==
  ASSUME MarketShape, ItemsLocked, ReadyPicked, [MarketNext]_marketVars, NEW i \in Items, applied[i] # 0
  PROVE  applied'[i] = applied[i] /\ verdict'[i] = verdict[i] /\ decided'[i] = decided[i]
<1>. DEFINE Goal == applied'[i] = applied[i] /\ verdict'[i] = verdict[i] /\ decided'[i] = decided[i]
<1>0. MarketTyped
  BY DEF MarketShape
<1>a. \A c \in Clerks : i \notin job[c].item /\ (pc[c] \in Saving => i \notin job[c].ready)
  BY DEF ItemsLocked
<1>1. ASSUME NEW c \in Clerks, NEW k \in Items, Approve(c, k)
      PROVE  Goal
  BY <1>0, <1>a, <1>1, ApproveWrites
<1>2. ASSUME NEW c \in Clerks, ReadReady(c)
      PROVE  Goal
  BY <1>0, <1>a, <1>2, ReadReadyWrites
<1>3. ASSUME NEW c \in Clerks, LockReady(c)
      PROVE  Goal
  BY <1>0, <1>a, <1>3, LockReadyWrites
<1>4. ASSUME NEW c \in Clerks, CommitWaiting(c)
      PROVE  Goal
  BY <1>0, <1>a, <1>4, CommitWaitingWrites
<1>5. ASSUME NEW c \in Clerks, Create(c) \/ Update(c) \/ RetireRead(c)
      PROVE  Goal
  BY <1>0, <1>a, <1>5, AdministratorWrites
<1>6. ASSUME NEW c \in Clerks, RetireWrite(c)
      PROVE  Goal
  BY <1>0, <1>a, <1>6, RetireWriteWrites
<1>7. ASSUME NEW c \in Clerks, PickLatest(c) \/ LockLatest(c)
      PROVE  Goal
  BY <1>0, <1>a, <1>7, LatestWrites
<1>8. ASSUME NEW c \in Clerks, Insert(c)
      PROVE  Goal
  BY <1>0, <1>a, <1>8, InsertWrites DEF Saving
<1>9. ASSUME NEW c \in Clerks, RollBack(c)
      PROVE  Goal
  BY <1>0, <1>a, <1>9, RollBackWrites
<1>10. ASSUME NEW k \in Items, Reject(k)
      PROVE  Goal
  BY <1>0, <1>a, <1>10, RejectWrites
<1>11. ASSUME NextDay
      PROVE  Goal
  BY <1>0, <1>a, <1>11, NextDayWrites
<1>12. ASSUME UNCHANGED marketVars
      PROVE  Goal
  BY <1>12 DEF marketVars, itemVars, zoneVars
<1>. QED
  BY <1>1, <1>2, <1>3, <1>4, <1>5, <1>6, <1>7, <1>8, <1>9, <1>10, <1>11, <1>12 DEF MarketNext, Saves

CarriedGoal(v) ==
  (/\ versions[v].saw = v - 1
   /\ AppliesFrom(v - 1) <= versions[v].saved
   /\ \A u \in 1..(v - 2) : AppliesFrom(u) <= AppliesFrom(v - 1) /\ versions[u].no < versions[v - 1].no)
  => \A m \in Metrics \ versions[v].changed : versions[v].rate[m] = versions[v - 1].rate[m]

LEMMA CarriedIs == CarriedOver <=> \A v \in 2..Len(versions) : CarriedGoal(v)
BY DEF CarriedOver, CarriedGoal, AppliesFrom

LEMMA CarriedStep ==
  ASSUME MarketShape, ReadyPicked, BasedOnTop, CarriedOver, [MarketNext]_marketVars
  PROVE  CarriedOver'
<1>. DEFINE Goal == \A v \in 2..Len(versions') : CarriedGoal(v)'
<1>0. MarketTyped /\ Len(versions) \in Nat /\ VersionIds = 1..Len(versions)
      /\ \A v \in 2..Len(versions) : CarriedGoal(v)
  BY VersionRows, CarriedIs DEF MarketShape, VersionIds
<1>a. ASSUME \A v \in VersionIds : LET old == versions[v] new == versions'[v] IN
               /\ new.rate = old.rate /\ new.changed = old.changed /\ new.no = old.no
               /\ new.from = old.from /\ new.saved = old.saved /\ new.saw = old.saw
      PROVE  \A v \in 2..Len(versions) : CarriedGoal(v)'
  <2>1. ASSUME NEW v \in 2..Len(versions) PROVE CarriedGoal(v)'
    <3>1. v \in VersionIds /\ v - 1 \in VersionIds /\ \A u \in 1..(v - 2) : u \in VersionIds
      BY <1>0
    <3>2. CarriedGoal(v)
      BY <1>0
    <3>. QED
      BY <1>a, <3>1, <3>2 DEF CarriedGoal, AppliesFrom
  <2>. QED
    BY <2>1
<1>b. versions' = versions => Goal
  <2>. HIDE DEF CarriedGoal
  <2>. QED
    BY <1>a
<1>1. ASSUME NEW c \in Clerks, NEW i \in Items, Approve(c, i)
      PROVE  Goal
  <2>. HIDE DEF Goal
  <2>. QED
    BY <1>0, <1>1, <1>b, ApproveWrites
<1>2. ASSUME NEW c \in Clerks, ReadReady(c)
      PROVE  Goal
  <2>. HIDE DEF Goal
  <2>. QED
    BY <1>0, <1>2, <1>b, ReadReadyWrites
<1>3. ASSUME NEW c \in Clerks, LockReady(c)
      PROVE  Goal
  <2>. HIDE DEF Goal
  <2>. QED
    BY <1>0, <1>3, <1>b, LockReadyWrites
<1>4. ASSUME NEW c \in Clerks, CommitWaiting(c)
      PROVE  Goal
  <2>. HIDE DEF Goal
  <2>. QED
    BY <1>0, <1>4, <1>b, CommitWaitingWrites
<1>5. ASSUME NEW c \in Clerks, Create(c) \/ Update(c) \/ RetireRead(c)
      PROVE  Goal
  <2>. HIDE DEF Goal
  <2>. QED
    BY <1>0, <1>5, <1>b, AdministratorWrites
<1>6. ASSUME NEW c \in Clerks, RetireWrite(c)
      PROVE  Goal
  BY <1>0, <1>6, <1>a, RetireWriteWrites
<1>7. ASSUME NEW c \in Clerks, PickLatest(c) \/ LockLatest(c)
      PROVE  Goal
  <2>. HIDE DEF Goal
  <2>. QED
    BY <1>0, <1>7, <1>b, LatestWrites
<1>8. ASSUME NEW c \in Clerks, Insert(c)
      PROVE  Goal
  <2>n. PICK L \in Nat : L = Len(versions)
    BY <1>0
  <2>o. PICK N \in Nat : N = L + 1
    OBVIOUS
  <2>0. /\ Len(versions') = N /\ \A v \in VersionIds : versions'[v] = versions[v]
        /\ versions'[N] = NewVersion(c) /\ pc[c] \in Saving
    BY <1>0, <1>8, <2>n, <2>o, InsertWrites DEF Saving
  <2>1. \A v \in 2..L : CarriedGoal(v)'
    BY <1>a, <2>0, <2>n
  <2>2. job[c].base = 0 => Metrics \subseteq Covered(c)
    BY <2>0 DEF ReadyPicked
  <2>3. LET new == versions'[N] IN
        /\ new.saved = job[c].day /\ new.changed = Covered(c)
        /\ new.saw = IF job[c].edits = Metrics THEN L ELSE job[c].saw
        /\ \A m \in Metrics : m \notin Covered(c) => new.rate[m] = versions[job[c].base].rate[m]
    <3>1. job[c].edits \subseteq Covered(c)
      BY DEF Covered
    <3>2. \A i \in job[c].ready : MetricOf[i] \in Covered(c)
      BY DEF Covered
    <3>. QED
      BY <2>0, <2>2, <2>n, <3>1, <3>2, NewVersionIs
  <2>4. ASSUME N >= 2 PROVE CarriedGoal(N)'
    <3>1. CASE Metrics \subseteq Covered(c)
      BY <2>3, <3>1 DEF CarriedGoal
    <3>2. CASE ~(Metrics \subseteq Covered(c))
      <4>1. job[c].edits # Metrics
        BY <3>2 DEF Covered
      <4>2. ASSUME versions'[N].saw = N - 1, (AppliesFrom(N - 1) <= versions[N].saved)',
                   (\A u \in 1..(N - 2) : AppliesFrom(u) <= AppliesFrom(N - 1) /\ versions[u].no < versions[N - 1].no)'
            PROVE  job[c].base = L
        <5>1. /\ L \in VersionIds /\ L # 0 /\ N - 1 = L /\ N - 2 = L - 1 /\ \A u \in 1..(L - 1) : u \in VersionIds
          BY <1>0, <2>n, <2>o, <2>4
        <5>2. job[c].saw = L
          BY <2>3, <4>1, <4>2, <5>1
        <5>3. AppliesFrom(L) <= job[c].day
          BY <2>0, <2>3, <4>2, <5>1 DEF AppliesFrom
        <5>4. \A u \in 1..(L - 1) : AppliesFrom(u) <= AppliesFrom(L) /\ versions[u].no < versions[L].no
          BY <2>0, <4>2, <5>1 DEF AppliesFrom
        <5>5. OnTop(job[c].day)
          BY <2>n, <5>1, <5>3, <5>4 DEF OnTop
        <5>. QED
          BY <2>0, <2>n, <3>2, <5>2, <5>5 DEF BasedOnTop
      <4>3. L \in VersionIds /\ N - 1 = L
        BY <1>0, <2>n, <2>o, <2>4
      <4>4. versions'[L] = versions[L]
        BY <2>0, <4>3
      <4>5. CarriedGoal(N)' <=>
              ((/\ versions'[N].saw = N - 1 /\ (AppliesFrom(N - 1) <= versions[N].saved)'
                /\ (\A u \in 1..(N - 2) : AppliesFrom(u) <= AppliesFrom(N - 1) /\ versions[u].no < versions[N - 1].no)')
               => \A m \in Metrics \ versions'[N].changed : versions'[N].rate[m] = versions'[N - 1].rate[m])
        BY DEF CarriedGoal
      <4>. QED
        BY <2>3, <4>2, <4>3, <4>4, <4>5
    <3>. QED
      BY <3>1, <3>2
  <2>. QED
    BY <2>0, <2>1, <2>4, <2>n, <2>o
<1>9. ASSUME NEW c \in Clerks, RollBack(c)
      PROVE  Goal
  <2>. HIDE DEF Goal
  <2>. QED
    BY <1>0, <1>9, <1>b, RollBackWrites
<1>10. ASSUME NEW i \in Items, Reject(i)
      PROVE  Goal
  <2>. HIDE DEF Goal
  <2>. QED
    BY <1>0, <1>10, <1>b, RejectWrites
<1>11. ASSUME NextDay
      PROVE  Goal
  <2>. HIDE DEF Goal
  <2>. QED
    BY <1>0, <1>11, <1>b, NextDayWrites
<1>12. ASSUME UNCHANGED marketVars
      PROVE  Goal
  <2>. HIDE DEF Goal
  <2>. QED
    BY <1>12, <1>b DEF marketVars, zoneVars
<1>13. Goal
  <2>. HIDE DEF Goal
  <2>. QED
    BY <1>1, <1>2, <1>3, <1>4, <1>5, <1>6, <1>7, <1>8, <1>9, <1>10, <1>11, <1>12 DEF MarketNext, Saves
<1>. QED
  BY <1>13, CarriedIs DEF CarriedGoal, CarriedOver, AppliesFrom

(* What else the rows and locks keep: the current version is not retired,  *)
(* a version's rate is an item's or was typed in it or before, and a       *)
(* request locks versions that are there.                                  *)
RowsSound ==
  /\ Len(versions) <= MaxVersions
  /\ current # 0 => ~versions[current].retired
  /\ \A v \in VersionIds, m \in Metrics : versions[v].rate[m] \in Items \cup VersionIds
  /\ \A c \in Clerks : row[c] <= Len(versions)

LEMMA RowsSoundStep ==
  ASSUME MarketShape, MarketShape', ReadyPicked, RowsSound, [MarketNext]_marketVars
  PROVE  RowsSound'
<1>. USE DEF RowsSound
<1>0. /\ MarketTyped /\ Len(versions) \in Nat /\ VersionIds = 1..Len(versions) /\ VersionIds' = 1..Len(versions')
      /\ row \in [Clerks -> Nat] /\ current \in 0..Len(versions)
      /\ \A v \in VersionIds : versions[v] \in VersionRow
  BY VersionRows DEF MarketShape, MarketTyped, VersionIds
<1>1. ASSUME UNCHANGED <<versions, current>>, \A d \in Clerks : row'[d] \in {0, row[d]}
      PROVE  RowsSound'
  BY <1>0, <1>1
<1>2. ASSUME NEW c \in Clerks, Released(c), Others(c), UNCHANGED <<versions, current>>
      PROVE  RowsSound'
  BY <1>0, <1>2, <1>1 DEF Released, Others
<1>3. ASSUME NEW c \in Clerks, Insert(c)
      PROVE  RowsSound'
  <2>. DEFINE N == Len(versions) + 1
  <2>1. /\ Len(versions') = N /\ versions'[N] = NewVersion(c) /\ current' = N
        /\ \A v \in VersionIds : versions'[v] = versions[v]
        /\ Others(c) /\ Released(c)
    BY <1>3, InsertWrites
  <2>2. N <= MaxVersions
    BY <1>0, <1>3, MarketAssumption DEF Insert, CanSave
  <2>3. job[c].base = 0 => Metrics \subseteq Covered(c)
    BY <1>3 DEF ReadyPicked, Insert, Saving
  <2>4. job[c].ready \subseteq Items
    BY <1>0 DEF MarketTyped, JobRecord
  <2>5. ~NewVersion(c).retired
    BY <2>3, NewVersionIs
  <2>6. \A m \in Metrics : NewVersion(c).rate[m] \in Items \cup 1..N
    <3>1. \A m \in job[c].edits : NewVersion(c).rate[m] = N
      BY <2>3, NewVersionIs
    <3>2. \A m \in Metrics \ job[c].edits :
            \/ NewVersion(c).rate[m] \in job[c].ready
            \/ job[c].base \in VersionIds /\ NewVersion(c).rate[m] = versions[job[c].base].rate[m]
      BY <2>3, NewVersionIs
    <3>3. N \in 1..N /\ VersionIds \subseteq 1..N
      BY <1>0
    <3>. QED
      BY <2>4, <3>1, <3>2, <3>3
  <2>7. \A v \in 1..N, m \in Metrics : versions'[v].rate[m] \in Items \cup 1..N
    <3>1. ASSUME NEW v \in VersionIds, NEW m \in Metrics
          PROVE  versions'[v].rate[m] \in Items \cup 1..N
      BY <1>0, <2>1, <3>1
    <3>2. \A v \in 1..N : v = N \/ v \in VersionIds
      BY <1>0
    <3>. QED
      BY <2>1, <2>6, <3>1, <3>2
  <2>8. \A d \in Clerks : row'[d] <= N
    BY <1>0, <2>1 DEF Others, Released
  <2>. QED
    BY <1>0, <2>1, <2>2, <2>5, <2>7, <2>8
<1>4. ASSUME NEW c \in Clerks, RetireWrite(c)
      PROVE  RowsSound'
  <2>1. /\ Len(versions') = Len(versions) /\ Others(c) /\ Released(c)
        /\ current' = IF current = job[c].base THEN 0 ELSE current
        /\ \A v \in VersionIds : /\ versions'[v].rate = versions[v].rate
                                 /\ versions'[v].retired = (versions[v].retired \/ v = job[c].base)
    BY <1>0, <1>4, RetireWriteWrites
  <2>2. current' # 0 => current' = current /\ current \in VersionIds /\ current # job[c].base
    BY <1>0, <2>1
  <2>3. current' # 0 => ~versions'[current'].retired
    BY <2>1, <2>2
  <2>. QED
    BY <1>0, <2>1, <2>3 DEF Others, Released
<1>5. ASSUME NEW c \in Clerks, PickLatest(c) \/ LockLatest(c)
      PROVE  RowsSound'
  <2>1. job[c].head \in 0..Len(versions)
    BY <1>0 DEF MarketShape, VersionsThere
  <2>2. \A d \in Clerks : row'[d] \in {row[d], job[c].head}
    BY <1>0, <1>5 DEF PickLatest, LockLatest
  <2>3. UNCHANGED <<versions, current>>
    BY <1>5 DEF PickLatest, LockLatest, Undisturbed, zoneVars
  <2>. QED
    BY <1>0, <2>1, <2>2, <2>3
<1>6. ASSUME NEW c \in Clerks, CommitWaiting(c) \/ RollBack(c)
      PROVE  RowsSound'
  BY <1>0, <1>2, <1>6, CommitWaitingWrites, RollBackWrites
<1>7. CASE UNCHANGED <<versions, current, row>>
  BY <1>1, <1>7
<1>. QED
  BY <1>3, <1>4, <1>5, <1>6, <1>7 DEF MarketNext, Saves, Approve, ReadReady, LockReady, Create, Update,
     RetireRead, Reject, NextDay, Undisturbed, zoneVars, marketVars

(* The strengthening: each part needs the ones before it.                  *)
MarketInv ==
  /\ MarketShape /\ ItemsLocked /\ DecisionsNumbered /\ ReadyPicked /\ ItemSeen
  /\ Figures /\ BasedOnTop /\ CarriedOver /\ WaitInv /\ RowsSound

LEMMA MarketInvInit == MarketInit => MarketInv
<1>. SUFFICES ASSUME MarketInit PROVE MarketInv
  OBVIOUS
<1>1. MarketShape /\ VersionIds = {} /\ Len(versions) = 0
  BY MarketShapeInit DEF MarketInit, VersionIds
<1>2. \A c \in Clerks : pc[c] = "idle" /\ job[c] = NoJob /\ holds[c] = {}
  BY DEF MarketInit
<1>3. \A i \in Items : applied[i] = 0 /\ decided[i] = 0 /\ ~Waiting(i)
  BY DEF MarketInit, Waiting
<1>4. ItemsLocked /\ DecisionsNumbered /\ ReadyPicked /\ ItemSeen /\ BasedOnTop
  <2>1. \A c \in Clerks : pc[c] \notin Saving /\ job[c].item = {} /\ job[c].edits = {}
    BY <1>2, JobsTyped DEF Saving
  <2>2. ItemsLocked /\ ReadyPicked /\ ItemSeen /\ BasedOnTop
    BY <1>2, <2>1 DEF ItemsLocked, ReadyPicked, ItemSeen, BasedOnTop
  <2>3. DecisionsNumbered
    BY <1>3, <2>1 DEF DecisionsNumbered, MarketInit
  <2>. QED
    BY <2>2, <2>3
<1>5. Figures /\ CarriedOver
  BY <1>1, <1>3 DEF Figures, CarriedOver
<1>6. WaitInv
  BY <1>2, <1>3, MarketAssumption DEF WaitInv, SomeMissing, SeesAll
<1>7. RowsSound
  BY <1>1, MarketAssumption DEF RowsSound, MarketInit
<1>. QED
  BY <1>1, <1>4, <1>5, <1>6, <1>7 DEF MarketInv

LEMMA MarketInvStep ==
  ASSUME MarketInv, [MarketNext]_marketVars
  PROVE  MarketInv'
<1>1. /\ MarketShape /\ ItemsLocked /\ DecisionsNumbered /\ ReadyPicked /\ ItemSeen
      /\ Figures /\ BasedOnTop /\ CarriedOver /\ WaitInv /\ RowsSound
  BY DEF MarketInv
<1>2. MarketShape' /\ ItemsLocked' /\ DecisionsNumbered'
  BY <1>1, MarketShapeStep, ItemsLockedStep, DecisionsNumberedStep
<1>3. ReadyPicked' /\ ItemSeen'
  BY <1>1, ReadyPickedStep
<1>4. Figures' /\ BasedOnTop' /\ CarriedOver' /\ WaitInv'
  BY <1>1, <1>3, FiguresStep, BasedOnTopStep, CarriedStep, WaitStep
<1>5. RowsSound'
  BY <1>1, <1>2, RowsSoundStep
<1>. QED
  BY <1>2, <1>3, <1>4, <1>5 DEF MarketInv

LEMMA MarketAlways == MarketSpec => []MarketInv
BY MarketInvInit, MarketInvStep, PTL DEF MarketSpec

(* Items, versions and requests have their shape, whatever the number of   *)
(* requests; the version called current is never a retired one.            *)
THEOREM MarketTypes == MarketSpec => []MarketTypeOK
<1>1. MarketInv => MarketTypeOK
  <2>. SUFFICES ASSUME MarketInv
                PROVE  MarketTypeOK
    OBVIOUS
  <2>1. MarketTyped /\ RowsSound /\ Len(versions) \in Nat /\ VersionIds = 1..Len(versions)
    BY VersionRows DEF MarketInv, MarketShape, VersionIds
  <2>2. decided \in [Items -> 0..decisions]
    BY <2>1 DEF MarketInv, DecisionsNumbered, MarketTyped
  <2>3. applied \in [Items -> 0..MaxVersions]
    <3>1. \A i \in Items : applied[i] # 0 => applied[i] \in VersionIds
      BY DEF MarketInv, Figures
    <3>. QED
      BY <2>1, <3>1, MarketAssumption DEF MarketTyped, RowsSound
  <2>4. \A v \in VersionIds : versions[v].rate \in [Metrics -> Items \cup VersionIds]
    <3>1. \A v \in VersionIds : versions[v].rate \in [Metrics -> Items \cup Nat]
      BY <2>1, VersionRows DEF VersionRow
    <3>. QED
      BY <2>1, <3>1 DEF RowsSound
  <2>5. row \in [Clerks -> 0..MaxVersions]
    BY <2>1, MarketAssumption DEF MarketTyped, RowsSound
  <2>. QED
    BY <2>1, <2>2, <2>3, <2>4, <2>5 DEF MarketTypeOK, MarketTyped, RowsSound
<1>. QED
  BY <1>1, MarketAlways, PTL

(* No decision, retry or concurrent approval changes an applied item.      *)
THEOREM AppliedClosed == MarketSpec => AppliedIsClosed
<1>1. ASSUME MarketInv, [MarketNext]_marketVars
      PROVE  [\A i \in Items : applied[i] # 0 =>
                applied'[i] = applied[i] /\ verdict'[i] = verdict[i] /\ decided'[i] = decided[i]]_marketVars
  BY <1>1, ClosedStep DEF MarketInv
<1>. QED
  BY <1>1, MarketAlways, PTL DEF MarketSpec, AppliedIsClosed

(* A figure stands in a version exactly if its item was approved and names *)
(* the version that first had it.                                          *)
THEOREM FiguresReviewed == MarketSpec => []Provenance
<1>1. MarketInv => Provenance
  BY DEF MarketInv, Figures, Provenance
<1>. QED
  BY <1>1, MarketAlways, PTL

(* A version whose writer saw the one in force before it changes only what *)
(* it was written for.                                                     *)
THEOREM RestCarried == MarketSpec => []CarriedOver
<1>1. MarketInv => CarriedOver
  BY DEF MarketInv
<1>. QED
  BY <1>1, MarketAlways, PTL

(* While no two requests have crossed, some metric has no approved item    *)
(* waiting: a complete zone has its version.                               *)
THEOREM NobodyWaits == MarketSpec => []FirstVersionArrives
<1>1. MarketInv => FirstVersionArrives
  BY DEF MarketInv, WaitInv, SomeMissing, FirstVersionArrives
<1>. QED
  BY <1>1, MarketAlways, PTL
-----------------------------------------------------------------------------
(* The visitor's assumptions: the engine's ranges are its true extremes.    *)

(* The order of products and quotients.                                    *)
LEMMA ProductMonotone ==
  ASSUME NEW a \in Int, NEW b \in Int, NEW k \in Int, a <= b, k >= 0
  PROVE  a * k <= b * k /\ k * a <= k * b
OBVIOUS

LEMMA Quotient ==
  ASSUME NEW n \in Int, NEW d \in Int, d > 0
  PROVE  /\ n \div d \in Int
         /\ d * (n \div d) <= n /\ n < d * ((n \div d) + 1)
OBVIOUS

LEMMA QuotientMonotone ==
  ASSUME NEW n \in Int, NEW m \in Int, NEW d \in Int, NEW e \in Int, d > 0, e > 0, n * e <= m * d
  PROVE  n \div d <= m \div e
<1>. DEFINE q == n \div d
            r == m \div e
<1>1. q \in Int /\ r \in Int /\ d * q <= n /\ m < e * (r + 1)
  BY Quotient
<1>. HIDE DEF q, r
<1>2. SUFFICES ASSUME q > r PROVE FALSE
  BY <1>1 DEF q, r
<1>3. r + 1 <= q
  BY <1>1, <1>2
<1>4. (d * e) * (r + 1) <= (d * e) * q
  BY <1>1, <1>3, ProductMonotone
<1>5. e * (d * q) <= e * n
  BY <1>1, ProductMonotone
<1>6. d * m < d * (e * (r + 1))
  BY <1>1
<1>. QED
  BY <1>1, <1>4, <1>5, <1>6

(* Rounding keeps the order of fractions, negative ones too.               *)
LEMMA RoundedType ==
  ASSUME NEW n \in Int, NEW d \in Int, d > 0
  PROVE  /\ Rounded(n, d) \in Int
         /\ n >= 0 => Rounded(n, d) >= 0
         /\ n < 0 => Rounded(n, d) <= 0
<1>1. CASE n >= 0
  <2>1. 200 * n + d \in Int /\ 2 * d \in Int /\ 2 * d > 0 /\ 0 \div (2 * d) = 0
    BY Quotient
  <2>2. 0 \div (2 * d) <= (200 * n + d) \div (2 * d)
    BY <1>1, <2>1, QuotientMonotone
  <2>. QED
    BY <1>1, <2>1, <2>2, Quotient DEF Rounded
<1>2. CASE n < 0
  <2>1. 200 * (-n) + d \in Int /\ 2 * d \in Int /\ 2 * d > 0 /\ 0 \div (2 * d) = 0
    BY Quotient
  <2>2. 0 \div (2 * d) <= (200 * (-n) + d) \div (2 * d)
    BY <1>2, <2>1, QuotientMonotone
  <2>. QED
    BY <1>2, <2>1, <2>2, Quotient DEF Rounded
<1>. QED
  BY <1>1, <1>2

LEMMA RoundedMonotone ==
  ASSUME NEW n \in Int, NEW m \in Int, NEW d \in Int, NEW e \in Int, d > 0, e > 0, n * e <= m * d
  PROVE  Rounded(n, d) <= Rounded(m, e)
<1>0. 2 * d \in Int /\ 2 * d > 0 /\ 2 * e \in Int /\ 2 * e > 0
  OBVIOUS
<1>1. CASE n >= 0 /\ m >= 0
  <2>1. (200 * n + d) * (2 * e) <= (200 * m + e) * (2 * d)
    <3>1. (200 * n + d) * (2 * e) = 400 * (n * e) + 2 * (d * e)
      OBVIOUS
    <3>2. (200 * m + e) * (2 * d) = 400 * (m * d) + 2 * (d * e)
      OBVIOUS
    <3>. QED
      BY <3>1, <3>2
  <2>2. (200 * n + d) \div (2 * d) <= (200 * m + e) \div (2 * e)
    BY <1>0, <2>1, QuotientMonotone
  <2>. QED
    BY <1>1, <2>2 DEF Rounded
<1>2. CASE n < 0 /\ m < 0
  <2>1. (200 * (-m) + e) * (2 * d) <= (200 * (-n) + d) * (2 * e)
    <3>1. (200 * (-n) + d) * (2 * e) = 2 * (d * e) - 400 * (n * e)
      OBVIOUS
    <3>2. (200 * (-m) + e) * (2 * d) = 2 * (d * e) - 400 * (m * d)
      OBVIOUS
    <3>. QED
      BY <3>1, <3>2
  <2>2. (200 * (-m) + e) \div (2 * e) <= (200 * (-n) + d) \div (2 * d)
    BY <1>0, <2>1, QuotientMonotone
  <2>3. (200 * (-m) + e) \div (2 * e) \in Int /\ (200 * (-n) + d) \div (2 * d) \in Int
    BY <1>0, Quotient
  <2>. QED
    BY <1>2, <2>2, <2>3 DEF Rounded
<1>3. CASE n < 0 /\ m >= 0
  BY <1>3, RoundedType
<1>4. CASE n >= 0 /\ m < 0
  <2>1. n * e >= 0 /\ m * d < 0
    BY <1>4
  <2>. QED
    BY <2>1
<1>. QED
  BY <1>1, <1>2, <1>3, <1>4

(* A triple of an input is ordered; a point of it has its denominator.     *)
Ordered(x) ==
  /\ x.low \in Nat /\ x.expected \in Nat /\ x.high \in Nat /\ x.per \in Nat \ {0}
  /\ x.low <= x.expected /\ x.expected <= x.high
Point(y, x) ==
  /\ y.per = x.per /\ y.low = y.expected /\ y.high = y.expected /\ y.expected \in Nat
  /\ x.low <= y.expected /\ y.expected <= x.high

LEMMA TimesPoint ==
  ASSUME NEW x, NEW y, Ordered(x), Point(y, x), NEW k \in Nat, NEW per \in Nat \ {0}
  PROVE  Ordered(Times(k, x, per)) /\ Point(Times(k, y, per), Times(k, x, per))
<1>1. k * x.low <= k * x.expected /\ k * x.expected <= k * x.high
      /\ k * x.low <= k * y.expected /\ k * y.expected <= k * x.high
  BY ProductMonotone DEF Ordered, Point
<1>2. k * x.low \in Nat /\ k * x.expected \in Nat /\ k * x.high \in Nat /\ k * y.expected \in Nat
      /\ per * x.per \in Nat \ {0}
  BY DEF Ordered, Point
<1>. QED
  BY <1>1, <1>2 DEF Ordered, Point, Times, Triple

LEMMA PlusPoint ==
  ASSUME NEW x, NEW y, NEW u, NEW v, Ordered(x), Ordered(u), Point(y, x), Point(v, u)
  PROVE  Ordered(Plus(x, u)) /\ Point(Plus(y, v), Plus(x, u))
<1>1. x.low * u.per <= x.expected * u.per /\ x.expected * u.per <= x.high * u.per
      /\ x.low * u.per <= y.expected * u.per /\ y.expected * u.per <= x.high * u.per
  BY ProductMonotone DEF Ordered, Point
<1>2. u.low * x.per <= u.expected * x.per /\ u.expected * x.per <= u.high * x.per
      /\ u.low * x.per <= v.expected * x.per /\ v.expected * x.per <= u.high * x.per
  BY ProductMonotone DEF Ordered, Point
<1>3. /\ x.low * u.per \in Nat /\ x.expected * u.per \in Nat /\ x.high * u.per \in Nat
      /\ u.low * x.per \in Nat /\ u.expected * x.per \in Nat /\ u.high * x.per \in Nat
      /\ y.expected * u.per \in Nat /\ v.expected * x.per \in Nat /\ x.per * u.per \in Nat \ {0}
  BY DEF Ordered, Point
<1>4. y.per = x.per /\ v.per = u.per /\ y.low = y.expected /\ y.high = y.expected
      /\ v.low = v.expected /\ v.high = v.expected
  BY DEF Point
<1>. DEFINE s == Plus(x, u)
            t == Plus(y, v)
<1>5. /\ s.low = x.low * u.per + u.low * x.per /\ s.expected = x.expected * u.per + u.expected * x.per
      /\ s.high = x.high * u.per + u.high * x.per /\ s.per = x.per * u.per
      /\ t.low = y.low * v.per + v.low * y.per /\ t.expected = y.expected * v.per + v.expected * y.per
      /\ t.high = y.high * v.per + v.high * y.per /\ t.per = y.per * v.per
  BY DEF Plus, Triple
<1>. HIDE DEF s, t
<1>6. Ordered(s)
  BY <1>1, <1>2, <1>3, <1>5 DEF Ordered
<1>7. t.per = s.per /\ t.low = t.expected /\ t.high = t.expected
      /\ t.expected = y.expected * u.per + v.expected * x.per
  BY <1>4, <1>5
<1>8. Point(t, s)
  BY <1>1, <1>2, <1>3, <1>5, <1>7 DEF Point
<1>. QED
  BY <1>6, <1>8 DEF s, t

(* What a figure shows of a triple covers what it shows of a point of it.  *)
Covers(shown, exact) ==
  shown.status = "ok" => exact.status = "ok" /\ exact.expected \in shown.low..shown.high

LEMMA OkCovers ==
  ASSUME NEW x, NEW y, Ordered(x), Point(y, x)
  PROVE  Covers(Ok(x), Ok(y))
<1>1. x.low * y.per <= y.expected * x.per /\ y.expected * x.per <= x.high * y.per
  BY ProductMonotone DEF Ordered, Point
<1>2. Rounded(x.low, x.per) <= Rounded(y.expected, y.per)
      /\ Rounded(y.expected, y.per) <= Rounded(x.high, x.per)
  <2>1. /\ x.low \in Int /\ x.high \in Int /\ x.per \in Int /\ x.per > 0
        /\ y.expected \in Int /\ y.per \in Int /\ y.per > 0
    BY DEF Ordered, Point
  <2>. QED
    BY <1>1, <2>1, RoundedMonotone
<1>3. Rounded(x.low, x.per) \in Int /\ Rounded(y.expected, y.per) \in Int /\ Rounded(x.high, x.per) \in Int
  BY RoundedType DEF Ordered, Point
<1>. QED
  BY <1>2, <1>3 DEF Covers, Ok, Figure

LEMMA ProfitCovers ==
  ASSUME NEW x, NEW y, NEW u, NEW v, Ordered(x), Ordered(u), Point(y, x), Point(v, u)
  PROVE  Covers(Ok(Profit(x, u)), Ok(Profit(y, v)))
<1>. DEFINE s == Profit(x, u)
            t == Profit(y, v)
<1>1. /\ s.low = x.low * u.per - u.high * x.per /\ s.high = x.high * u.per - u.low * x.per
      /\ s.per = x.per * u.per
      /\ t.expected = y.expected * v.per - v.expected * y.per /\ t.per = y.per * v.per
  BY DEF Profit, Triple
<1>. HIDE DEF s, t
<1>2. x.low * u.per <= y.expected * u.per /\ y.expected * u.per <= x.high * u.per
      /\ u.low * x.per <= v.expected * x.per /\ v.expected * x.per <= u.high * x.per
  BY ProductMonotone DEF Ordered, Point
<1>3. /\ x.low * u.per \in Nat /\ x.high * u.per \in Nat /\ u.low * x.per \in Nat /\ u.high * x.per \in Nat
      /\ y.expected * u.per \in Nat /\ v.expected * x.per \in Nat /\ x.per * u.per \in Nat \ {0}
  BY DEF Ordered, Point
<1>4. t.per = s.per /\ t.expected = y.expected * u.per - v.expected * x.per
  BY <1>1 DEF Point
<1>5. /\ s.low \in Int /\ s.high \in Int /\ t.expected \in Int /\ s.per \in Int /\ s.per > 0
      /\ s.low <= t.expected /\ t.expected <= s.high
  BY <1>1, <1>2, <1>3, <1>4
<1>6. s.low * s.per <= t.expected * s.per /\ t.expected * s.per <= s.high * s.per
  BY <1>5, ProductMonotone
<1>7. Rounded(s.low, s.per) <= Rounded(t.expected, t.per) /\ Rounded(t.expected, t.per) <= Rounded(s.high, s.per)
  BY <1>4, <1>5, <1>6, RoundedMonotone
<1>8. Rounded(s.low, s.per) \in Int /\ Rounded(t.expected, t.per) \in Int /\ Rounded(s.high, s.per) \in Int
  BY <1>4, <1>5, RoundedType
<1>. QED
  BY <1>7, <1>8 DEF Covers, Ok, Figure, s, t

(* ROI = revenue / cost - 1 falls with the cost and grows with the revenue: *)
(* a smaller revenue over a larger cost gives a smaller percentage.        *)
LEMMA RoiMonotone ==
  ASSUME NEW r \in Nat, NEW q \in Nat, NEW c \in Nat \ {0}, NEW e \in Nat \ {0},
         NEW rp \in Nat \ {0}, NEW cp \in Nat \ {0}, r <= q, e <= c
  PROVE  Rounded(100 * (r * cp - c * rp), rp * c) <= Rounded(100 * (q * cp - e * rp), rp * e)
<1>1. (r * cp) * e <= (q * cp) * c
  <2>1. r * e <= q * e /\ q * e <= q * c
    BY ProductMonotone
  <2>2. (r * e) * cp <= (q * c) * cp
    BY <2>1, ProductMonotone
  <2>. QED
    BY <2>2
<1>2. (r * cp - c * rp) * e <= (q * cp - e * rp) * c
  <2>1. (r * cp - c * rp) * e = (r * cp) * e - (c * rp) * e
    OBVIOUS
  <2>2. (q * cp - e * rp) * c = (q * cp) * c - (c * rp) * e
    OBVIOUS
  <2>. QED
    BY <1>1, <2>1, <2>2
<1>3. (100 * (r * cp - c * rp)) * (rp * e) <= (100 * (q * cp - e * rp)) * (rp * c)
  <2>. DEFINE a == (r * cp - c * rp) * e
              b == (q * cp - e * rp) * c
  <2>1. a \in Int /\ b \in Int /\ 100 * rp \in Int /\ 100 * rp >= 0
    OBVIOUS
  <2>2. a * (100 * rp) <= b * (100 * rp)
    BY <1>2, <2>1, ProductMonotone
  <2>3. (100 * (r * cp - c * rp)) * (rp * e) = a * (100 * rp)
    OBVIOUS
  <2>4. (100 * (q * cp - e * rp)) * (rp * c) = b * (100 * rp)
    OBVIOUS
  <2>. QED
    BY <2>2, <2>3, <2>4
<1>4. rp * c \in Int /\ rp * c > 0 /\ rp * e \in Int /\ rp * e > 0
  OBVIOUS
<1>5. 100 * (r * cp - c * rp) \in Int /\ 100 * (q * cp - e * rp) \in Int
  OBVIOUS
<1>. DEFINE a == 100 * (r * cp - c * rp)
            b == 100 * (q * cp - e * rp)
            k == rp * c
            l == rp * e
<1>6. a \in Int /\ b \in Int /\ k \in Int /\ k > 0 /\ l \in Int /\ l > 0 /\ a * l <= b * k
  BY <1>3, <1>4, <1>5
<1>. HIDE DEF a, b, k, l
<1>7. Rounded(a, k) <= Rounded(b, l)
  BY <1>6, RoundedMonotone
<1>. QED
  BY <1>7 DEF a, b, k, l

LEMMA RoiCovers ==
  ASSUME NEW x, NEW y, NEW u, NEW v, Ordered(x), Ordered(u), Point(y, x), Point(v, u)
  PROVE  Covers(Roi(x, u), Roi(y, v))
<1>1. CASE u.expected = 0 \/ u.low = 0 \/ u.high = 0
  BY <1>1 DEF Covers, Roi, Cannot
<1>2. CASE u.expected # 0 /\ u.low # 0 /\ u.high # 0
  <2>. DEFINE low == Rounded(100 * (x.low * u.per - u.high * x.per), x.per * u.high)
              high == Rounded(100 * (x.high * u.per - u.low * x.per), x.per * u.low)
              mid == Rounded(100 * (y.expected * u.per - v.expected * x.per), x.per * v.expected)
  <2>1. v.expected \in Nat \ {0} /\ u.low \in Nat \ {0} /\ u.high \in Nat \ {0}
    BY <1>2 DEF Ordered, Point
  <2>2. /\ x.low \in Nat /\ x.high \in Nat /\ y.expected \in Nat /\ x.per \in Nat \ {0} /\ u.per \in Nat \ {0}
        /\ x.low <= y.expected /\ y.expected <= x.high /\ u.low <= v.expected /\ v.expected <= u.high
    BY DEF Ordered, Point
  <2>3. low <= mid /\ mid <= high
    BY <2>1, <2>2, RoiMonotone
  <2>4. low \in Int /\ mid \in Int /\ high \in Int
    <3>1. x.per * u.high > 0 /\ x.per * u.low > 0 /\ x.per * v.expected > 0
          /\ x.per * u.high \in Int /\ x.per * u.low \in Int /\ x.per * v.expected \in Int
      BY <2>1, <2>2
    <3>2. /\ 100 * (x.low * u.per - u.high * x.per) \in Int
          /\ 100 * (x.high * u.per - u.low * x.per) \in Int
          /\ 100 * (y.expected * u.per - v.expected * x.per) \in Int
      BY <2>1, <2>2
    <3>. QED
      BY <3>1, <3>2, RoundedType
  <2>5. Roi(x, u).low = low /\ Roi(x, u).high = high /\ Roi(x, u).status = "ok"
    BY <1>2 DEF Roi, Profit, Triple, Figure
  <2>6. y.per = x.per /\ v.per = u.per /\ v.expected # 0 /\ v.low = v.expected /\ v.high = v.expected
    BY <2>1 DEF Point
  <2>7. Roi(y, v).expected = mid /\ Roi(y, v).status = "ok"
    BY <2>6 DEF Roi, Profit, Triple, Figure
  <2>. HIDE DEF low, mid, high
  <2>. QED
    BY <2>3, <2>4, <2>5, <2>7 DEF Covers
<1>. QED
  BY <1>1, <1>2

(* Inputs the engine accepts, and rates that are ordered triples.          *)
PlanOK(plan) == plan.area \in Nat \cup {Nothing} /\ plan.far \in Nat \cup {Nothing}
RatesOrdered(m) == Ordered(m.land) /\ Ordered(m.design) /\ Ordered(m.construction) /\ Ordered(m.price)
RatesPoint(n, m) == /\ Point(n.land, m.land) /\ Point(n.design, m.design)
                    /\ Point(n.construction, m.construction) /\ Point(n.price, m.price)

LEMMA AreaCovers ==
  ASSUME NEW n \in Int, NEW per \in Nat \ {0}
  PROVE  Covers(Area(n, per), Area(n, per))
<1>1. Rounded(n, per) \in Int
  BY RoundedType
<1>. QED
  BY <1>1 DEF Covers, Area, Ok, Figure, Triple

LEMMA CannotCovers ==
  ASSUME NEW reason, NEW x, NEW y, reason = Nothing => Covers(x, y)
  PROVE  Covers(Unless(reason, x), Unless(reason, y))
BY DEF Covers, Unless, Cannot

(* The heart of RangesCover: for one plan and share, every figure computed *)
(* from rates within their bounds lies in the figure's range.              *)
LEMMA ComputeCovers ==
  ASSUME NEW plan, PlanOK(plan), NEW share \in 1..Whole, NEW market, NEW m, NEW n,
         plan.coverage \in Nat \cup {Nothing}, RatesOrdered(m), RatesPoint(n, m)
  PROVE  \A f \in FieldKeys : Covers(Compute(plan, share, market, m)[f], Compute(plan, share, market, n)[f])
<1>0. Whole \in Nat \ {0} /\ Nothing \notin Int /\ Nothing \notin ReasonCode
  BY FeasibilityAssumption
<1>. USE DEF PlanOK, RatesOrdered, RatesPoint
<1>1. ASSUME plan.area # Nothing, plan.far # Nothing
      PROVE  Gfa(plan) \in Nat /\ Gfa(plan) * share \in Nat /\ Whole * Whole \in Nat \ {0}
  BY <1>0, <1>1 DEF Gfa
<1>2. ASSUME plan.area # Nothing
      PROVE  Ordered(Land(plan, m)) /\ Point(Land(plan, n), Land(plan, m))
  BY <1>2, TimesPoint DEF Land
<1>3. ASSUME plan.area # Nothing, plan.far # Nothing
      PROVE  /\ Ordered(Design(plan, m)) /\ Point(Design(plan, n), Design(plan, m))
             /\ Ordered(Construction(plan, m)) /\ Point(Construction(plan, n), Construction(plan, m))
             /\ Ordered(Revenue(plan, share, m)) /\ Point(Revenue(plan, share, n), Revenue(plan, share, m))
  BY <1>0, <1>1, <1>3, TimesPoint DEF Design, Construction, Revenue
<1>4. ASSUME plan.area # Nothing, plan.far # Nothing
      PROVE  Ordered(Total(plan, m)) /\ Point(Total(plan, n), Total(plan, m))
  BY <1>2, <1>3, <1>4, PlusPoint DEF Total
<1>6. ("area_unknown" # Nothing) /\ ("requires_gfa" # Nothing) /\ ("far_not_stated" # Nothing)
      /\ ("coverage_not_stated" # Nothing)
  BY <1>0 DEF ReasonCode
<1>7. land_reason(plan, market) = Nothing => plan.area # Nothing
  BY <1>6 DEF land_reason, First, area_reason
<1>8. ASSUME NEW reason, reason # Nothing, without_far(plan, reason) = Nothing
      PROVE  plan.area # Nothing /\ plan.far # Nothing
  BY <1>6, <1>8 DEF without_far, First, area_reason
<1>9. money_reason(plan, market) = Nothing => plan.area # Nothing /\ plan.far # Nothing
  BY <1>6, <1>8 DEF money_reason, First
<1>10. coverage_reason(plan) = Nothing => plan.area # Nothing /\ plan.coverage # Nothing
  BY <1>6 DEF coverage_reason, First, area_reason
<1>. HIDE DEF PlanOK, RatesOrdered, RatesPoint
<1>. DEFINE c == Compute(plan, share, market, m)
            d == Compute(plan, share, market, n)
<1>11. Covers(c.max_gfa, d.max_gfa)
  <2>1. without_far(plan, "far_not_stated") = Nothing => Covers(Area(Gfa(plan), Whole), Area(Gfa(plan), Whole))
    BY <1>0, <1>1, <1>6, <1>8, AreaCovers
  <2>. QED
    BY <2>1, CannotCovers DEF Compute
<1>12. Covers(c.max_coverage_area, d.max_coverage_area)
  <2>1. coverage_reason(plan) = Nothing =>
          Covers(Area(plan.area * plan.coverage, Whole), Area(plan.area * plan.coverage, Whole))
    <3>1. coverage_reason(plan) = Nothing => plan.area * plan.coverage \in Int
      BY <1>10 DEF PlanOK
    <3>. QED
      BY <1>0, <3>1, AreaCovers
  <2>. QED
    BY <2>1, CannotCovers DEF Compute
<1>13. Covers(c.saleable_area, d.saleable_area)
  <2>1. without_far(plan, "requires_gfa") = Nothing =>
          Covers(Area(Gfa(plan) * share, Whole * Whole), Area(Gfa(plan) * share, Whole * Whole))
    BY <1>1, <1>6, <1>8, AreaCovers
  <2>. QED
    BY <2>1, CannotCovers DEF Compute
<1>14. Covers(c.land_value, d.land_value)
  <2>1. land_reason(plan, market) = Nothing => Covers(Ok(Land(plan, m)), Ok(Land(plan, n)))
    BY <1>2, <1>7, OkCovers
  <2>. QED
    BY <2>1, CannotCovers DEF Compute
<1>15. money_reason(plan, market) = Nothing =>
         /\ Covers(Ok(Construction(plan, m)), Ok(Construction(plan, n)))
         /\ Covers(Ok(Design(plan, m)), Ok(Design(plan, n)))
         /\ Covers(Ok(Revenue(plan, share, m)), Ok(Revenue(plan, share, n)))
  BY <1>3, <1>9, OkCovers
<1>16. money_reason(plan, market) = Nothing =>
         /\ Covers(Ok(Total(plan, m)), Ok(Total(plan, n)))
         /\ Covers(Ok(Profit(Revenue(plan, share, m), Total(plan, m))),
                   Ok(Profit(Revenue(plan, share, n), Total(plan, n))))
         /\ Covers(Roi(Revenue(plan, share, m), Total(plan, m)),
                   Roi(Revenue(plan, share, n), Total(plan, n)))
  BY <1>3, <1>4, <1>9, OkCovers, ProfitCovers, RoiCovers
<1>17. /\ Covers(c.construction_costs, d.construction_costs)
       /\ Covers(c.design_and_documentation_costs, d.design_and_documentation_costs)
       /\ Covers(c.market_value, d.market_value)
  BY <1>15, CannotCovers DEF Compute
<1>18. /\ Covers(c.total_cost, d.total_cost) /\ Covers(c.potential_profit, d.potential_profit)
       /\ Covers(c.roi_pct, d.roi_pct)
  BY <1>16, CannotCovers DEF Compute
<1>. HIDE DEF c, d
<1>. QED
  BY <1>11, <1>12, <1>13, <1>14, <1>17, <1>18 DEF FieldKeys, c, d

(* The rates in use are ordered triples, edited or not.                    *)
LEMMA BoundsOrdered ==
  ASSUME NEW x, Ranged(x)
  PROVE  Ordered(bounds_of(x))
<1>1. Whole \in Nat \ {0}
  BY FeasibilityAssumption
<1>2. CASE x.kind = "multiplier" /\ x.low <= Whole /\ Whole <= x.high
  <2>1. x.expected * x.low <= x.expected * Whole /\ x.expected * Whole <= x.expected * x.high
    BY <1>1, <1>2, ProductMonotone DEF Ranged
  <2>. QED
    BY <1>1, <1>2, <2>1 DEF Ranged, Ordered, bounds_of, Triple
<1>3. CASE x.kind = "absolute" /\ x.low <= x.expected /\ x.expected <= x.high
  BY <1>3 DEF Ranged, Ordered, bounds_of, Triple
<1>. QED
  BY <1>2, <1>3 DEF Ranged

LEMMA EditedOrdered ==
  ASSUME NEW given, Ranged(given), NEW e \in Nat
  PROVE  Ordered(with_edited_expected(given, e))
<1>1. CASE given.kind = "multiplier"
  <2>. DEFINE x == [given EXCEPT !.expected = e]
  <2>1. x \in [kind : {"multiplier", "absolute"}, expected : Nat, low : Nat, high : Nat]
        /\ x.kind = given.kind /\ x.expected = e /\ x.low = given.low /\ x.high = given.high
    BY DEF Ranged
  <2>2. Ranged(x)
    BY <1>1, <2>1 DEF Ranged
  <2>. QED
    BY <1>1, <2>2, BoundsOrdered DEF with_edited_expected
<1>2. CASE given.kind # "multiplier" /\ given.expected = 0
  BY <1>2 DEF with_edited_expected, Ordered, Triple
<1>3. CASE given.kind # "multiplier" /\ given.expected # 0
  <2>1. given.low <= given.expected /\ given.expected <= given.high
        /\ given.low \in Nat /\ given.expected \in Nat \ {0} /\ given.high \in Nat
    BY <1>3 DEF Ranged
  <2>2. given.low * e <= given.expected * e /\ given.expected * e <= given.high * e
    BY <2>1, ProductMonotone
  <2>. QED
    BY <1>3, <2>1, <2>2 DEF with_edited_expected, Ordered, Triple
<1>. QED
  BY <1>1, <1>2, <1>3

AnyEdits == [EditKeys -> Nat \cup {Nothing}]

LEMMA PanelInputs ==
  ASSUME NEW p \in Panels
  PROVE  /\ PlanOK(Plan(p)) /\ Plan(p).coverage \in Nat \cup {Nothing}
         /\ default_saleable_share(p) \in 1..Whole
         /\ p.market # Nothing => /\ Ranged(p.market.land) /\ Ranged(p.market.design)
                               /\ Ranged(p.market.construction) /\ Ranged(p.market.price)
<1>1. p.area \in Nat \cup {Nothing} /\ p.share \in (1..Whole) \cup {Nothing}
      /\ DefaultShare \in 1..Whole /\ Whole \in Nat
  BY FeasibilityAssumption
<1>2. Plan(p).area \in Nat \cup {Nothing} /\ Plan(p).far \in Nat \cup {Nothing} /\ Plan(p).coverage \in Nat \cup {Nothing}
  BY <1>1 DEF Plan, usable
<1>3. default_saleable_share(p) \in 1..Whole
  BY <1>1 DEF default_saleable_share
<1>. QED
  BY <1>2, <1>3, FeasibilityAssumption DEF PlanOK

LEMMA InUseTyped ==
  ASSUME NEW p \in Panels, NEW ed \in AnyEdits
  PROVE  /\ InUse(p, ed) \in AnyEdits
         /\ resolve_share(default_saleable_share(p), InUse(p, ed)) \in 1..Whole
<1>1. NoEdits \in AnyEdits /\ \A k \in EditKeys : NoEdits[k] = Nothing
  BY DEF NoEdits, AnyEdits
<1>2. InUse(p, ed) \in AnyEdits
  BY <1>1 DEF InUse
<1>3. "share" \in EditKeys
  BY DEF EditKeys
<1>4. CASE Valid(p, ed)
  <2>1. ed["share"] # Nothing => ed["share"] \in 1..Whole
    BY <1>3, <1>4, FeasibilityAssumption DEF Valid
  <2>. QED
    BY <1>2, <1>4, <2>1, PanelInputs DEF InUse, resolve_share
<1>5. CASE ~Valid(p, ed)
  BY <1>1, <1>2, <1>3, <1>5, PanelInputs DEF InUse, resolve_share
<1>. QED
  BY <1>4, <1>5

LEMMA RatesInUse ==
  ASSUME NEW p \in Panels, p.market # Nothing, NEW ed \in AnyEdits
  PROVE  RatesOrdered(resolve_market(p.market, ed))
<1>1. /\ Ranged(p.market.land) /\ Ranged(p.market.design)
      /\ Ranged(p.market.construction) /\ Ranged(p.market.price)
  BY PanelInputs
<1>2. "construction" \in EditKeys /\ "price" \in EditKeys
  BY DEF EditKeys
<1>3. /\ ed["construction"] # Nothing => ed["construction"] \in Nat
      /\ ed["price"] # Nothing => ed["price"] \in Nat
  BY <1>2 DEF AnyEdits
<1>4. Ordered(bounds_of(p.market.land)) /\ Ordered(bounds_of(p.market.design))
  BY <1>1, BoundsOrdered
<1>5. Ordered(IF ed["construction"] = Nothing THEN bounds_of(p.market.construction)
            ELSE with_edited_expected(p.market.construction, ed["construction"]))
  BY <1>1, <1>3, BoundsOrdered, EditedOrdered
<1>6. Ordered(IF ed["price"] = Nothing THEN bounds_of(p.market.price)
            ELSE with_edited_expected(p.market.price, ed["price"]))
  BY <1>1, <1>3, BoundsOrdered, EditedOrdered
<1>. QED
  BY <1>4, <1>5, <1>6 DEF RatesOrdered, resolve_market

(* A figure the engine cannot calculate has nothing but its reason.        *)
LEMMA ReasonStands ==
  ASSUME NEW plan, NEW share, NEW market, NEW m, NEW f \in FieldKeys
  PROVE  LET figure == Compute(plan, share, market, m)[f] IN
         figure.reason = Nothing \/ figure = Cannot(figure.reason)
<1>1. \A reason : Cannot(reason).reason = reason
  BY DEF Cannot
<1>2. \A x : Ok(x).reason = Nothing
  BY DEF Ok, Figure
<1>3. \A x, y : Roi(x, y).reason = Nothing \/ Roi(x, y) = Cannot(Roi(x, y).reason)
  BY <1>1 DEF Roi, Figure
<1>4. \A reason, x : x.reason = Nothing \/ x = Cannot(x.reason) =>
        LET u == Unless(reason, x) IN u.reason = Nothing \/ u = Cannot(u.reason)
  BY <1>1 DEF Unless
<1>. QED
  BY <1>2, <1>3, <1>4 DEF Compute, FieldKeys, Area

(* What is on screen is what the engine makes of the edits in use, whether *)
(* the server or the browser has run it.                                   *)
LEMMA ShownIsRecalculated ==
  ASSUME NEW p, NEW ed, NEW f \in FieldKeys
  PROVE  SameFigure(Shown(p, ed)[f], Recalculated(p, InUse(p, ed))[f])
<1>1. CASE InUse(p, ed) # NoEdits
  BY <1>1 DEF Shown, SameFigure, InUse
<1>2. CASE InUse(p, ed) = NoEdits
  <2>. DEFINE figure == Recalculated(p, NoEdits)[f]
  <2>1. figure.reason = Nothing \/ figure = Cannot(figure.reason)
    BY ReasonStands DEF Recalculated
  <2>2. Payload(p)[f] = figure \/ (figure.reason \in {"far_not_stated", "coverage_not_stated"}
                                  /\ \E reason : Payload(p)[f] = Cannot(reason))
    BY DEF Payload
  <2>3. Nothing \notin {"far_not_stated", "coverage_not_stated"}
    BY FeasibilityAssumption DEF ReasonCode
  <2>. HIDE DEF figure
  <2>4. SameFigure(Payload(p)[f], figure)
    <3>1. \A reason, other : SameFigure(Cannot(reason), Cannot(other))
      BY DEF SameFigure, Cannot
    <3>2. CASE Payload(p)[f] = figure
      BY <3>2 DEF SameFigure
    <3>3. CASE Payload(p)[f] # figure
      <4>1. figure = Cannot(figure.reason)
        BY <2>1, <2>2, <2>3, <3>3
      <4>2. PICK reason : Payload(p)[f] = Cannot(reason)
        BY <2>2, <3>3
      <4>. QED
        BY <3>1, <4>1, <4>2
    <3>. QED
      BY <3>2, <3>3
  <2>. QED
    BY <1>2, <2>4 DEF Shown, figure
<1>. QED
  BY <1>1, <1>2

LEMMA RangesCovered ==
  ASSUME SandboxTypeOK
  PROVE  RangesCover
<1>. SUFFICES ASSUME panel # Nothing, panel.market # Nothing
              PROVE  RangesCover
  BY DEF RangesCover
<1>. DEFINE ed == InUse(panel, edits)
            m == resolve_market(panel.market, ed)
            share == resolve_share(default_saleable_share(panel), ed)
            Fixed(n, x) == Triple(n, n, n, x.per)
            Within(x) == (x.low..x.high) \cup {x.expected}
            Exact(l, d, c, v) == Compute(Plan(panel), share, panel.market,
                        [land |-> Fixed(l, m.land), design |-> Fixed(d, m.design),
                         construction |-> Fixed(c, m.construction), price |-> Fixed(v, m.price)])
<1>1. panel \in Panels /\ edits \in AnyEdits
  BY DEF SandboxTypeOK, AnyEdits
<1>2. RatesOrdered(m) /\ share \in 1..Whole
  BY <1>1, InUseTyped, RatesInUse
<1>3. \A x : Ordered(x) => \A n \in Within(x) : Point(Fixed(n, x), x)
  BY DEF Ordered, Point, Triple
<1>. HIDE DEF m, share, Fixed, Within
<1>4. ASSUME NEW l \in Within(m.land), NEW d \in Within(m.design),
             NEW c \in Within(m.construction), NEW v \in Within(m.price), NEW f \in FieldKeys
      PROVE  Covers(Shown(panel, edits)[f], Exact(l, d, c, v)[f])
  <2>. DEFINE n == [land |-> Fixed(l, m.land), design |-> Fixed(d, m.design),
                    construction |-> Fixed(c, m.construction), price |-> Fixed(v, m.price)]
  <2>1. RatesPoint(n, m)
    BY <1>2, <1>3 DEF RatesPoint, RatesOrdered
  <2>. HIDE DEF n
  <2>2. Covers(Compute(Plan(panel), share, panel.market, m)[f],
               Compute(Plan(panel), share, panel.market, n)[f])
    BY <1>1, <1>2, <2>1, PanelInputs, ComputeCovers
  <2>3. Recalculated(panel, ed) = Compute(Plan(panel), share, panel.market, m)
    BY DEF Recalculated, share, m
  <2>4. SameFigure(Shown(panel, edits)[f], Compute(Plan(panel), share, panel.market, m)[f])
    BY <2>3, ShownIsRecalculated
  <2>. QED
    BY <2>2, <2>4 DEF Covers, SameFigure, n
<1>. QED
  BY <1>4 DEF RangesCover, Covers, m, share, Fixed, Within

LEMMA SandboxTyped ==
  ASSUME SandboxTypeOK, [SandboxNext]_sandboxVars
  PROVE  SandboxTypeOK'
<1>1. CASE openPanel
  BY <1>1 DEF openPanel, SandboxTypeOK
<1>2. ASSUME NEW k \in EditKeys, NEW v \in sliderBounds(panel, k), panel # Nothing, setAssumptionEdit(k, v)
      PROVE  SandboxTypeOK'
  <2>1. panel \in Panels /\ panel.market # Nothing
    BY <1>2 DEF SandboxTypeOK, setAssumptionEdit
  <2>2. Default(panel, k) \in Nat
    <3>1. k = "share" => Default(panel, k) \in Nat
      BY <2>1, PanelInputs, FeasibilityAssumption DEF Default
    <3>2. k = "construction" => Default(panel, k) = panel.market.construction.expected
      BY <2>1 DEF Default
    <3>3. k = "price" => Default(panel, k) = panel.market.price.expected
      BY <2>1 DEF Default
    <3>4. panel.market.construction.expected \in Nat /\ panel.market.price.expected \in Nat
      BY <2>1, PanelInputs DEF Ranged
    <3>. QED
      BY <3>1, <3>2, <3>3, <3>4 DEF EditKeys
  <2>3. v \in Nat
    BY <1>2, <2>2, FeasibilityAssumption DEF sliderBounds
  <2>. QED
    BY <1>2, <2>3 DEF setAssumptionEdit, SandboxTypeOK
<1>3. CASE resetAssumptions
  BY <1>3 DEF resetAssumptions, NoEdits, SandboxTypeOK
<1>4. CASE UNCHANGED sandboxVars
  BY <1>4 DEF sandboxVars, SandboxTypeOK
<1>. QED
  BY <1>1, <1>2, <1>3, <1>4 DEF SandboxNext

(* An edit kept in the browser is a value of some parcel's slider.         *)
THEOREM SandboxTypes == SandboxSpec => []SandboxTypeOK
<1>1. SandboxInit => SandboxTypeOK
  BY DEF SandboxInit, SandboxTypeOK, NoEdits
<1>. QED
  BY <1>1, SandboxTyped, PTL DEF SandboxSpec

(* Whatever was edited and on which parcels, every figure on screen covers  *)
(* what the engine makes of any rates within the bounds in use: costs,     *)
(* revenue, profit and return, with their rounding.                        *)
THEOREM RangesHold == SandboxSpec => []RangesCover
<1>. QED
  BY SandboxTypes, RangesCovered, PTL

(* One edit moves the figures that depend on it and no other.              *)
LEMMA EditMoves ==
  ASSUME NEW p, NEW k \in EditKeys, NEW ed, NEW new,
         \A j \in EditKeys \ {k} : new[j] = ed[j], NEW f \in FieldKeys \ FIELD_DEPENDENCIES[k]
  PROVE  Recalculated(p, new)[f] = Recalculated(p, ed)[f]
<1>. DEFINE m == resolve_market(p.market, ed)
            n == resolve_market(p.market, new)
            s == resolve_share(default_saleable_share(p), ed)
            t == resolve_share(default_saleable_share(p), new)
<1>1. m.land = n.land /\ m.design = n.design
  BY DEF resolve_market
<1>2. k # "construction" => m.construction = n.construction
  BY DEF resolve_market, EditKeys
<1>3. k # "price" => m.price = n.price
  BY DEF resolve_market, EditKeys
<1>4. k # "share" => s = t
  BY DEF resolve_share, EditKeys
<1>5. Recalculated(p, ed) = Compute(Plan(p), s, p.market, m) /\ Recalculated(p, new) = Compute(Plan(p), t, p.market, n)
  BY DEF Recalculated
<1>. HIDE DEF m, n, s, t
<1>6. Land(Plan(p), m) = Land(Plan(p), n) /\ Design(Plan(p), m) = Design(Plan(p), n)
  BY <1>1 DEF Land, Design
<1>7. k # "construction" => Construction(Plan(p), m) = Construction(Plan(p), n)
                            /\ Total(Plan(p), m) = Total(Plan(p), n)
  BY <1>2, <1>6 DEF Construction, Total
<1>8. k = "construction" => Revenue(Plan(p), s, m) = Revenue(Plan(p), t, n)
  BY <1>3, <1>4 DEF Revenue
<1>9. CASE k = "share"
  BY <1>5, <1>6, <1>7, <1>9 DEF Compute, FieldKeys, FIELD_DEPENDENCIES
<1>10. CASE k = "construction"
  BY <1>4, <1>5, <1>6, <1>8, <1>10 DEF Compute, FieldKeys, FIELD_DEPENDENCIES
<1>11. CASE k = "price"
  BY <1>4, <1>5, <1>6, <1>7, <1>11 DEF Compute, FieldKeys, FIELD_DEPENDENCIES
<1>. QED
  BY <1>9, <1>10, <1>11 DEF EditKeys

(* Moving one slider leaves alone what FIELD_DEPENDENCIES does not name,    *)
(* also between the server's figures and the browser's.                    *)
THEOREM EditsMoveDependents == SandboxSpec => OnlyDependents
<1>. DEFINE OneEdit == \A k \in EditKeys :
       /\ panel # Nothing /\ panel' = panel
       /\ Valid(panel, edits) /\ Valid(panel, edits')
       /\ \A j \in EditKeys \ {k} : edits'[j] = edits[j]
       => \A f \in FieldKeys \ FIELD_DEPENDENCIES[k] :
            SameFigure(Shown(panel, edits)[f], Shown(panel, edits')[f])
<1>1. OneEdit
  <2>. SUFFICES ASSUME NEW k \in EditKeys, Valid(panel, edits), Valid(panel, edits'),
                       \A j \in EditKeys \ {k} : edits'[j] = edits[j],
                       NEW f \in FieldKeys \ FIELD_DEPENDENCIES[k]
                PROVE  SameFigure(Shown(panel, edits)[f], Shown(panel, edits')[f])
    OBVIOUS
  <2>1. InUse(panel, edits) = edits /\ InUse(panel, edits') = edits'
    BY DEF InUse
  <2>2. Recalculated(panel, edits')[f] = Recalculated(panel, edits)[f]
    BY EditMoves
  <2>3. /\ SameFigure(Shown(panel, edits)[f], Recalculated(panel, edits)[f])
        /\ SameFigure(Shown(panel, edits')[f], Recalculated(panel, edits')[f])
    BY <2>1, ShownIsRecalculated
  <2>. QED
    BY <2>2, <2>3 DEF SameFigure
<1>2. SandboxInit /\ [][SandboxNext]_sandboxVars => [][OneEdit]_sandboxVars
  BY <1>1, PTL
<1>. QED
  BY <1>2 DEF SandboxSpec, OnlyDependents

-----------------------------------------------------------------------------
(* The geocoder: two slots of one source keep their distance, for the key  *)
(* (or the process's next slot) lies an interval after each of its slots;  *)
(* a source other than Redis is used only after a failed call.             *)

Remembered(slot) ==
  /\ slot.at <= now
  /\ slot.by = Redis => slot.at + Interval <= throttle
  /\ slot.by # Redis => outages > 0
  /\ \A s \in Servers, n \in Nat :
       slot.by = <<s, n>> => n <= life[s] /\ (n = life[s] => slot.at + Interval <= nextSlot[s])
SlotsRemembered == \A i \in DOMAIN slots : Remembered(slots[i])

(* A search that sleeps for its process's next slot holds the lock, so     *)
(* nobody moves that slot.                                                 *)
SleepersHold == \A q \in Searches :
  At(q, "dozing") => /\ lock[Home(q)] = q
                     /\ search[q].until = nextSlot[Home(q)]
UnderWay == \A q \in Searches : ~At(q, "idle") => Home(q) \in Servers

(* Redis is passed by only after a call to it has failed.                  *)
PassedBy ==
  /\ \A s \in Servers : openUntil[s] > 0 => outages > 0
  /\ \A q \in Searches :
       search[q].skips \/ At(q, "queueing") \/ At(q, "dozing") => outages > 0

GeocodeInv ==
  GeocodeTypeOK /\ SlotsRemembered /\ SleepersHold /\ UnderWay /\ PassedBy /\ SlotsSpaced

SearchTypeOK == search \in [Searches -> [at : Stages, on : Servers \cup {Nobody}, deadline : Nat,
                                         since : Nat, until : Nat, skips : BOOLEAN]]

LEMMA MemberOfSeq ==
  ASSUME NEW R, NEW s \in Seq(R), NEW i \in DOMAIN s
  PROVE  s[i] \in R /\ i \in Nat /\ i < Len(s) + 1 /\ Len(s) \in Nat
  OBVIOUS

LEMMA SlotsTyped ==
  ASSUME GeocodeTypeOK, NEW i \in DOMAIN slots
  PROVE  /\ slots[i] \in [at : Nat, by : Sources] /\ slots[i].at \in Nat
         /\ i \in Nat /\ i < Len(slots) + 1
<1>1. slots \in Seq([at : Nat, by : Sources])
  BY DEF GeocodeTypeOK
<1>2. slots[i] \in [at : Nat, by : Sources] /\ i \in Nat /\ i < Len(slots) + 1
  BY <1>1, MemberOfSeq, Zenon
<1>. QED
  BY <1>2

LEMMA SlotAdded ==
  ASSUME GeocodeTypeOK, NEW by \in Sources, Slot(by)
  PROVE  /\ slots' \in Seq([at : Nat, by : Sources])
         /\ Len(slots') = Len(slots) + 1
         /\ \A i \in DOMAIN slots : i \in DOMAIN slots' /\ slots'[i] = slots[i]
         /\ \A i \in DOMAIN slots' : i \in DOMAIN slots \/ i = Len(slots) + 1
         /\ slots'[Len(slots) + 1] = [at |-> now, by |-> by]
  BY DEF GeocodeTypeOK, Slot

LEMMA GeocodeInvInit == GeocodeInit => GeocodeInv
  BY GeocodeAssumption DEF GeocodeInit, GeocodeInv, GeocodeTypeOK, SlotsRemembered, SleepersHold,
     UnderWay, PassedBy, SlotsSpaced, NoSearch, Stages, At, Home

(* Steps that give no slot: the searches' part and the slots' part.        *)
LEMMA NoSlotStep ==
  ASSUME GeocodeInv, UNCHANGED slots, now' \in Nat, throttle' \in Nat, outages' \in Nat,
         nextSlot' \in [Servers -> Nat], life' \in [Servers -> Nat],
         now <= now', throttle <= throttle', outages <= outages',
         \A s \in Servers : \/ life'[s] = life[s] /\ nextSlot[s] <= nextSlot'[s]
                            \/ life'[s] > life[s]
  PROVE  SlotsRemembered' /\ SlotsSpaced'
<1>1. ASSUME NEW i \in DOMAIN slots PROVE Remembered(slots[i])'
  <2>. DEFINE x == slots[i]
  <2>1. x \in [at : Nat, by : Sources]
    BY SlotsTyped DEF GeocodeInv
  <2>2. Remembered(x) /\ slots'[i] = x
    BY DEF GeocodeInv, SlotsRemembered
  <2>3. now \in Nat /\ throttle \in Nat /\ outages \in Nat /\ nextSlot \in [Servers -> Nat]
        /\ life \in [Servers -> Nat] /\ Interval \in Nat
    BY GeocodeAssumption DEF GeocodeInv, GeocodeTypeOK
  <2>. HIDE DEF x
  <2>4. x.at <= now'
    BY <2>1, <2>2, <2>3 DEF Remembered
  <2>5. x.by = Redis => x.at + Interval <= throttle'
    BY <2>1, <2>2, <2>3 DEF Remembered
  <2>6. x.by # Redis => outages' > 0
    BY <2>2, <2>3 DEF Remembered
  <2>7. ASSUME NEW s \in Servers, NEW n \in Nat, x.by = <<s, n>>
        PROVE  n <= life'[s] /\ (n = life'[s] => x.at + Interval <= nextSlot'[s])
    <3>1. n <= life[s] /\ (n = life[s] => x.at + Interval <= nextSlot[s])
      BY <2>2, <2>7 DEF Remembered
    <3>2. x.at \in Nat /\ life[s] \in Nat /\ life'[s] \in Nat /\ nextSlot[s] \in Nat /\ nextSlot'[s] \in Nat
      BY <2>1, <2>3
    <3>. QED
      BY <3>1, <3>2, <2>3
  <2>. QED
    BY <2>2, <2>4, <2>5, <2>6, <2>7 DEF Remembered
<1>2. SlotsSpaced'
  <2>1. outages > 0 => outages' > 0
    BY DEF GeocodeInv, GeocodeTypeOK
  <2>. QED
    BY <2>1 DEF GeocodeInv, SlotsSpaced
<1>. QED
  BY <1>1, <1>2 DEF SlotsRemembered

(* A slot is an interval after the earlier slots of its source.            *)
LEMMA SlotStep ==
  ASSUME GeocodeInv, NEW by \in Sources, Slot(by), UNCHANGED <<now, outages, life>>,
         throttle' \in Nat, nextSlot' \in [Servers -> Nat], throttle <= throttle',
         \A s \in Servers : nextSlot[s] <= nextSlot'[s],
         by = Redis => throttle <= now /\ now + Interval <= throttle',
         by # Redis => outages > 0,
         \A s \in Servers, n \in Nat :
           by = <<s, n>> => n = life[s] /\ nextSlot[s] <= now /\ now + Interval <= nextSlot'[s]
  PROVE  SlotsRemembered' /\ SlotsSpaced'
<1>. DEFINE k == Len(slots) + 1
<1>1. /\ \A i \in DOMAIN slots : i \in DOMAIN slots' /\ slots'[i] = slots[i]
      /\ \A i \in DOMAIN slots' : i \in DOMAIN slots \/ i = k
      /\ slots'[k] = [at |-> now, by |-> by]
      /\ \A i \in DOMAIN slots : i \in Nat /\ i < k
  BY SlotAdded, SlotsTyped DEF GeocodeInv
<1>2. /\ now \in Nat /\ throttle \in Nat /\ outages \in Nat /\ nextSlot \in [Servers -> Nat]
      /\ life \in [Servers -> Nat] /\ Interval \in Nat
      /\ Len(slots) \in Nat
  BY GeocodeAssumption DEF GeocodeInv, GeocodeTypeOK
<1>8. /\ k \in Nat
      /\ \A i \in DOMAIN slots : slots[i] \in [at : Nat, by : Sources] /\ Remembered(slots[i])
  BY <1>2, SlotsTyped DEF GeocodeInv, SlotsRemembered
<1>. HIDE DEF k
<1>3. ASSUME NEW x \in [at : Nat, by : Sources], Remembered(x)
      PROVE  Remembered(x)'
  <2>1. /\ x.at <= now'
        /\ x.by = Redis => x.at + Interval <= throttle'
        /\ x.by # Redis => outages' > 0
    BY <1>2, <1>3 DEF Remembered
  <2>2. ASSUME NEW s \in Servers, NEW n \in Nat, x.by = <<s, n>>
        PROVE  n <= life'[s] /\ (n = life'[s] => x.at + Interval <= nextSlot'[s])
    <3>1. n <= life[s] /\ (n = life[s] => x.at + Interval <= nextSlot[s])
      BY <1>3, <2>2 DEF Remembered
    <3>2. x.at \in Nat /\ nextSlot[s] \in Nat /\ nextSlot'[s] \in Nat
      BY <1>2
    <3>. QED
      BY <3>1, <3>2, <1>2
  <2>. QED
    BY <2>1, <2>2 DEF Remembered
<1>4. Remembered([at |-> now, by |-> by])'
  <2>1. ASSUME NEW s \in Servers, NEW n \in Nat, by = <<s, n>>
        PROVE  n <= life'[s] /\ (n = life'[s] => now + Interval <= nextSlot'[s])
    BY <2>1, <1>2
  <2>. QED
    BY <2>1, <1>2 DEF Remembered
<1>5. SlotsRemembered'
  <2>. SUFFICES ASSUME NEW i \in DOMAIN slots' PROVE Remembered(slots[i])'
    BY DEF SlotsRemembered
  <2>1. CASE i \in DOMAIN slots
    <3>1. Remembered(slots[i]) /\ slots[i] \in [at : Nat, by : Sources] /\ slots'[i] = slots[i]
      BY <2>1, <1>1, <1>8
    <3>. DEFINE x == slots[i]
    <3>2. \A y : y \in [at : Nat, by : Sources] /\ Remembered(y) => Remembered(y)'
      BY <1>3
    <3>. QED
      BY <3>1, <3>2 DEF Remembered
  <2>2. CASE i = k
    BY <2>2, <1>1, <1>4 DEF Remembered
  <2>. QED
    BY <2>1, <2>2, <1>1
<1>6. ASSUME NEW i \in DOMAIN slots, now - slots[i].at < Interval
      PROVE  slots[i].by # by /\ outages > 0
  <2>. DEFINE x == slots[i]
  <2>1. x \in [at : Nat, by : Sources] /\ Remembered(x)
    BY <1>8
  <2>2. now - x.at < Interval
    BY <1>6
  <2>. HIDE DEF x
  <2>3. x.by = Redis => by # Redis
    BY <2>1, <2>2, <1>2 DEF Remembered
  <2>4. ASSUME NEW s \in Servers, NEW n \in Nat, x.by = <<s, n>> PROVE by # <<s, n>>
    BY <2>1, <2>2, <2>4, <1>2 DEF Remembered
  <2>5. x.by # by
    BY <2>1, <2>3, <2>4 DEF Sources
  <2>. QED
    BY <2>1, <2>5 DEF x, Remembered
<1>7. SlotsSpaced'
  <2>. SUFFICES ASSUME NEW i \in DOMAIN slots', NEW j \in DOMAIN slots', i < j,
                       slots'[j].at - slots'[i].at < Interval
                PROVE  slots'[i].by # slots'[j].by /\ outages' > 0
    BY DEF SlotsSpaced
  <2>1. CASE i \in DOMAIN slots /\ j \in DOMAIN slots
    BY <2>1, <1>1 DEF GeocodeInv, SlotsSpaced
  <2>2. CASE i \in DOMAIN slots /\ j = k
    BY <2>2, <1>1, <1>6
  <2>3. ~(i = k)
    BY <1>1, <1>8, SlotsTyped
  <2>. QED
    BY <2>1, <2>2, <2>3, <1>1
<1>. QED
  BY <1>5, <1>7

Stage == [at : Stages, on : Servers \cup {Nobody}, deadline : Nat, since : Nat, until : Nat,
          skips : BOOLEAN]

(* What a search becomes is typed.                                         *)
LEMMA SearchTyped ==
  ASSUME GeocodeTypeOK, NEW q \in Searches
  PROVE  /\ search[q] \in Stage /\ NoSearch \in Stage
         /\ Ends(q) => search' \in [Searches -> Stage]
         /\ Home(q) \in Servers /\ Proceeds(q) => search' \in [Searches -> Stage]
         /\ \A s \in Servers, d \in Nat : Asks(q, s, d) => search' \in [Searches -> Stage]
<1>1. search \in [Searches -> Stage] /\ NoSearch \in Stage /\ now \in Nat
  BY DEF GeocodeTypeOK, Stage, NoSearch, Stages
<1>2. ASSUME NEW s \in Servers, NEW d \in Nat
      PROVE  [NoSearch EXCEPT !.at = "asking", !.on = s, !.deadline = d, !.since = now,
                              !.skips = now < openUntil'[s]] \in Stage
  <2>1. \A b \in BOOLEAN : [NoSearch EXCEPT !.at = "asking", !.on = s, !.deadline = d,
                                           !.since = now, !.skips = b] \in Stage
    BY <1>1 DEF Stage, NoSearch, Stages
  <2>2. (now < openUntil'[s]) \in BOOLEAN
    OBVIOUS
  <2>. QED
    BY <2>1, <2>2, Zenon
<1>3. Home(q) \in Servers => [NoSearch EXCEPT !.at = "calling", !.on = Home(q)] \in Stage
  BY <1>1 DEF Stage, NoSearch, Stages
<1>. QED
  BY <1>1, <1>2, <1>3 DEF Ends, Proceeds, Asks

LEMMA CallTyped ==
  ASSUME GeocodeTypeOK, NEW s \in Servers
  PROVE  /\ Reached(s) \/ NotReached(s) =>
              openUntil' \in [Servers -> Nat] /\ outages' \in Nat /\ outages <= outages'
         /\ \A n \in Nat : Fails(s, n) =>
              openUntil' \in [Servers -> Nat] /\ outages' \in Nat /\ outages' > 0 /\ outages <= outages'
<1>1. /\ now \in Nat /\ outages \in Nat /\ FailOpen \in Nat /\ MaxOutages \in Nat
      /\ openUntil \in [Servers -> Nat]
  BY GeocodeAssumption DEF GeocodeTypeOK
<1>2. ASSUME NEW n \in Nat, Fails(s, n)
      PROVE  openUntil' \in [Servers -> Nat] /\ outages' \in Nat /\ outages' > 0 /\ outages <= outages'
  <2>1. n + FailOpen \in Nat
    BY <1>1
  <2>. QED
    BY <1>1, <1>2, <2>1 DEF Fails
<1>. QED
  BY <1>1, <1>2 DEF Reached, NotReached, Answered

(* A call that ends leaves the marks of a failure only with a failure.     *)
LEMMA CallMarks ==
  ASSUME GeocodeTypeOK, PassedBy, NEW s \in Servers,
         Reached(s) \/ NotReached(s) \/ \E n \in Nat : Fails(s, n)
  PROVE  /\ openUntil' \in [Servers -> Nat] /\ outages' \in Nat /\ outages <= outages'
         /\ \A t \in Servers : openUntil'[t] > 0 => outages' > 0
<1>1. CASE Answered
  BY <1>1 DEF Answered, GeocodeTypeOK, PassedBy
<1>2. CASE \E n \in Nat : Fails(s, n)
  BY <1>2, CallTyped DEF GeocodeTypeOK
<1>3. now \in Nat
  BY DEF GeocodeTypeOK
<1>. QED
  BY <1>1, <1>2, <1>3 DEF Reached, NotReached

(* The searches' part of the invariant when one search moves.              *)
LEMMA SearchesStep ==
  ASSUME GeocodeInv, NEW q \in Searches, NEW r \in Stage,
         search' = [search EXCEPT ![q] = r],
         outages' \in Nat, outages <= outages',
         \A t \in Servers : openUntil'[t] > 0 => outages' > 0,
         r.at # "idle" => r.on \in Servers,
         r.at = "dozing" => lock'[r.on] = q /\ r.until = nextSlot'[r.on],
         r.skips \/ r.at = "queueing" \/ r.at = "dozing" => outages' > 0,
         \A p \in Searches \ {q} : 
             At(p, "dozing") => lock'[Home(p)] = lock[Home(p)] /\ nextSlot'[Home(p)] = nextSlot[Home(p)]
  PROVE  SleepersHold' /\ UnderWay' /\ PassedBy' /\ search' \in [Searches -> Stage]
<1>1. search \in [Searches -> Stage] /\ outages \in Nat
  BY DEF GeocodeInv, GeocodeTypeOK, Stage
<1>2. search'[q] = r /\ \A p \in Searches \ {q} : search'[p] = search[p]
  BY <1>1
<1>3. SleepersHold'
  BY <1>2 DEF GeocodeInv, SleepersHold, At, Home
<1>4. UnderWay'
  BY <1>2 DEF GeocodeInv, UnderWay, At, Home
<1>5. PassedBy'
  BY <1>1, <1>2 DEF GeocodeInv, PassedBy, At
<1>6. search' \in [Searches -> Stage]
  BY <1>1
<1>. QED
  BY <1>3, <1>4, <1>5, <1>6

(* A search that asks Redis skips it only after a failure.                 *)
LEMMA AskStep ==
  ASSUME GeocodeInv, NEW q \in Searches, NEW s \in Servers, NEW d \in Nat, Asks(q, s, d),
         openUntil' \in [Servers -> Nat], outages' \in Nat, outages <= outages',
         \A t \in Servers : openUntil'[t] > 0 => outages' > 0,
         UNCHANGED <<lock, nextSlot>>
  PROVE  SleepersHold' /\ UnderWay' /\ PassedBy' /\ search' \in [Searches -> Stage]
<1>. DEFINE skips == now < openUntil'[s]
            r == [NoSearch EXCEPT !.at = "asking", !.on = s, !.deadline = d, !.since = now,
                                  !.skips = skips]
<1>1. search \in [Searches -> Stage] /\ now \in Nat
  BY DEF GeocodeInv, GeocodeTypeOK, Stage
<1>2. search' = [search EXCEPT ![q] = r]
  BY DEF Asks
<1>3. search' \in [Searches -> Stage] /\ r = search'[q]
  BY <1>1, <1>2, SearchTyped DEF GeocodeInv
<1>4. r \in Stage
  BY <1>3
<1>5. skips => outages' > 0
  BY <1>1
<1>. HIDE DEF skips
<1>6. r.at = "asking" /\ r.on = s /\ r.skips = skips
  BY DEF NoSearch
<1>. HIDE DEF r
<1>. QED
  BY <1>2, <1>4, <1>5, <1>6, SearchesStep

LEMMA GeocodeStep ==
  ASSUME GeocodeInv, [GeocodeNext]_geocodeVars
  PROVE  GeocodeInv'
<1>1. /\ now \in Nat /\ throttle \in Nat /\ backoff \in Nat /\ outages \in Nat
      /\ openUntil \in [Servers -> Nat] /\ nextSlot \in [Servers -> Nat] /\ life \in [Servers -> Nat]
      /\ lock \in [Servers -> Searches \cup {Nobody}]
      /\ search \in [Searches -> Stage] /\ slots \in Seq([at : Nat, by : Sources])
      /\ Interval \in Nat \ {0} /\ MaxWait \in Nat /\ FailOpen \in Nat /\ Backoff \in Nat
      /\ Nobody \notin Searches \cup Servers
  BY GeocodeAssumption DEF GeocodeInv, GeocodeTypeOK, Stage
<1>. DEFINE Typed == /\ now' \in Nat /\ throttle' \in Nat /\ backoff' \in Nat
                     /\ nextSlot' \in [Servers -> Nat] /\ life' \in [Servers -> Nat]
                     /\ lock' \in [Servers -> Searches \cup {Nobody}]
                     /\ openUntil' \in [Servers -> Nat] /\ outages' \in Nat
            SearchesKept == SleepersHold' /\ UnderWay' /\ PassedBy' /\ search' \in [Searches -> Stage]
            SlotsKept == SlotsRemembered' /\ SlotsSpaced' /\ slots' \in Seq([at : Nat, by : Sources])
<1>2. ASSUME Typed, SearchesKept, SlotsKept PROVE GeocodeInv'
  BY <1>2 DEF GeocodeInv, GeocodeTypeOK, Stage
<1>3. \A s \in Servers : openUntil[s] > 0 => outages > 0
  BY DEF GeocodeInv, PassedBy
<1>. HIDE DEF Typed, SearchesKept, SlotsKept
<1>4. ASSUME NEW q \in Searches, NEW s \in Servers, Search(q, s) PROVE GeocodeInv'
  <2>1. Reached(s) \/ NotReached(s)
    BY <1>4 DEF Search
  <2>2. Typed /\ outages <= outages' /\ \A t \in Servers : openUntil'[t] > 0 => outages' > 0
    BY <1>1, <1>4, <2>1, CallMarks DEF Search, GeocodeInv, Typed
  <2>3. SearchesKept
    BY <1>1, <1>4, <2>2, AskStep DEF SearchesKept, Search, Typed
  <2>4. SlotsKept
    BY <1>1, <1>4, <2>2, NoSlotStep DEF SlotsKept, Search, Typed
  <2>. QED
    BY <1>2, <2>2, <2>3, <2>4
<1>5. ASSUME NEW q \in Searches, Acquire(q) PROVE GeocodeInv'
  <2>1. Typed /\ UNCHANGED <<openUntil, outages, lock, nextSlot, now, life>> /\ throttle <= now
        /\ throttle' = now + Interval /\ Home(q) \in Servers /\ Slot(Redis)
    BY <1>1, <1>5 DEF Acquire, Typed, processVars, GeocodeInv, UnderWay, At
  <2>2. SearchesKept
    <3>. DEFINE r == [NoSearch EXCEPT !.at = "calling", !.on = Home(q)]
    <3>1. search' = [search EXCEPT ![q] = r] /\ search' \in [Searches -> Stage]
      BY <1>5, <2>1, SearchTyped DEF Acquire, Proceeds, GeocodeInv
    <3>2. r \in Stage /\ r.at = "calling" /\ r.on = Home(q) /\ r.skips = FALSE
      BY <1>1, <3>1 DEF NoSearch
    <3>. HIDE DEF r
    <3>4. outages' \in Nat /\ outages <= outages' /\ (\A t \in Servers : openUntil'[t] > 0 => outages' > 0)
          /\ lock' = lock /\ nextSlot' = nextSlot
      BY <1>1, <1>3, <2>1
    <3>. QED
      BY <2>1, <3>1, <3>2, <3>4, SearchesStep DEF SearchesKept
  <2>3. SlotsKept
    <3>1. Redis \in Sources /\ \A s \in Servers, n \in Nat : Redis # <<s, n>>
      BY GeocodeAssumption DEF Redis, Sources
    <3>2. throttle <= throttle' /\ \A s \in Servers : nextSlot[s] <= nextSlot'[s]
      BY <1>1, <2>1
    <3>3. SlotsRemembered' /\ SlotsSpaced'
      BY <1>1, <2>1, <3>1, <3>2, SlotStep DEF Typed
    <3>4. slots' \in Seq([at : Nat, by : Sources])
      BY <2>1, <3>1, SlotAdded DEF GeocodeInv
    <3>. QED
      BY <3>3, <3>4 DEF SlotsKept
  <2>. QED
    BY <1>2, <2>1, <2>2, <2>3
<1>6. ASSUME NEW q \in Searches, Throttled(q) \/ TooLate(q) PROVE GeocodeInv'
  <2>1. Typed /\ UNCHANGED <<openUntil, outages, lock, nextSlot, now, throttle, life, slots>>
        /\ Ends(q)
    BY <1>1, <1>6 DEF Throttled, TooLate, Typed, processVars
  <2>2. SearchesKept
    <3>1. NoSearch \in Stage /\ NoSearch.at = "idle" /\ NoSearch.skips = FALSE
      BY SearchTyped DEF NoSearch, GeocodeInv
    <3>2. outages' \in Nat /\ outages <= outages' /\ (\A t \in Servers : openUntil'[t] > 0 => outages' > 0)
          /\ lock' = lock /\ nextSlot' = nextSlot
      BY <1>1, <1>3, <2>1
    <3>3. search' = [search EXCEPT ![q] = NoSearch]
      BY <2>1 DEF Ends
    <3>. QED
      BY <3>1, <3>2, <3>3, SearchesStep DEF SearchesKept
  <2>3. SlotsKept
    BY <1>1, <2>1, NoSlotStep DEF SlotsKept, Typed
  <2>. QED
    BY <1>2, <2>1, <2>2, <2>3
<1>7. ASSUME NEW q \in Searches, Nap(q) PROVE GeocodeInv'
  <2>1. Home(q) \in Servers
    BY <1>7 DEF Nap, GeocodeInv, UnderWay, At
  <2>2. Reached(Home(q)) \/ NotReached(Home(q))
    BY <1>7 DEF Nap
  <2>3. Typed /\ outages <= outages' /\ (\A t \in Servers : openUntil'[t] > 0 => outages' > 0)
        /\ UNCHANGED <<now, throttle, lock, nextSlot, life, slots>>
    BY <1>1, <1>7, <2>1, <2>2, CallMarks DEF Nap, GeocodeInv, Typed
  <2>4. PICK u \in Nat : search' = [search EXCEPT ![q].at = "napping", ![q].until = u]
    <3>1. search[q].deadline \in Nat /\ now + 1 \in Nat /\ (now < throttle => now + (throttle - now) \in Nat)
      BY <1>1 DEF Stage
    <3>. QED
      BY <1>7, <3>1 DEF Nap
  <2>5. SearchesKept
    <3>. DEFINE r == [search[q] EXCEPT !.at = "napping", !.until = u]
    <3>1. search' = [search EXCEPT ![q] = r] /\ r \in Stage /\ r.at = "napping"
          /\ r.on = Home(q) /\ r.skips = search[q].skips
      BY <1>1, <2>4 DEF Stage, Stages, Home
    <3>2. ~r.skips
      BY <1>7, <3>1 DEF Nap
    <3>. HIDE DEF r
    <3>. QED
      BY <1>1, <2>1, <2>3, <3>1, <3>2, SearchesStep DEF SearchesKept, Typed
  <2>6. SlotsKept
    BY <1>1, <2>3, NoSlotStep DEF SlotsKept, Typed
  <2>. QED
    BY <1>2, <2>3, <2>5, <2>6
<1>8. ASSUME NEW q \in Searches, Wake(q) PROVE GeocodeInv'
  <2>1. Typed /\ UNCHANGED <<openUntil, outages, lock, nextSlot, now, throttle, life, slots>>
        /\ Home(q) \in Servers /\ search[q].deadline \in Nat
    BY <1>1, <1>8 DEF Wake, Typed, processVars, GeocodeInv, UnderWay, At, Stage
  <2>2. SearchesKept
    <3>1. outages' \in Nat /\ outages <= outages' /\ (\A t \in Servers : openUntil'[t] > 0 => outages' > 0)
          /\ openUntil' \in [Servers -> Nat] /\ UNCHANGED <<lock, nextSlot>>
      BY <1>1, <1>3, <2>1
    <3>2. Asks(q, Home(q), search[q].deadline)
      BY <1>8 DEF Wake
    <3>. QED
      BY <2>1, <3>1, <3>2, AskStep DEF SearchesKept
  <2>3. SlotsKept
    BY <1>1, <2>1, NoSlotStep DEF SlotsKept, Typed
  <2>. QED
    BY <1>2, <2>1, <2>2, <2>3
<1>9. ASSUME NEW q \in Searches, TurnLocal(q) PROVE GeocodeInv'
  <2>1. Home(q) \in Servers /\ search[q].since \in Nat /\ search[q] \in Stage
    BY <1>1, <1>9 DEF TurnLocal, GeocodeInv, UnderWay, At, Stage
  <2>2. /\ openUntil' \in [Servers -> Nat] /\ outages' \in Nat /\ outages <= outages'
        /\ \A t \in Servers : openUntil'[t] > 0 => outages' > 0
    <3>1. CASE Answered
      BY <1>1, <1>3, <3>1 DEF Answered
    <3>2. CASE Fails(Home(q), search[q].since)
      BY <2>1, <3>2, CallMarks DEF GeocodeInv
    <3>. QED
      BY <1>9, <3>1, <3>2 DEF TurnLocal
  <2>3. outages' > 0
    <3>1. CASE search[q].skips /\ Answered
      BY <3>1 DEF Answered, GeocodeInv, PassedBy
    <3>2. CASE Fails(Home(q), search[q].since)
      BY <2>1, <3>2, CallTyped DEF GeocodeInv
    <3>. QED
      BY <1>9, <3>1, <3>2 DEF TurnLocal
  <2>4. Typed /\ throttle <= throttle' /\ UNCHANGED <<now, lock, nextSlot, life, slots>>
    BY <1>1, <1>9, <2>2 DEF TurnLocal, Typed
  <2>5. SearchesKept
    <3>. DEFINE r == [search[q] EXCEPT !.at = "queueing"]
    <3>1. search' = [search EXCEPT ![q] = r] /\ r \in Stage /\ r.at = "queueing" /\ r.on = Home(q)
      BY <1>1, <1>9, <2>1 DEF TurnLocal, Stage, Stages, Home
    <3>. HIDE DEF r
    <3>. QED
      BY <2>1, <2>2, <2>3, <2>4, <3>1, SearchesStep DEF SearchesKept
  <2>6. SlotsKept
    BY <1>1, <2>2, <2>4, NoSlotStep DEF SlotsKept, Typed
  <2>. QED
    BY <1>2, <2>4, <2>5, <2>6
<1>10. ASSUME NEW q \in Searches, Doze(q) PROVE GeocodeInv'
  <2>1. Home(q) \in Servers /\ search[q] \in Stage /\ outages > 0 /\ lock[Home(q)] = Nobody
        /\ nextSlot[Home(q)] \in Nat
    BY <1>1, <1>10 DEF Doze, GeocodeInv, UnderWay, PassedBy, At
  <2>2. Typed /\ UNCHANGED <<openUntil, outages, nextSlot, now, throttle, life, slots>>
        /\ lock' = [lock EXCEPT ![Home(q)] = q]
    BY <1>1, <1>10 DEF Doze, Typed
  <2>3. ASSUME NEW p \in Searches \ {q}, At(p, "dozing") PROVE lock'[Home(p)] = lock[Home(p)]
    <3>1. lock[Home(p)] = p /\ p # Nobody
      BY <1>1, <2>3 DEF GeocodeInv, SleepersHold
    <3>. QED
      BY <1>1, <2>1, <2>2, <3>1
  <2>4. SearchesKept
    <3>. DEFINE r == [search[q] EXCEPT !.at = "dozing", !.until = nextSlot[Home(q)]]
    <3>1. search' = [search EXCEPT ![q] = r] /\ r \in Stage /\ r.at = "dozing" /\ r.on = Home(q)
          /\ r.until = nextSlot'[r.on] /\ lock'[r.on] = q
      BY <1>1, <1>10, <2>1, <2>2 DEF Doze, Stage, Stages, Home
    <3>. HIDE DEF r
    <3>2. outages' \in Nat /\ outages <= outages' /\ outages' > 0 /\ nextSlot' = nextSlot
      BY <1>1, <2>1, <2>2
    <3>. QED
      BY <2>1, <2>3, <3>1, <3>2, SearchesStep DEF SearchesKept
  <2>5. SlotsKept
    BY <1>1, <2>2, NoSlotStep DEF SlotsKept, Typed
  <2>. QED
    BY <1>2, <2>2, <2>4, <2>5
<1>11. ASSUME NEW q \in Searches, AcquireLocal(q) PROVE GeocodeInv'
  <2>. DEFINE s == Home(q)
              by == <<s, life[s]>>
  <2>1. s \in Servers /\ search[q] \in Stage /\ outages > 0 /\ life[s] \in Nat /\ nextSlot[s] \in Nat
    BY <1>1, <1>11 DEF AcquireLocal, GeocodeInv, UnderWay, PassedBy, At
  <2>2. lock[s] \in {Nobody, q} /\ nextSlot[s] <= now
    <3>1. CASE At(q, "queueing") /\ lock[s] = Nobody /\ nextSlot[s] <= now
      BY <3>1
    <3>2. CASE At(q, "dozing") /\ search[q].until <= now
      BY <3>2 DEF GeocodeInv, SleepersHold
    <3>. QED
      BY <1>11, <3>1, <3>2 DEF AcquireLocal
  <2>3. /\ UNCHANGED <<now, throttle, backoff, openUntil, life, outages>>
        /\ nextSlot' = [nextSlot EXCEPT ![s] = now + Interval]
        /\ lock' = [lock EXCEPT ![s] = Nobody]
        /\ Slot(by) /\ Proceeds(q)
    BY <1>11 DEF AcquireLocal
  <2>. HIDE DEF s, by
  <2>4. Typed /\ throttle <= throttle' /\ nextSlot'[s] = now + Interval
    BY <1>1, <2>1, <2>3 DEF Typed
  <2>5. ASSUME NEW p \in Searches \ {q}, At(p, "dozing")
        PROVE  lock'[Home(p)] = lock[Home(p)] /\ nextSlot'[Home(p)] = nextSlot[Home(p)]
    <3>1. lock[Home(p)] = p /\ p # Nobody /\ Home(p) \in Servers
      BY <1>1, <2>5 DEF GeocodeInv, SleepersHold, UnderWay, At
    <3>2. Home(p) # s
      BY <2>2, <3>1
    <3>. QED
      BY <1>1, <2>3, <3>1, <3>2
  <2>6. SearchesKept
    <3>. DEFINE r == [NoSearch EXCEPT !.at = "calling", !.on = Home(q)]
    <3>1. search' = [search EXCEPT ![q] = r] /\ search' \in [Searches -> Stage]
      BY <2>1, <2>3, SearchTyped DEF Proceeds, GeocodeInv, s
    <3>2. r \in Stage /\ r.at = "calling" /\ r.on \in Servers /\ r.skips = FALSE
      BY <1>1, <2>1, <3>1 DEF NoSearch, s
    <3>. HIDE DEF r
    <3>3. outages' \in Nat /\ outages <= outages' /\ (\A t \in Servers : openUntil'[t] > 0 => outages' > 0)
      BY <1>1, <1>3, <2>3
    <3>. QED
      BY <2>5, <3>1, <3>2, <3>3, SearchesStep DEF SearchesKept
  <2>7. SlotsKept
    <3>1. by \in Sources /\ by # Redis /\ \A t \in Servers, n \in Nat : by = <<t, n>> => t = s /\ n = life[s]
      BY <2>1, GeocodeAssumption DEF Redis, Sources, by
    <3>2. \A t \in Servers : nextSlot[t] <= nextSlot'[t]
      BY <1>1, <2>1, <2>2, <2>3
    <3>3. \A t \in Servers, n \in Nat :
            by = <<t, n>> => n = life[t] /\ nextSlot[t] <= now /\ now + Interval <= nextSlot'[t]
      BY <1>1, <2>2, <2>4, <3>1
    <3>4. SlotsRemembered' /\ SlotsSpaced'
      BY <1>1, <2>1, <2>3, <2>4, <3>1, <3>2, <3>3, SlotStep DEF Typed
    <3>5. slots' \in Seq([at : Nat, by : Sources])
      BY <2>3, <3>1, SlotAdded DEF GeocodeInv
    <3>. QED
      BY <3>4, <3>5 DEF SlotsKept
  <2>. QED
    BY <1>2, <2>4, <2>6, <2>7
<1>12. ASSUME NEW q \in Searches, ProviderAnswers(q) PROVE GeocodeInv'
  <2>1. Home(q) \in Servers
    BY <1>12 DEF ProviderAnswers, GeocodeInv, UnderWay, At
  <2>2. Reached(Home(q)) \/ NotReached(Home(q))
    BY <1>12 DEF ProviderAnswers
  <2>3. Typed /\ outages <= outages' /\ (\A t \in Servers : openUntil'[t] > 0 => outages' > 0)
        /\ UNCHANGED <<now, throttle, lock, nextSlot, life, slots>>
    BY <1>1, <1>12, <2>1, <2>2, CallMarks DEF ProviderAnswers, GeocodeInv, Typed
  <2>4. SearchesKept
    <3>1. NoSearch \in Stage /\ NoSearch.at = "idle" /\ NoSearch.skips = FALSE
      BY SearchTyped DEF NoSearch, GeocodeInv
    <3>2. search' = [search EXCEPT ![q] = NoSearch]
      BY <1>12 DEF ProviderAnswers, Ends
    <3>3. outages' \in Nat /\ lock' = lock /\ nextSlot' = nextSlot
      BY <2>3 DEF Typed
    <3>. QED
      BY <2>3, <3>1, <3>2, <3>3, SearchesStep DEF SearchesKept
  <2>5. SlotsKept
    BY <1>1, <2>3, NoSlotStep DEF SlotsKept, Typed
  <2>. QED
    BY <1>2, <2>3, <2>4, <2>5
<1>13. ASSUME NEW s \in Servers, Restart(s) PROVE GeocodeInv'
  <2>1. Typed /\ UNCHANGED <<now, throttle, backoff, slots, outages>>
        /\ life'[s] = life[s] + 1 /\ openUntil'[s] = 0
        /\ \A t \in Servers \ {s} : /\ life'[t] = life[t] /\ nextSlot'[t] = nextSlot[t]
                                    /\ lock'[t] = lock[t] /\ openUntil'[t] = openUntil[t]
    BY <1>1, <1>13 DEF Restart, Typed
  <2>2. \A q \in Searches : search'[q] = NoSearch \/ (Home(q) # s /\ search'[q] = search[q])
    BY <1>13 DEF Restart
  <2>3. NoSearch \in Stage /\ NoSearch.at = "idle" /\ NoSearch.skips = FALSE
    BY <1>1 DEF NoSearch, Stage, Stages
  <2>4. search' \in [Searches -> Stage]
    BY <1>1, <1>13, <2>3 DEF Restart
  <2>5. SleepersHold' /\ UnderWay'
    BY <2>1, <2>2, <2>3 DEF GeocodeInv, SleepersHold, UnderWay, At, Home
  <2>6. PassedBy'
    BY <1>3, <2>1, <2>2, <2>3 DEF GeocodeInv, PassedBy, At
  <2>7. SlotsKept
    <3>1. \A t \in Servers : \/ life'[t] = life[t] /\ nextSlot[t] <= nextSlot'[t]
                             \/ life'[t] > life[t]
      BY <1>1, <2>1
    <3>. QED
      BY <1>1, <2>1, <3>1, NoSlotStep DEF SlotsKept, Typed
  <2>. QED
    BY <1>2, <2>1, <2>4, <2>5, <2>6, <2>7 DEF SearchesKept
<1>14. CASE Tick
  <2>1. Typed /\ now <= now' /\ UNCHANGED <<throttle, backoff, processVars, search, slots, outages>>
    BY <1>1, <1>14 DEF Tick, Typed, processVars
  <2>2. SearchesKept
    BY <1>1, <2>1 DEF SearchesKept, GeocodeInv, SleepersHold, UnderWay, PassedBy, At, Home, processVars
  <2>3. SlotsKept
    BY <1>1, <2>1, NoSlotStep DEF SlotsKept, Typed, processVars
  <2>. QED
    BY <1>2, <2>1, <2>2, <2>3
<1>15. CASE UNCHANGED geocodeVars
  BY <1>15 DEF geocodeVars, processVars, GeocodeInv, GeocodeTypeOK, SlotsRemembered, Remembered,
     SleepersHold, UnderWay, PassedBy, SlotsSpaced, At, Home
<1>. QED
  BY <1>4, <1>5, <1>6, <1>7, <1>8, <1>9, <1>10, <1>11, <1>12, <1>13, <1>14, <1>15
     DEF GeocodeNext

LEMMA GeocodeAlways == GeocodeSpec => []GeocodeInv
  BY GeocodeInvInit, GeocodeStep, PTL DEF GeocodeSpec

(* Clocks, keys and searches keep their shape, whatever fails.             *)
THEOREM GeocodeTypes == GeocodeSpec => []GeocodeTypeOK
<1>1. GeocodeInv => GeocodeTypeOK
  BY DEF GeocodeInv
<1>. QED
  BY <1>1, GeocodeAlways, PTL

(* Searches of any number of processes keep the provider's interval as     *)
(* long as Redis answers, and each process keeps it by itself when not.    *)
THEOREM SlotsKeepTheirDistance == GeocodeSpec => []SlotsSpaced
<1>1. GeocodeInv => SlotsSpaced
  BY DEF GeocodeInv
<1>. QED
  BY <1>1, GeocodeAlways, PTL
=============================================================================
