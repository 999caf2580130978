------------------------------ MODULE Documents ------------------------------
(***************************************************************************)
(* The register of planning documents (api/services/admin.py): each        *)
(* document is a lineage of versions, one of them current; administrators  *)
(* register versions, edit the current one's short code and switch its     *)
(* coverage on the map.  A request reads in one statement and writes in a  *)
(* later one of the same READ COMMITTED transaction; of the requests here  *)
(* only update_document locks the row it has read.                         *)
(***************************************************************************)
EXTENDS Naturals

CONSTANTS Codes,        \* short codes
          NoCode,
          Editors,      \* requests that can be under way at once
          MaxRows       \* bound: document versions, all lineages together

ASSUME RegisterBounds == MaxRows \in Nat /\ NoCode \notin Codes

VARIABLES
  lineage,      \* row -> lineage_id, 0 before it is inserted
  number,       \* row -> version
  newest,       \* rows with is_current_version
  live,         \* rows with coverage_live
  drawn,        \* rows with coverage_geom
  code,         \* row -> short_code
  editor,       \* per request: where it is, the row it read, the code it writes
  clashed,      \* history: codes two requests have checked side by side
  outlived      \* history: rows replaced while a request was switching them on

registerVars == <<lineage, number, newest, live, drawn, code, editor, clashed, outlived>>

Rows == 1..MaxRows
Registered == {d \in Rows : lineage[d] # 0}
Idle == [at |-> "idle", doc |-> 0, code |-> NoCode]

RegisterInit ==
  /\ lineage = [d \in Rows |-> 0]
  /\ number = [d \in Rows |-> 0]
  /\ newest = {} /\ live = {} /\ drawn = {}
  /\ code = [d \in Rows |-> NoCode]
  /\ editor = [r \in Editors |-> Idle]
  /\ clashed = {} /\ outlived = {}

Moves(r, at, d, c) == editor' = [editor EXCEPT ![r] = [at |-> at, doc |-> d, code |-> c]]

(* SHORT_CODE_TAKEN_SQL: no current version of another lineage has it.     *)
CodeFree(c, l) == c # NoCode => \A d \in newest : code[d] = c => lineage[d] = l

(* update_document holds its row FOR UPDATE until it ends.                 *)
Unlocked(d) == \A r \in Editors : editor[r].at = "patching" => editor[r].doc # d

(* Requests that have checked a code and not written it yet                *)
Checked(r) == {c \in Codes : \E q \in Editors \ {r} :
                 editor[q].at \in {"registering", "patching"} /\ editor[q].code = c}

-----------------------------------------------------------------------------
(* register_document reads the version it replaces (0: a new document) and *)
(* checks the code, by default the replaced version's.                     *)
AskVersion(r, d, c) ==
  /\ editor[r].at = "idle"
  /\ d = 0 \/ d \in newest
  /\ LET wanted == IF c = NoCode /\ d # 0 THEN code[d] ELSE c
     IN /\ CodeFree(wanted, IF d = 0 THEN 0 ELSE lineage[d])
        /\ Moves(r, "registering", d, wanted)
  /\ UNCHANGED <<lineage, number, newest, live, drawn, code, clashed, outlived>>

(* uq_planning_documents_current_version, once d is retired                *)
IndexFree(d) == d # 0 => \A e \in newest \ {d} : lineage[e] # lineage[d]

(* RETIRE_VERSION_SQL, INSERT_DOCUMENT_SQL and the commit: version n has   *)
(* the next id; the replaced one, if any, leaves the current ones and the  *)
(* map.                                                                    *)
Replace(r, d, n) ==
  /\ editor[r].at = "registering" /\ Unlocked(d)
  /\ lineage[n] = 0 /\ \A e \in Rows : e < n => lineage[e] # 0
  /\ lineage' = [lineage EXCEPT ![n] = IF d = 0 THEN n ELSE lineage[d]]
  /\ number' = [number EXCEPT ![n] = IF d = 0 THEN 1 ELSE number[d] + 1]
  /\ newest' = (newest \ {d}) \cup {n}
  /\ live' = live \ {d}
  /\ drawn' = IF d \in drawn THEN drawn \cup {n} ELSE drawn
  /\ code' = [code EXCEPT ![n] = editor[r].code]
  /\ clashed' = clashed \cup (Checked(r) \cap {editor[r].code})
  /\ outlived' = outlived \cup {e \in {d} :
       \E q \in Editors : editor[q].at = "switching" /\ editor[q].doc = e}
  /\ Moves(r, "idle", 0, NoCode)

(* Mutant: without the unique index.                                       *)
RegisterUnindexed(r, n) == Replace(r, editor[r].doc, n)

Register(r, n) == IndexFree(editor[r].doc) /\ Replace(r, editor[r].doc, n)

(* The index refuses the row, the request fails otherwise or its process   *)
(* dies: the transaction is rolled back.                                   *)
Abandon(r) ==
  /\ editor[r].at # "idle"
  /\ Moves(r, "idle", 0, NoCode)
  /\ UNCHANGED <<lineage, number, newest, live, drawn, code, clashed, outlived>>

(* update_document: the current version only                               *)
AskPatch(r, d, c) ==
  /\ editor[r].at = "idle"
  /\ Unlocked(d) /\ d \in newest
  /\ c # code[d] /\ CodeFree(c, lineage[d])
  /\ Moves(r, "patching", d, c)
  /\ UNCHANGED <<lineage, number, newest, live, drawn, code, clashed, outlived>>

Patch(r) ==
  /\ editor[r].at = "patching"
  /\ code' = [code EXCEPT ![editor[r].doc] = editor[r].code]
  /\ clashed' = clashed \cup (Checked(r) \cap {editor[r].code})
  /\ Moves(r, "idle", 0, NoCode)
  /\ UNCHANGED <<lineage, number, newest, live, drawn, outlived>>

(* set_coverage_live(true) reads the row without a lock ...                *)
AskLive(r, d) ==
  /\ editor[r].at = "idle"
  /\ d \in newest \cap drawn
  /\ Moves(r, "switching", d, NoCode)
  /\ UNCHANGED <<lineage, number, newest, live, drawn, code, clashed, outlived>>

(* ... and SET_COVERAGE_SQL writes it by its id.                           *)
SwitchOn(r) ==
  /\ editor[r].at = "switching" /\ Unlocked(editor[r].doc)
  /\ live' = live \cup {editor[r].doc}
  /\ Moves(r, "idle", 0, NoCode)
  /\ UNCHANGED <<lineage, number, newest, drawn, code, clashed, outlived>>

(* set_coverage_live(false) takes any version: nothing it reads matters.   *)
SwitchOff(d) ==
  /\ d \in live /\ Unlocked(d)
  /\ live' = live \ {d}
  /\ UNCHANGED <<lineage, number, newest, drawn, code, editor, clashed, outlived>>

(* A publish copies a staged coverage geometry to its document, of any     *)
(* version.                                                                *)
DrawCoverage(d) ==
  /\ d \in Registered \ drawn /\ Unlocked(d)
  /\ drawn' = drawn \cup {d}
  /\ UNCHANGED <<lineage, number, newest, live, code, editor, clashed, outlived>>

-----------------------------------------------------------------------------
RegisterNext ==
  \/ \E r \in Editors :
       \/ \E d \in Rows \cup {0}, c \in Codes \cup {NoCode} : AskVersion(r, d, c)
       \/ \E n \in Rows : Register(r, n)
       \/ \E d \in Rows, c \in Codes \cup {NoCode} : AskPatch(r, d, c)
       \/ Patch(r)
       \/ \E d \in Rows : AskLive(r, d)
       \/ SwitchOn(r)
       \/ Abandon(r)
  \/ \E d \in Rows : SwitchOff(d) \/ DrawCoverage(d)

RegisterSpec == RegisterInit /\ [][RegisterNext]_registerVars

-----------------------------------------------------------------------------
(* Properties *)

(* Rows have the shape of the schema and are numbered along their lineage; *)
(* a request that is about to write has read an existing row.              *)
RegisterTypeOK ==
  /\ lineage \in [Rows -> Rows \cup {0}]
  /\ number \in [Rows -> 0..MaxRows]
  /\ newest \subseteq Registered /\ live \subseteq drawn /\ drawn \subseteq Registered
  /\ code \in [Rows -> Codes \cup {NoCode}]
  /\ editor \in [Editors -> [at : {"idle", "registering", "patching", "switching"},
                             doc : Registered \cup {0}, code : Codes \cup {NoCode}]]
  /\ clashed \subseteq Codes /\ outlived \subseteq Rows
  /\ \A d \in Registered : lineage[d] \in Registered /\ number[d] \in 1..d

(* planning.py:203-207: a document has one current version, the last one,  *)
(* however registrations of its versions interleave.                       *)
LastIsCurrent ==
  \A d \in Registered : \E n \in newest :
    /\ lineage[n] = lineage[d]
    /\ \A e \in Registered \ {n} :
         lineage[e] = lineage[d] => e \notin newest /\ number[e] < number[n]

(* admin.py:1360: only the current version has live coverage, as long as   *)
(* it is not replaced while a request switches it on.                      *)
LiveIsCurrent == live \subseteq newest \cup outlived

(* admin.py:1255: a short code names one document, as long as no two       *)
(* requests have checked it side by side.                                  *)
CodeNamesOne ==
  \A d, e \in newest : code[d] = code[e] /\ code[d] \notin clashed \cup {NoCode}
                         => lineage[d] = lineage[e]

(* What the register promises of every document, version and short code.   *)
RegisterKept == LastIsCurrent /\ LiveIsCurrent /\ CodeNamesOne
=============================================================================
