----------------------------- MODULE MailProofs -----------------------------
(***************************************************************************)
(* Links, sessions and letters, for any number of letters, requests,       *)
(* workers, browsers and attempts, and for every combination of faults.    *)
(***************************************************************************)
EXTENDS Mail, TLAPS, FiniteSetTheorems

(* The full shape of the state.                                            *)
LetterShape ==
  /\ letter \in [Letters -> {None, "queued", "sent", "failed", "suppressed"}]
  /\ task \in [Letters -> {None, "active", "failed", "done"}]
  /\ attempts \in [Letters -> Nat]
  /\ recent \subseteq Letters /\ due \subseteq Letters
  /\ unmarked \subseteq Letters

Errands == [at : {"idle", "asked", "written", "refused"}, about : Letters \cup {None}]
RequestShape ==
  /\ asking \in [Requests -> Errands]
  /\ \A r \in Requests : asking[r].at \in {"written", "refused"} <=> asking[r].about \in Letters

Verdicts == {None, "done", "failed", "again"}
Duties == [at : {"idle", "loaded", "minted", "sent", "ended"}, about : Letters \cup {None},
           try : Nat, token : 0..MaxMints, verdict : Verdicts]
PostmanShape ==
  /\ postman \in [Postmen -> Duties]
  /\ \A w \in Postmen : /\ postman[w].at # "idle" <=> Letter(w) \in Letters
                        /\ postman[w].at \in {"minted", "sent"} => postman[w].token # 0
                        /\ postman[w].at = "ended" => postman[w].verdict # None

LinkShape ==
  /\ token \in [Tokens -> {None, "unused", "spent"}]
  /\ inbox \subseteq Tokens /\ sessions \subseteq Tokens
  /\ opening \in [Browsers -> SUBSET Tokens]
  /\ opened \in [Tokens -> Nat]

Shape == LetterShape /\ RequestShape /\ PostmanShape /\ LinkShape

-----------------------------------------------------------------------------
(* What a step does to the worker, or the request, that takes it           *)

LEMMA WorkerGoes ==
  ASSUME PostmanShape, NEW w \in Postmen, NEW l \in Letters,
         NEW at \in {"loaded", "minted", "sent", "ended"}, NEW try \in Nat,
         NEW n \in 0..MaxMints, NEW verdict \in Verdicts,
         at \in {"minted", "sent"} => n # 0, at = "ended" => verdict # None,
         Goes(w, l, at, try, n, verdict)
  PROVE  /\ PostmanShape'
         /\ postman'[w] = [at |-> at, about |-> l, try |-> try, token |-> n, verdict |-> verdict]
         /\ \A v \in Postmen \ {w} : postman'[v] = postman[v]
<1>1. [at |-> at, about |-> l, try |-> try, token |-> n, verdict |-> verdict] \in Duties
  BY DEF Duties
<1>. QED
  BY <1>1 DEF PostmanShape, Goes, Letter

LEMMA WorkerLeaves ==
  ASSUME PostmanShape, NEW w \in Postmen, postman' = [postman EXCEPT ![w] = NoPostman]
  PROVE  /\ PostmanShape' /\ postman'[w] = NoPostman
         /\ \A v \in Postmen \ {w} : postman'[v] = postman[v]
<1>1. NoPostman \in Duties /\ NoPostman.at = "idle" /\ NoPostman.about \notin Letters
  BY MailAssumption, NoneAssumption DEF Duties, NoPostman, Verdicts
<1>. QED
  BY <1>1 DEF PostmanShape, Letter

LEMMA RequestGoes ==
  ASSUME RequestShape, NEW r \in Requests, NEW at \in {"idle", "asked", "written", "refused"},
         NEW l \in Letters \cup {None}, at \in {"written", "refused"} <=> l \in Letters,
         asking' = [asking EXCEPT ![r] = [at |-> at, about |-> l]]
  PROVE  /\ RequestShape' /\ asking'[r] = [at |-> at, about |-> l]
         /\ \A q \in Requests \ {r} : asking'[q] = asking[q]
<1>1. [at |-> at, about |-> l] \in Errands
  BY DEF Errands
<1>. QED
  BY <1>1 DEF RequestShape

(* A busy worker is about a letter.                                        *)
LEMMA Busy ==
  ASSUME PostmanShape, NEW w \in Postmen
  PROVE  /\ postman[w] \in Duties /\ postman[w].try \in Nat /\ postman[w].token \in 0..MaxMints
         /\ postman[w].verdict \in Verdicts
         /\ postman[w].at \in {"idle", "loaded", "minted", "sent", "ended"}
         /\ postman[w].at # "idle" <=> Letter(w) \in Letters
BY DEF PostmanShape, Duties


(* The steps of requests: shape, and who is about what afterwards          *)
OthersAsk(r) == \A q \in Requests \ {r} : asking'[q] = asking[q]
OthersWork(w) == \A v \in Postmen \ {w} : postman'[v] = postman[v]

LEMMA RequestSteps ==
  ASSUME Shape, NEW r \in Requests
  PROVE  /\ AskLink(r) => /\ Shape' /\ OthersAsk(r) /\ UNCHANGED postman
                          /\ asking'[r].at = "asked" /\ asking'[r].about = None
         /\ \A l \in Letters : WriteLetter(r, l) =>
              /\ Shape' /\ OthersAsk(r) /\ UNCHANGED postman
              /\ asking'[r].at = "written" /\ asking'[r].about = l
         /\ Refuse(r) => /\ Shape' /\ OthersAsk(r) /\ UNCHANGED postman
                         /\ asking'[r].at = "refused" /\ asking'[r].about = asking[r].about
                         /\ asking[r].about \in Letters
         /\ Enqueue(r) \/ QueueFailed(r) => asking[r].about \in Letters
         /\ Enqueue(r) \/ QueueFailed(r) \/ RequestDies(r) =>
              /\ Shape' /\ OthersAsk(r) /\ UNCHANGED postman
              /\ asking'[r].at = "idle" /\ asking'[r].about = None
<1>. USE NoneAssumption DEF rowVars, linkVars, userVars, faultVars, OthersAsk
<1>1. /\ RequestShape /\ LetterShape /\ PostmanShape /\ LinkShape
      /\ asking[r].at \in {"written", "refused"} => asking[r].about \in Letters
  BY DEF Shape, RequestShape
<1>2. ASSUME UNCHANGED <<postman, linkVars, userVars>>
      PROVE  PostmanShape' /\ LinkShape'
  BY <1>1, <1>2 DEF PostmanShape, LinkShape, Letter
<1>3. ASSUME AskLink(r)
      PROVE  /\ Shape' /\ OthersAsk(r) /\ UNCHANGED postman
             /\ asking'[r].at = "asked" /\ asking'[r].about = None
  <2>1. asking' = [asking EXCEPT ![r] = [at |-> "asked", about |-> None]]
    BY <1>3 DEF AskLink
  <2>2. LetterShape' /\ UNCHANGED <<postman, linkVars, userVars>>
    BY <1>1, <1>3 DEF AskLink, LetterShape
  <2>3. RequestShape' /\ asking'[r] = [at |-> "asked", about |-> None] /\ OthersAsk(r)
    BY <1>1, <2>1, RequestGoes
  <2>4. PostmanShape' /\ LinkShape'
    BY <1>2, <2>2
  <2>. QED
    BY <2>1, <2>2, <2>3, <2>4 DEF Shape
<1>4. ASSUME NEW l \in Letters, WriteLetter(r, l)
      PROVE  /\ Shape' /\ OthersAsk(r) /\ UNCHANGED postman
             /\ asking'[r].at = "written" /\ asking'[r].about = l
  <2>1. asking' = [asking EXCEPT ![r] = [at |-> "written", about |-> l]]
    BY <1>4 DEF WriteLetter
  <2>2. LetterShape' /\ UNCHANGED <<postman, linkVars, userVars>>
    BY <1>1, <1>4 DEF WriteLetter, LetterShape
  <2>3. RequestShape' /\ asking'[r] = [at |-> "written", about |-> l] /\ OthersAsk(r)
    BY <1>1, <2>1, <1>4, RequestGoes
  <2>4. PostmanShape' /\ LinkShape'
    BY <1>2, <2>2
  <2>. QED
    BY <2>1, <2>2, <2>3, <2>4 DEF Shape
<1>5. ASSUME Refuse(r)
      PROVE  /\ Shape' /\ OthersAsk(r) /\ UNCHANGED postman
             /\ asking'[r].at = "refused" /\ asking'[r].about = asking[r].about
             /\ asking[r].about \in Letters
  <2>1. /\ asking' = [asking EXCEPT ![r] = [at |-> "refused", about |-> asking[r].about]]
        /\ asking[r].about \in Letters
    BY <1>1, <1>5 DEF Refuse
  <2>2. LetterShape' /\ UNCHANGED <<postman, linkVars, userVars>>
    BY <1>1, <1>5, <2>1 DEF Refuse, LetterShape
  <2>3. RequestShape' /\ asking'[r] = [at |-> "refused", about |-> asking[r].about] /\ OthersAsk(r)
    BY <1>1, <2>1, RequestGoes
  <2>4. PostmanShape' /\ LinkShape'
    BY <1>2, <2>2
  <2>. QED
    BY <2>1, <2>2, <2>3, <2>4 DEF Shape
<1>6. Enqueue(r) \/ QueueFailed(r) => asking[r].about \in Letters
  BY <1>1 DEF Enqueue, QueueFailed
<1>7. ASSUME Enqueue(r) \/ QueueFailed(r) \/ RequestDies(r)
      PROVE  /\ Shape' /\ OthersAsk(r) /\ UNCHANGED postman
             /\ asking'[r].at = "idle" /\ asking'[r].about = None
  <2>1. asking' = [asking EXCEPT ![r] = [at |-> "idle", about |-> None]]
    BY <1>7 DEF Enqueue, QueueFailed, RequestDies, NoRequest
  <2>2. LetterShape' /\ UNCHANGED <<postman, linkVars, userVars>>
    BY <1>1, <1>6, <1>7 DEF Enqueue, QueueFailed, RequestDies, LetterShape
  <2>3. RequestShape' /\ asking'[r] = [at |-> "idle", about |-> None] /\ OthersAsk(r)
    BY <1>1, <2>1, RequestGoes
  <2>4. PostmanShape' /\ LinkShape'
    BY <1>2, <2>2
  <2>. QED
    BY <2>1, <2>2, <2>3, <2>4 DEF Shape
<1>. QED
  BY <1>3, <1>4, <1>5, <1>6, <1>7

(* The steps of workers                                                    *)
Ends(w) == /\ Shape' /\ OthersWork(w) /\ UNCHANGED asking
           /\ Letter(w) \in Letters /\ Letter(w)' = Letter(w) /\ postman'[w].at = "ended"

LEMMA EndEnds ==
  ASSUME Shape, NEW w \in Postmen, postman[w].at # "idle", NEW verdict \in Verdicts \ {None},
         NEW status \in {None, "queued", "sent", "failed", "suppressed"},
         End(w, status, verdict), token' = token, inbox' \subseteq Tokens,
         unmarked' \subseteq Letters
  PROVE  Ends(w) /\ postman'[w].verdict = verdict
<1>1. Letter(w) \in Letters /\ postman[w].try \in Nat /\ postman[w].token \in 0..MaxMints
  BY Busy DEF Shape
<1>2. /\ Goes(w, Letter(w), "ended", postman[w].try, postman[w].token, verdict)
      /\ letter' = [letter EXCEPT ![Letter(w)] = status]
      /\ UNCHANGED <<recent, due, task, attempts, userVars, asking>>
  BY DEF End
<1>3. PostmanShape' /\ OthersWork(w)
         /\ postman'[w] = [at |-> "ended", about |-> Letter(w), try |-> postman[w].try,
                           token |-> postman[w].token, verdict |-> verdict]
  BY <1>1, <1>2, WorkerGoes DEF Shape, OthersWork
<1>4. LetterShape' /\ RequestShape' /\ LinkShape'
  BY <1>1, <1>2 DEF Shape, LetterShape, RequestShape, LinkShape, userVars
<1>. QED
  BY <1>1, <1>2, <1>3, <1>4 DEF Ends, Shape, Letter

LEMMA TransientEnds ==
  ASSUME Shape, NEW w \in Postmen, postman[w].at # "idle", Transient(w), token' = token,
         inbox' \subseteq Tokens, unmarked' \subseteq Letters
  PROVE  /\ Ends(w)
         /\ \/ letter' = letter /\ postman'[w].verdict = "again"
            \/ letter' = [letter EXCEPT ![Letter(w)] = "failed"] /\ postman'[w].verdict = "failed"
<1>1. letter[Letter(w)] \in {None, "queued", "sent", "failed", "suppressed"}
  BY Busy DEF Shape, LetterShape
<1>2. CASE postman[w].try >= MaxAttempts
  <2>1. End(w, "failed", "failed")
    BY <1>2 DEF Transient
  <2>. QED
    BY <2>1, EndEnds, NoneAssumption DEF End, Verdicts, None
<1>3. CASE ~(postman[w].try >= MaxAttempts)
  <2>1. End(w, letter[Letter(w)], "again")
    BY <1>3 DEF Transient
  <2>2. letter' = letter
    BY <2>1 DEF End, Shape, LetterShape
  <2>3. Ends(w) /\ postman'[w].verdict = "again"
    BY <1>1, <2>1, EndEnds, NoneAssumption DEF Verdicts, None
  <2>. QED
    BY <2>2, <2>3
<1>. QED
  BY <1>2, <1>3

LEMMA EscapesEnds ==
  ASSUME Shape, NEW w \in Postmen, postman[w].at # "idle", Escapes(w), token' = token,
         inbox' \subseteq Tokens, unmarked' \subseteq Letters
  PROVE  /\ Ends(w) /\ letter' = letter
         /\ \/ postman'[w].verdict = "again"
            \/ postman'[w].verdict = "failed" /\ Letter(w) \in escaped'
<1>1. letter[Letter(w)] \in {None, "queued", "sent", "failed", "suppressed"}
  BY Busy DEF Shape, LetterShape
<1>2. CASE End(w, letter[Letter(w)], "again")
  <2>1. letter' = letter
    BY <1>2 DEF End, Shape, LetterShape
  <2>2. Ends(w) /\ postman'[w].verdict = "again"
    BY <1>1, <1>2, EndEnds, NoneAssumption DEF Verdicts, None
  <2>. QED
    BY <2>1, <2>2
<1>3. CASE End(w, letter[Letter(w)], "failed") /\ escaped' = escaped \cup {Letter(w)}
  <2>1. letter' = letter
    BY <1>3 DEF End, Shape, LetterShape
  <2>2. Ends(w) /\ postman'[w].verdict = "failed"
    BY <1>1, <1>3, EndEnds, NoneAssumption DEF Verdicts, None
  <2>. QED
    BY <1>3, <2>1, <2>2
<1>. QED
  BY <1>2, <1>3 DEF Escapes

(* The ways a worker's attempt breaks off, and what they leave alone.      *)
Breaks(w) == ResolveFails(w) \/ SendFails(w) \/ BodyRaises(w) \/ MarkRaises(w)

LEMMA BreaksFrame ==
  ASSUME NEW w \in Postmen, Breaks(w)
  PROVE  /\ postman[w].at \in {"loaded", "minted", "sent"}
         /\ UNCHANGED <<sends, recent, due, task, attempts, userVars, asking, raced, token, lost>>
         /\ escaped \subseteq escaped' /\ escaped' \subseteq escaped \cup {Letter(w)}
         /\ \/ /\ inbox' = inbox /\ unmarked' = unmarked /\ postman[w].at # "sent"
            \/ /\ unmarked' = unmarked \cup {Letter(w)} /\ Letter(w) \in unmarked'
               /\ inbox' = inbox \/ inbox' = inbox \cup {<<Letter(w), postman[w].token>>}
               /\ postman[w].at = "minted" \/ inbox' = inbox
<1>. USE DEF linkVars, faultVars
<1>1. ASSUME Transient(w) \/ Escapes(w) \/ End(w, "failed", "failed")
      PROVE  UNCHANGED <<sends, recent, due, task, attempts, userVars, asking, raced>>
  BY <1>1 DEF Transient, Escapes, End
<1>2. Escapes(w) => escaped \subseteq escaped' /\ escaped' \subseteq escaped \cup {Letter(w)}
  BY DEF Escapes
<1>3. CASE ResolveFails(w)
  BY <1>1, <1>3 DEF ResolveFails
<1>4. CASE SendFails(w)
  BY <1>1, <1>2, <1>4 DEF SendFails, Mailed
<1>5. CASE BodyRaises(w)
  BY <1>1, <1>2, <1>5 DEF BodyRaises
<1>6. CASE MarkRaises(w)
  BY <1>1, <1>2, <1>6 DEF MarkRaises
<1>. QED
  BY <1>3, <1>4, <1>5, <1>6 DEF Breaks

LEMMA WorkerEnds ==
  ASSUME Shape, NEW w \in Postmen,
         NoRecipient(w) \/ Suppress(w) \/ MarkSent(w) \/ Breaks(w)
  PROVE  /\ Ends(w)
         /\ \/ letter' = letter /\ postman'[w].verdict = "again"
            \/ /\ Breaks(w) /\ letter' = letter
               /\ postman'[w].verdict = "failed" /\ Letter(w) \in escaped'
            \/ /\ NoRecipient(w) \/ Breaks(w)
               /\ letter' = [letter EXCEPT ![Letter(w)] = "failed"]
               /\ postman'[w].verdict = "failed"
            \/ /\ Suppress(w) /\ postman'[w].verdict = "done"
               /\ letter' = [letter EXCEPT ![Letter(w)] = "suppressed"]
            \/ /\ MarkSent(w) /\ postman'[w].verdict = "done"
               /\ letter' = [letter EXCEPT ![Letter(w)] = "sent"]
<1>. USE DEF linkVars, faultVars
<1>1. LetterShape /\ LinkShape /\ PostmanShape
  BY DEF Shape
<1>2. "failed" \in Verdicts \ {None} /\ "done" \in Verdicts \ {None}
  BY DEF Verdicts, None
<1>3. CASE NoRecipient(w)
  <2>1. End(w, "failed", "failed") /\ postman[w].at = "loaded" /\ UNCHANGED <<linkVars, unmarked>>
    BY <1>3 DEF NoRecipient
  <2>2. Ends(w) /\ postman'[w].verdict = "failed"
    BY <1>1, <1>2, <2>1, EndEnds DEF LetterShape, LinkShape
  <2>. QED
    BY <1>3, <2>1, <2>2 DEF End
<1>4. CASE Suppress(w)
  <2>1. End(w, "suppressed", "done") /\ postman[w].at = "minted" /\ UNCHANGED <<linkVars, unmarked>>
    BY <1>4 DEF Suppress
  <2>2. Ends(w) /\ postman'[w].verdict = "done"
    BY <1>1, <1>2, <2>1, EndEnds DEF LetterShape, LinkShape
  <2>. QED
    BY <1>4, <2>1, <2>2 DEF End
<1>5. CASE MarkSent(w)
  <2>1. End(w, "sent", "done") /\ postman[w].at = "sent" /\ UNCHANGED <<linkVars, unmarked>>
    BY <1>5 DEF MarkSent
  <2>2. Ends(w) /\ postman'[w].verdict = "done"
    BY <1>1, <1>2, <2>1, EndEnds DEF LetterShape, LinkShape
  <2>. QED
    BY <1>5, <2>1, <2>2 DEF End
<1>6. CASE ResolveFails(w)
  <2>1. Transient(w) /\ postman[w].at = "loaded" /\ UNCHANGED <<linkVars, unmarked>>
    BY <1>6 DEF ResolveFails
  <2>. QED
    BY <1>1, <1>6, <2>1, TransientEnds DEF LetterShape, LinkShape, Breaks
<1>7. CASE SendFails(w)
  <2>1. postman[w].at = "minted" /\ token' = token
    BY <1>7 DEF SendFails
  <2>2. Letter(w) \in Letters /\ <<Letter(w), postman[w].token>> \in Tokens
    BY <1>1, <2>1, Busy DEF PostmanShape, Tokens
  <2>3. inbox' \subseteq Tokens /\ unmarked' \subseteq Letters
    BY <1>1, <1>7, <2>2 DEF SendFails, Mailed, LetterShape, LinkShape
  <2>4. CASE Transient(w)
    BY <1>7, <2>1, <2>3, <2>4, TransientEnds DEF Breaks
  <2>5. CASE End(w, "failed", "failed")
    <3>1. Ends(w) /\ postman'[w].verdict = "failed"
      BY <1>2, <2>1, <2>3, <2>5, EndEnds
    <3>. QED
      BY <1>7, <2>5, <3>1 DEF End, Breaks
  <2>6. CASE Escapes(w)
    BY <1>7, <2>1, <2>3, <2>6, EscapesEnds DEF Breaks
  <2>. QED
    BY <1>7, <2>4, <2>5, <2>6 DEF SendFails
<1>8. CASE BodyRaises(w)
  <2>1. Escapes(w) /\ postman[w].at # "idle" /\ UNCHANGED <<linkVars, unmarked>>
    BY <1>8 DEF BodyRaises
  <2>. QED
    BY <1>1, <1>8, <2>1, EscapesEnds DEF LetterShape, LinkShape, Breaks
<1>9. CASE MarkRaises(w)
  <2>1. Escapes(w) /\ postman[w].at # "idle" /\ UNCHANGED linkVars
    BY <1>9 DEF MarkRaises
  <2>2. unmarked' \subseteq Letters
    BY <1>1, <1>9, <2>1, Busy DEF MarkRaises, LetterShape
  <2>. QED
    BY <1>1, <1>9, <2>1, <2>2, EscapesEnds DEF LetterShape, LinkShape, Breaks
<1>. QED
  BY <1>3, <1>4, <1>5, <1>6, <1>7, <1>8, <1>9 DEF Breaks

LEMMA WorkerSteps ==
  ASSUME Shape, NEW w \in Postmen
  PROVE  /\ \A l \in Letters : Start(w, l) =>
              /\ Shape' /\ OthersWork(w) /\ UNCHANGED asking
              /\ \/ task[l] \in {"failed", "done"} /\ UNCHANGED postman
                 \/ /\ task[l] \notin {"failed", "done"} /\ Letter(w)' = l
                    /\ \/ /\ letter[l] \in {"sent", "suppressed"}
                          /\ postman'[w].at = "ended" /\ postman'[w].verdict = "done"
                       \/ letter[l] \notin {"sent", "suppressed"} /\ postman'[w].at = "loaded"
         /\ Mint(w) \/ Send(w) =>
              /\ Shape' /\ OthersWork(w) /\ UNCHANGED asking
              /\ Letter(w) \in Letters /\ Letter(w)' = Letter(w)
              /\ postman'[w].at = IF Mint(w) THEN "minted" ELSE "sent"
              /\ Send(w) => postman'[w].token = postman[w].token
         /\ Finish(w) \/ Crash(w) =>
              /\ Shape' /\ OthersWork(w) /\ UNCHANGED asking
              /\ Letter(w) \in Letters /\ postman'[w] = NoPostman
         /\ Restore(w) => Shape' /\ UNCHANGED <<asking, postman>> /\ Letter(w) \in Letters
<1>. USE NoneAssumption, MailAssumption DEF rowVars, linkVars, userVars, faultVars
<1>1. LetterShape /\ RequestShape /\ LinkShape /\ PostmanShape
  BY DEF Shape
<1>0. 0 \in 0..MaxMints /\ None \in Verdicts /\ "done" \in Verdicts /\ None # "done"
  BY DEF Verdicts, None
<1>2. ASSUME NEW l \in Letters, Start(w, l)
      PROVE  /\ Shape' /\ OthersWork(w) /\ UNCHANGED asking
             /\ \/ task[l] \in {"failed", "done"} /\ UNCHANGED postman
                \/ /\ task[l] \notin {"failed", "done"} /\ Letter(w)' = l
                   /\ \/ /\ letter[l] \in {"sent", "suppressed"}
                         /\ postman'[w].at = "ended" /\ postman'[w].verdict = "done"
                      \/ letter[l] \notin {"sent", "suppressed"} /\ postman'[w].at = "loaded"
  <2>1. /\ UNCHANGED <<asking, letter, recent, task, linkVars, userVars, unmarked>>
        /\ due' = due \ {l}
    BY <1>2 DEF Start
  <2>2. RequestShape' /\ LinkShape'
    BY <1>1, <2>1 DEF RequestShape, LinkShape
  <2>3. LetterShape'
    <3>1. attempts' = attempts \/ attempts' = [attempts EXCEPT ![l] = attempts[l] + 1]
      BY <1>2 DEF Start
    <3>. QED
      BY <1>1, <2>1, <3>1 DEF LetterShape
  <2>4. attempts[l] + 1 \in Nat
    BY <1>1 DEF LetterShape
  <2>5. CASE task[l] \in {"failed", "done"}
    BY <1>1, <1>2, <2>1, <2>2, <2>3, <2>5 DEF Start, Shape, PostmanShape, OthersWork, Letter
  <2>6. CASE task[l] \notin {"failed", "done"} /\ letter[l] \in {"sent", "suppressed"}
    <3>1. Goes(w, l, "ended", attempts[l] + 1, 0, "done")
      BY <1>2, <2>6 DEF Start
    <3>2. /\ PostmanShape' /\ OthersWork(w)
          /\ postman'[w] = [at |-> "ended", about |-> l, try |-> attempts[l] + 1, token |-> 0,
                            verdict |-> "done"]
      BY <1>0, <1>1, <2>4, <3>1, WorkerGoes DEF OthersWork
    <3>. QED
      BY <2>1, <2>2, <2>3, <2>6, <3>2 DEF Shape, Letter
  <2>7. CASE task[l] \notin {"failed", "done"} /\ letter[l] \notin {"sent", "suppressed"}
    <3>1. Goes(w, l, "loaded", attempts[l] + 1, 0, None)
      BY <1>2, <2>7 DEF Start
    <3>2. /\ PostmanShape' /\ OthersWork(w)
          /\ postman'[w] = [at |-> "loaded", about |-> l, try |-> attempts[l] + 1, token |-> 0,
                            verdict |-> None]
      BY <1>0, <1>1, <2>4, <3>1, WorkerGoes DEF OthersWork
    <3>. QED
      BY <2>1, <2>2, <2>3, <2>7, <3>2 DEF Shape, Letter
  <2>. QED
    BY <2>5, <2>6, <2>7
<1>3. /\ postman[w].try \in Nat /\ postman[w].token \in 0..MaxMints
      /\ postman[w].at # "idle" => Letter(w) \in Letters
  BY <1>1, Busy
<1>4. ASSUME Mint(w)
      PROVE  /\ Shape' /\ OthersWork(w) /\ UNCHANGED asking
             /\ Letter(w) \in Letters /\ Letter(w)' = Letter(w) /\ postman'[w].at = "minted"
  <2>1. PICK n \in 1..MaxMints : /\ token' = [token EXCEPT ![<<Letter(w), n>>] = "unused"]
                                 /\ Goes(w, Letter(w), "minted", postman[w].try, n, None)
                                 /\ UNCHANGED <<rowVars, inbox, userVars, faultVars, asking>>
                                 /\ postman[w].at = "loaded"
    BY <1>4 DEF Mint
  <2>2. Letter(w) \in Letters
    BY <1>3, <2>1
  <2>0. n \in 0..MaxMints /\ n # 0
    OBVIOUS
  <2>3. /\ PostmanShape' /\ OthersWork(w)
        /\ postman'[w] = [at |-> "minted", about |-> Letter(w), try |-> postman[w].try,
                          token |-> n, verdict |-> None]
    BY <1>0, <1>1, <1>3, <2>1, <2>2, <2>0, WorkerGoes DEF OthersWork
  <2>4. LetterShape' /\ RequestShape' /\ LinkShape'
    BY <1>1, <2>1 DEF LetterShape, RequestShape, LinkShape
  <2>. QED
    BY <2>1, <2>2, <2>3, <2>4 DEF Shape, Letter
<1>5. ASSUME Send(w)
      PROVE  /\ Shape' /\ OthersWork(w) /\ UNCHANGED asking
             /\ Letter(w) \in Letters /\ Letter(w)' = Letter(w) /\ postman'[w].at = "sent"
             /\ postman'[w].token = postman[w].token
  <2>1. /\ Goes(w, Letter(w), "sent", postman[w].try, postman[w].token, None)
        /\ UNCHANGED <<rowVars, token, userVars, faultVars, asking>>
        /\ postman[w].at = "minted" /\ Mailed(w)
    BY <1>5 DEF Send
  <2>2. Letter(w) \in Letters /\ postman[w].token # 0
    BY <1>1, <1>3, <2>1 DEF PostmanShape
  <2>3. /\ PostmanShape' /\ OthersWork(w)
        /\ postman'[w] = [at |-> "sent", about |-> Letter(w), try |-> postman[w].try,
                          token |-> postman[w].token, verdict |-> None]
    BY <1>0, <1>1, <1>3, <2>1, <2>2, WorkerGoes DEF OthersWork
  <2>4. LetterShape' /\ RequestShape'
    BY <1>1, <2>1 DEF LetterShape, RequestShape
  <2>5. <<Letter(w), postman[w].token>> \in Tokens
    BY <1>3, <2>2 DEF Tokens
  <2>6. LinkShape'
    BY <1>1, <2>1, <2>5 DEF LinkShape, Mailed
  <2>. QED
    BY <2>1, <2>2, <2>3, <2>4, <2>6 DEF Shape, Letter
<1>6. ASSUME Finish(w) \/ Crash(w)
      PROVE  /\ Shape' /\ OthersWork(w) /\ UNCHANGED asking
             /\ Letter(w) \in Letters /\ postman'[w] = NoPostman
  <2>1. /\ postman' = [postman EXCEPT ![w] = NoPostman] /\ UNCHANGED <<linkVars, userVars, asking>>
        /\ postman[w].at # "idle"
    BY <1>6 DEF Finish, Crash
  <2>2. Letter(w) \in Letters
    BY <1>3, <2>1
  <2>3. PostmanShape' /\ OthersWork(w) /\ postman'[w] = NoPostman
    BY <1>1, <2>1, WorkerLeaves DEF OthersWork
  <2>4. RequestShape' /\ LinkShape'
    BY <1>1, <2>1 DEF RequestShape, LinkShape
  <2>5. LetterShape'
    <3>1. CASE Finish(w)
      <4>1. /\ postman[w].verdict \in {"done", "failed", "again"}
            /\ UNCHANGED <<letter, recent, attempts, unmarked>>
        BY <1>1, <3>1, Busy DEF Finish, PostmanShape, Verdicts
      <4>2. CASE postman[w].verdict = "again"
        BY <1>1, <2>2, <3>1, <4>1, <4>2 DEF Finish, LetterShape
      <4>3. CASE postman[w].verdict # "again"
        BY <1>1, <2>2, <3>1, <4>1, <4>3 DEF Finish, LetterShape
      <4>. QED
        BY <4>2, <4>3
    <3>2. CASE Crash(w)
      BY <1>1, <2>2, <3>2 DEF Crash, MayBeUnmarked, LetterShape
    <3>. QED
      BY <1>6, <3>1, <3>2
  <2>. QED
    BY <2>1, <2>2, <2>3, <2>4, <2>5 DEF Shape
<1>7. ASSUME Restore(w)
      PROVE  Shape' /\ UNCHANGED <<asking, postman>> /\ Letter(w) \in Letters
  <2>1. Letter(w) \in Letters /\ UNCHANGED <<asking, postman, linkVars, userVars>>
    BY <1>3, <1>7 DEF Restore
  <2>2. RequestShape' /\ LinkShape' /\ PostmanShape'
    BY <1>1, <2>1 DEF RequestShape, LinkShape, PostmanShape, Letter
  <2>3. LetterShape'
    BY <1>1, <1>7, <2>1 DEF Restore, LetterShape
  <2>. QED
    BY <2>1, <2>2, <2>3 DEF Shape
<1>8. Mint(w) => ~Send(w)
  BY DEF Mint, Send
<1>. QED
  BY <1>2, <1>4, <1>5, <1>6, <1>7, <1>8

(* The other steps                                                         *)
UserStep ==
  \/ \E l \in Letters : Age(l)
  \/ \E t \in Tokens : SignOut(t) \/ Lapse(t) \/ \E b \in Browsers : OpenLink(b, t) \/ Enter(b, t)
  \/ Switch
  \/ UNCHANGED mailVars

LEMMA UserSteps ==
  ASSUME Shape, UserStep
  PROVE  /\ Shape' /\ UNCHANGED <<letter, due, task, asking, postman, inbox, faultVars, raced>>
         /\ recent' \subseteq recent
         /\ \A t \in Tokens : token'[t] = token[t] \/ token'[t] = "spent"
<1>. USE DEF rowVars, linkVars, userVars, faultVars
<1>1. /\ UNCHANGED <<letter, due, task, attempts, asking, postman, inbox, faultVars, raced>>
      /\ recent' \subseteq recent
  BY DEF UserStep, Age, SignOut, Lapse, OpenLink, Enter, Switch, mailVars
<1>2. LetterShape' /\ RequestShape' /\ PostmanShape'
  BY <1>1 DEF Shape, LetterShape, RequestShape, PostmanShape, Letter
<1>3. LinkShape /\ UNCHANGED inbox
  BY <1>1 DEF Shape
<1>4. LinkShape' /\ \A t \in Tokens : token'[t] = token[t] \/ token'[t] = "spent"
  <2>1. CASE (\E l \in Letters : Age(l)) \/ UNCHANGED mailVars
    BY <1>3, <2>1 DEF Age, mailVars, LinkShape
  <2>2. ASSUME NEW t \in Tokens, SignOut(t) \/ Lapse(t)
        PROVE  LinkShape' /\ \A u \in Tokens : token'[u] = token[u] \/ token'[u] = "spent"
    BY <1>3, <2>2 DEF SignOut, Lapse, LinkShape
  <2>3. ASSUME NEW t \in Tokens, NEW b \in Browsers, OpenLink(b, t) \/ Enter(b, t)
        PROVE  LinkShape' /\ \A u \in Tokens : token'[u] = token[u] \/ token'[u] = "spent"
    BY <1>3, <2>3 DEF OpenLink, Enter, LinkShape
  <2>4. CASE Switch
    BY <1>3, <2>4 DEF Switch, LinkShape
  <2>. QED
    BY <2>1, <2>2, <2>3, <2>4 DEF UserStep
<1>. QED
  BY <1>1, <1>2, <1>4 DEF Shape

LEMMA RetryStep ==
  ASSUME Shape, NEW l \in Letters, Retry(l)
  PROVE  Shape' /\ UNCHANGED <<asking, postman>>
<1>. USE DEF rowVars, linkVars, userVars, faultVars
<1>1. UNCHANGED <<asking, postman, linkVars, userVars, letter, recent, unmarked>>
  BY DEF Retry
<1>2. LetterShape'
  BY <1>1 DEF Shape, Retry, LetterShape
<1>3. RequestShape' /\ PostmanShape' /\ LinkShape'
  BY <1>1 DEF Shape, RequestShape, PostmanShape, LinkShape, Letter
<1>. QED
  BY <1>1, <1>2, <1>3 DEF Shape

(* Every step is one of these.                                             *)
RequestActs(r) ==
  \/ AskLink(r) \/ \E l \in Letters : WriteLetter(r, l)
  \/ Enqueue(r) \/ Refuse(r) \/ QueueFailed(r) \/ RequestDies(r)
WorkerActs(w) ==
  \/ \E l \in Letters : Start(w, l)
  \/ Mint(w) \/ NoRecipient(w) \/ Suppress(w) \/ Send(w) \/ MarkSent(w) \/ Breaks(w)
  \/ Finish(w) \/ Crash(w) \/ Restore(w)

LEMMA Steps ==
  ASSUME [MailNext]_mailVars
  PROVE  \/ \E r \in Requests : RequestActs(r)
         \/ \E w \in Postmen : WorkerActs(w)
         \/ \E l \in Letters : Retry(l)
         \/ UserStep
BY DEF MailNext, RequestActs, WorkerActs, UserStep, Breaks

THEOREM ShapeKept == MailSpec => []Shape
<1>1. MailInit => Shape
  <2>. SUFFICES ASSUME MailInit
                PROVE  Shape
    OBVIOUS
  <2>1. NoRequest \in Errands /\ NoPostman \in Duties
    BY MailAssumption, NoneAssumption DEF Errands, Duties, NoRequest, NoPostman, Verdicts
  <2>. QED
    BY <2>1, NoneAssumption DEF MailInit, Shape, LetterShape, RequestShape, PostmanShape,
       LinkShape, NoRequest, NoPostman, Letter
<1>2. Shape /\ [MailNext]_mailVars => Shape'
  <2>. SUFFICES ASSUME Shape, [MailNext]_mailVars
                PROVE  Shape'
    OBVIOUS
  <2>1. ASSUME NEW r \in Requests, RequestActs(r)
        PROVE  Shape'
    BY <2>1, RequestSteps DEF RequestActs
  <2>2. ASSUME NEW w \in Postmen, WorkerActs(w)
        PROVE  Shape'
    BY <2>2, WorkerSteps, WorkerEnds DEF WorkerActs, Ends
  <2>. QED
    BY <2>1, <2>2, Steps, RetryStep, UserSteps
<1>. QED
  BY <1>1, <1>2, PTL DEF MailSpec
-----------------------------------------------------------------------------
(* Links and sessions *)

(* A link somebody holds locked is minted and has opened nothing, no two   *)
(* hold the same, and one that opened a session is spent.                  *)
Links ==
  /\ \A t \in Tokens : opened[t] <= 1 /\ (opened[t] = 1 => token[t] = "spent")
  /\ \A b \in Browsers : \A t \in opening[b] : opened[t] = 0 /\ token[t] # None
  /\ \A b \in Browsers, c \in Browsers : b # c => opening[b] \cap opening[c] = {}
  /\ active \/ overtaken \/ (sessions = {} /\ \A b \in Browsers : opening[b] = {})

LEMMA LinksKept ==
  ASSUME Shape, Links, [MailNext]_mailVars
  PROVE  Links'
<1>. USE DEF linkVars, userVars, mailVars, None
<1>1. LinkShape
  BY DEF Shape
<1>2. ASSUME UNCHANGED <<token, userVars>>
      PROVE  Links'
  BY <1>2 DEF Links
<1>3. ASSUME NEW r \in Requests, RequestActs(r)
      PROVE  UNCHANGED <<token, userVars>>
  BY <1>3 DEF RequestActs, AskLink, WriteLetter, Enqueue, Refuse, QueueFailed, RequestDies
<1>4. ASSUME NEW w \in Postmen, WorkerActs(w), ~Mint(w)
      PROVE  UNCHANGED <<token, userVars>>
  BY <1>4, BreaksFrame DEF WorkerActs, Start, NoRecipient, Suppress, Send, MarkSent, End,
     Finish, Crash, Restore
<1>5. ASSUME NEW w \in Postmen, Mint(w)
      PROVE  Links'
  <2>1. PICK n \in 1..MaxMints : /\ token' = [token EXCEPT ![<<Letter(w), n>>] = "unused"]
                                 /\ token[<<Letter(w), n>>] = None
                                 /\ UNCHANGED userVars /\ postman[w].at = "loaded"
    BY <1>5 DEF Mint
  <2>2. <<Letter(w), n>> \in Tokens
    BY <2>1, Busy DEF Shape, Tokens
  <2>3. \A t \in Tokens : t # <<Letter(w), n>> => token'[t] = token[t]
    BY <1>1, <2>1, <2>2 DEF LinkShape
  <2>4. opened[<<Letter(w), n>>] # 1 /\ \A b \in Browsers : <<Letter(w), n>> \notin opening[b]
    BY <2>1, <2>2 DEF Links
  <2>5. \A b \in Browsers : opening[b] \subseteq Tokens
    BY <1>1 DEF LinkShape
  <2>. QED
    BY <2>1, <2>2, <2>3, <2>4, <2>5 DEF Links
<1>6. ASSUME NEW t \in Tokens, NEW b \in Browsers, OpenLink(b, t)
      PROVE  Links'
  <2>1. opened[t] = 0 /\ token[t] = "unused" /\ active /\ \A c \in Browsers : t \notin opening[c]
    BY <1>1, <1>6 DEF OpenLink, Links, LinkShape
  <2>2. /\ opening'[b] = {t} /\ \A c \in Browsers : c # b => opening'[c] = opening[c]
        /\ UNCHANGED <<token, active, sessions, opened, overtaken>>
    BY <1>1, <1>6 DEF OpenLink, LinkShape
  <2>. QED
    BY <2>1, <2>2 DEF Links
<1>7. ASSUME NEW t \in Tokens, NEW b \in Browsers, Enter(b, t)
      PROVE  Links'
  <2>1. /\ opened[t] = 0 /\ (active \/ overtaken)
        /\ \A c \in Browsers : c # b => t \notin opening[c]
    BY <1>7 DEF Enter, Links
  <2>2. /\ opening'[b] = {} /\ \A c \in Browsers : c # b => opening'[c] = opening[c]
        /\ opened'[t] = 1 /\ token'[t] = "spent"
        /\ \A u \in Tokens : u # t => opened'[u] = opened[u] /\ token'[u] = token[u]
        /\ UNCHANGED <<active, overtaken>>
    BY <1>1, <1>7, <2>1 DEF Enter, LinkShape
  <2>3. \A c \in Browsers : opening[c] \subseteq Tokens
    BY <1>1 DEF LinkShape
  <2>. QED
    BY <2>1, <2>2, <2>3 DEF Links
<1>8. ASSUME NEW t \in Tokens, SignOut(t)
      PROVE  Links'
  BY <1>8 DEF SignOut, Links
<1>9. ASSUME NEW t \in Tokens, Lapse(t)
      PROVE  Links'
  <2>1. /\ token'[t] = "spent" /\ \A u \in Tokens : u # t => token'[u] = token[u]
        /\ UNCHANGED userVars
    BY <1>1, <1>9 DEF Lapse, LinkShape
  <2>2. \A b \in Browsers : opening[b] \subseteq Tokens
    BY <1>1 DEF LinkShape
  <2>. QED
    BY <2>1, <2>2 DEF Links
<1>10. CASE Switch
  BY <1>10 DEF Switch, Links
<1>11. ASSUME (\E l \in Letters : Retry(l) \/ Age(l)) \/ UNCHANGED mailVars
       PROVE  UNCHANGED <<token, userVars>>
  BY <1>11 DEF Retry, Age
<1>. QED
  BY <1>2, <1>3, <1>4, <1>5, <1>6, <1>7, <1>8, <1>9, <1>10, <1>11, Steps DEF UserStep

(* A link opens one session at most, and an account that is switched off   *)
(* has none unless an exchange crossed the switch.                         *)
THEOREM LinksHold == MailSpec => []SignInSafe
<1>1. MailInit => Links
  BY DEF MailInit, Links
<1>2. Shape /\ Links /\ [MailNext]_mailVars => Links'
  BY LinksKept
<1>3. Links => SignInSafe
  BY DEF Links, SignInSafe, LinkOpensOnce, InactiveHasNoSession
<1>. QED
  BY <1>1, <1>2, <1>3, ShapeKept, PTL DEF MailSpec
-----------------------------------------------------------------------------
(* Letters that wait *)

Carried(l) ==
  \/ l \in lost
  \/ l \in due /\ task[l] = "active"
  \/ \E w \in Postmen : Letter(w) = l
  \/ \E r \in Requests : asking[r].about = l
  \/ l \in escaped /\ task[l] = "failed"

(* A letter that is not written has no job and nobody about it; a message  *)
(* or a worker needs a job; a job that is final, or about to be, leaves no *)
(* letter queued unless an error has failed it.                            *)
Relay(l) ==
  /\ letter[l] = "queued" => /\ Carried(l)
                             /\ task[l] \in {None, "active"} \/ (l \in escaped /\ task[l] = "failed")
  /\ letter[l] = None => /\ task[l] = None /\ \A w \in Postmen : Letter(w) # l
                         /\ \A r \in Requests : asking[r].about # l
  /\ l \in due \/ (\E w \in Postmen : Letter(w) = l) => task[l] # None
  /\ \A w \in Postmen : Letter(w) = l /\ postman[w].at = "ended"
                        /\ postman[w].verdict # "again"
       => letter[l] # "queued" \/ (l \in escaped /\ postman[w].verdict = "failed")

LEMMA RelayRequest ==
  ASSUME Shape, \A l \in Letters : Relay(l), NEW r \in Requests, RequestActs(r), NEW k \in Letters
  PROVE  Relay(k)'
<1>. USE DEF rowVars, linkVars, userVars, faultVars
<1>1. /\ LetterShape /\ Relay(k) /\ k # None
      /\ asking[r].at \in {"written", "refused"} <=> asking[r].about \in Letters
  BY NoneAssumption DEF Shape, RequestShape
<1>2. /\ OthersAsk(r) /\ UNCHANGED postman
      /\ \A w \in Postmen : Letter(w)' = Letter(w)
      /\ UNCHANGED escaped
  BY RequestSteps DEF RequestActs, AskLink, WriteLetter, Enqueue, Refuse, QueueFailed, RequestDies, Letter
<1>3. CASE AskLink(r)
  BY <1>1, <1>2, <1>3, RequestSteps DEF AskLink, Relay, Carried, OthersAsk
<1>4. ASSUME NEW l \in Letters, WriteLetter(r, l)
      PROVE  Relay(k)'
  <2>1. /\ letter[l] = None /\ letter' = [letter EXCEPT ![l] = "queued"]
        /\ UNCHANGED <<due, task, lost>> /\ asking'[r].about = l /\ asking[r].about \notin Letters
    BY <1>1, <1>4, RequestSteps DEF WriteLetter, Written
  <2>2. CASE k = l
    BY <1>1, <1>2, <2>1, <2>2 DEF Relay, Carried, LetterShape, None
  <2>3. CASE k # l
    BY <1>1, <1>2, <2>1, <2>3 DEF Relay, Carried, LetterShape, OthersAsk
  <2>. QED
    BY <2>2, <2>3
<1>5. CASE Enqueue(r)
  <2>1. /\ asking[r].about \in Letters /\ UNCHANGED <<letter, lost>>
        /\ task' = [task EXCEPT ![asking[r].about] = "active"] /\ due' = due \cup {asking[r].about}
        /\ asking'[r].about = None
    BY <1>5, RequestSteps DEF Enqueue
  <2>2. CASE k = asking[r].about
    BY <1>1, <1>2, <2>1, <2>2 DEF Relay, Carried, LetterShape, None
  <2>3. CASE k # asking[r].about
    BY <1>1, <1>2, <2>1, <2>3 DEF Relay, Carried, LetterShape, OthersAsk
  <2>. QED
    BY <2>2, <2>3
<1>6. CASE Refuse(r)
  <2>1. /\ asking[r].about \in Letters /\ UNCHANGED <<letter, lost>>
        /\ task' = [task EXCEPT ![asking[r].about] = "active"]
        /\ due' = due \/ due' = due \cup {asking[r].about}
        /\ asking'[r].about = asking[r].about
    BY <1>6, RequestSteps DEF Refuse
  <2>2. CASE k = asking[r].about
    BY <1>1, <1>2, <2>1, <2>2 DEF Relay, Carried, LetterShape, None
  <2>3. CASE k # asking[r].about
    BY <1>1, <1>2, <2>1, <2>3 DEF Relay, Carried, LetterShape, OthersAsk
  <2>. QED
    BY <2>2, <2>3
<1>7. CASE QueueFailed(r)
  <2>1. /\ asking[r].about \in Letters /\ UNCHANGED <<due, lost>>
        /\ task' = [task EXCEPT ![asking[r].about] = "failed"]
        /\ letter' = [letter EXCEPT ![asking[r].about] = "failed"]
        /\ asking'[r].about = None
    BY <1>7, RequestSteps DEF QueueFailed
  <2>2. CASE k = asking[r].about
    BY <1>1, <1>2, <2>1, <2>2 DEF Relay, Carried, LetterShape, None
  <2>3. CASE k # asking[r].about
    BY <1>1, <1>2, <2>1, <2>3 DEF Relay, Carried, LetterShape, OthersAsk
  <2>. QED
    BY <2>2, <2>3
<1>8. CASE RequestDies(r)
  <2>1. /\ UNCHANGED <<letter, due, task>> /\ lost' = lost \cup ({asking[r].about} \cap Letters)
        /\ asking'[r].about = None
    BY <1>8, RequestSteps DEF RequestDies
  <2>. QED
    BY <1>1, <1>2, <2>1 DEF Relay, Carried, OthersAsk
<1>. QED
  BY <1>3, <1>4, <1>5, <1>6, <1>7, <1>8 DEF RequestActs

LEMMA RelayWorker ==
  ASSUME Shape, \A l \in Letters : Relay(l), NEW w \in Postmen, WorkerActs(w), NEW k \in Letters
  PROVE  Relay(k)'
<1>. USE DEF rowVars, linkVars, userVars, faultVars
<1>1. /\ LetterShape /\ Relay(k) /\ k # None
      /\ postman[w].at # "idle" <=> Letter(w) \in Letters
      /\ postman[w].verdict \in Verdicts
  BY Busy, NoneAssumption DEF Shape
<1>2. ASSUME OthersWork(w)
      PROVE  \A v \in Postmen \ {w} : Letter(v)' = Letter(v) /\ postman'[v] = postman[v]
  BY <1>2 DEF OthersWork, Letter
<1>3. ASSUME NEW l \in Letters, Start(w, l)
      PROVE  Relay(k)'
  <2>1. /\ OthersWork(w) /\ UNCHANGED <<asking, letter, task, lost, escaped>> /\ due' = due \ {l}
        /\ postman[w].at = "idle" /\ l \in due /\ Relay(l)
    BY <1>3, WorkerSteps DEF Start
  <2>2. CASE task[l] \in {"failed", "done"} /\ UNCHANGED postman
    <3>1. letter[l] = "queued" => l \in escaped /\ task[l] = "failed"
      BY <2>1, <2>2 DEF Relay, None
    <3>2. CASE k = l
      <4>1. /\ letter[k] = "queued" => k \in escaped' /\ task'[k] = "failed"
            /\ task'[k] # None /\ \A v \in Postmen : Letter(v)' = Letter(v) /\ postman'[v] = postman[v]
        BY <2>1, <2>2, <3>1, <3>2 DEF Letter, None
      <4>. QED
        BY <1>1, <2>1, <3>2, <4>1 DEF Relay, Carried
    <3>3. CASE k # l
      BY <1>1, <2>1, <2>2, <3>1, <3>3 DEF Relay, Carried, Letter
    <3>. QED
      BY <3>2, <3>3
  <2>3. CASE /\ task[l] \notin {"failed", "done"} /\ Letter(w)' = l
             /\ \/ /\ letter[l] \in {"sent", "suppressed"}
                   /\ postman'[w].at = "ended" /\ postman'[w].verdict = "done"
                \/ letter[l] \notin {"sent", "suppressed"} /\ postman'[w].at = "loaded"
    <3>1. task[l] # None /\ letter[l] # None
      BY <2>1 DEF Relay
    <3>2. CASE k = l
      BY <1>1, <1>2, <2>1, <2>3, <3>1, <3>2 DEF Relay, Carried
    <3>3. CASE k # l
      <4>1. Letter(w) # k /\ Letter(w)' # k
        BY <1>1, <2>1, <2>3, <3>3 DEF Letter
      <4>. QED
        BY <1>1, <1>2, <2>1, <3>3, <4>1 DEF Relay, Carried
    <3>. QED
      BY <3>2, <3>3
  <2>. QED
    BY <1>3, <2>2, <2>3, WorkerSteps
<1>4. CASE Mint(w) \/ Send(w)
  <2>1. /\ OthersWork(w) /\ UNCHANGED <<asking, letter, task, lost, escaped, due>>
        /\ Letter(w)' = Letter(w) /\ postman'[w].at \in {"minted", "sent"}
        /\ postman[w].at \in {"loaded", "minted"}
    BY <1>4, WorkerSteps DEF Mint, Send
  <2>. QED
    BY <1>1, <1>2, <2>1 DEF Relay, Carried
<1>5. CASE NoRecipient(w) \/ Suppress(w) \/ MarkSent(w) \/ Breaks(w)
  <2>1. /\ OthersWork(w) /\ Letter(w) \in Letters /\ Letter(w)' = Letter(w)
        /\ postman'[w].at = "ended" /\ UNCHANGED asking
        /\ \/ letter' = letter /\ postman'[w].verdict = "again"
           \/ letter' = letter /\ postman'[w].verdict = "failed" /\ Letter(w) \in escaped'
           \/ /\ \/ letter' = [letter EXCEPT ![Letter(w)] = "failed"]
                 \/ letter' = [letter EXCEPT ![Letter(w)] = "suppressed"]
                 \/ letter' = [letter EXCEPT ![Letter(w)] = "sent"]
              /\ postman'[w].verdict # "again"
    BY <1>5, WorkerEnds DEF Ends
  <2>2. /\ UNCHANGED <<due, task, lost>> /\ postman[w].at # "idle" /\ postman[w].at # "ended"
        /\ escaped \subseteq escaped'
    BY <1>5, BreaksFrame DEF NoRecipient, Suppress, MarkSent, End
  <2>3. CASE Letter(w) # k
    <3>1. letter'[k] = letter[k]
      BY <1>1, <2>1, <2>3 DEF LetterShape, Letter
    <3>. QED
      BY <1>1, <1>2, <2>1, <2>2, <2>3, <3>1 DEF Relay, Carried
  <2>4. CASE Letter(w) = k
    <3>1. letter[k] # None /\ task[k] # None
      BY <1>1, <2>4 DEF Relay
    <3>2. CASE letter' = letter
      <4>1. \/ postman'[w].verdict = "again"
            \/ postman'[w].verdict = "failed" /\ k \in escaped'
            \/ letter[k] # "queued"
        BY <1>1, <2>1, <2>4, <3>2 DEF LetterShape
      <4>2. Carried(k)' /\ (k \in escaped => k \in escaped')
        BY <2>1, <2>2, <2>4 DEF Carried
      <4>. QED
        BY <1>1, <1>2, <2>1, <2>2, <2>4, <3>1, <3>2, <4>1, <4>2 DEF Relay
    <3>3. CASE letter'[k] \in {"failed", "suppressed", "sent"}
      BY <1>1, <1>2, <2>1, <2>2, <2>4, <3>1, <3>3 DEF Relay, None
    <3>. QED
      BY <1>1, <2>1, <2>4, <3>2, <3>3 DEF LetterShape
  <2>. QED
    BY <2>3, <2>4
<1>6. CASE Finish(w)
  <2>1. /\ OthersWork(w) /\ UNCHANGED <<asking, letter, lost, escaped>> /\ Letter(w) \in Letters
        /\ Letter(w)' = None /\ postman'[w].at = "idle" /\ postman[w].at = "ended"
        /\ \/ /\ postman[w].verdict = "again" /\ due' = due \cup {Letter(w)} /\ task' = task
           \/ /\ postman[w].verdict \in {"done", "failed"} /\ due' = due
              /\ task' = [task EXCEPT ![Letter(w)] = postman[w].verdict]
    <3>1. postman[w].verdict # None
      BY <1>6 DEF Finish, Shape, PostmanShape
    <3>2. Shape' /\ OthersWork(w) /\ Letter(w) \in Letters /\ postman'[w] = NoPostman
      BY <1>6, WorkerSteps
    <3>3. Letter(w)' = None /\ postman'[w].at = "idle"
      BY <3>2 DEF Letter, NoPostman
    <3>. QED
      BY <1>1, <1>6, <3>1, <3>2, <3>3 DEF Finish, Verdicts
  <2>2. CASE Letter(w) # k
    <3>1. task'[k] = task[k] /\ (k \in due' <=> k \in due)
      BY <1>1, <2>1, <2>2 DEF LetterShape, Letter
    <3>. QED
      BY <1>1, <1>2, <2>1, <2>2, <3>1 DEF Relay, Carried
  <2>3. CASE Letter(w) = k
    <3>1. letter[k] # None /\ task[k] # None
      BY <1>1, <2>1, <2>3 DEF Relay, Letter
    <3>2. CASE postman[w].verdict = "again"
      BY <1>1, <1>2, <2>1, <2>3, <3>1, <3>2 DEF Relay, Carried
    <3>3. CASE postman[w].verdict # "again"
      <4>1. task'[k] = postman[w].verdict /\ task'[k] \in {"done", "failed"}
        BY <1>1, <2>1, <2>3, <3>3 DEF LetterShape
      <4>2. letter[k] = "queued" => k \in escaped /\ task'[k] = "failed"
        BY <2>1, <2>3, <3>3, <4>1 DEF Relay
      <4>. QED
        BY <1>1, <1>2, <2>1, <2>3, <3>1, <4>1, <4>2 DEF Relay, Carried, None
    <3>. QED
      BY <3>2, <3>3
  <2>. QED
    BY <2>2, <2>3
<1>7. CASE Crash(w)
  <2>1. /\ OthersWork(w) /\ UNCHANGED <<asking, letter, task, escaped>> /\ Letter(w) \in Letters
        /\ Letter(w)' = None /\ postman'[w].at = "idle"
        /\ \/ due' = due \cup {Letter(w)} /\ lost' = lost
           \/ due' = due /\ lost' = lost \cup {Letter(w)}
    <3>1. OthersWork(w) /\ Letter(w) \in Letters /\ postman'[w] = NoPostman
      BY <1>7, WorkerSteps
    <3>2. Letter(w)' = None /\ postman'[w].at = "idle"
      BY <3>1 DEF Letter, NoPostman
    <3>. QED
      BY <1>7, <3>1, <3>2 DEF Crash
  <2>2. Letter(w)' # k
    BY <1>1, <2>1
  <2>3. CASE Letter(w) # k
    BY <1>1, <1>2, <2>1, <2>2, <2>3 DEF Relay, Carried
  <2>4. CASE Letter(w) = k
    <3>1. letter[k] # None /\ task[k] # None
      BY <1>1, <2>4 DEF Relay
    <3>. QED
      BY <1>1, <1>2, <2>1, <2>2, <2>4, <3>1 DEF Relay, Carried
  <2>. QED
    BY <2>3, <2>4
<1>8. CASE Restore(w)
  <2>1. /\ UNCHANGED <<asking, postman, letter, task, lost, escaped>> /\ Letter(w) \in Letters
        /\ due' = due \cup {Letter(w)}
        /\ \A v \in Postmen : Letter(v)' = Letter(v)
    BY <1>8, WorkerSteps DEF Restore, Letter
  <2>2. k \in due' => k \in due \/ Letter(w) = k
    BY <2>1
  <2>. QED
    BY <1>1, <2>1, <2>2 DEF Relay, Carried
<1>. QED
  BY <1>3, <1>4, <1>5, <1>6, <1>7, <1>8 DEF WorkerActs

LEMMA RelayOther ==
  ASSUME Shape, \A l \in Letters : Relay(l), NEW k \in Letters,
         UserStep \/ \E l \in Letters : Retry(l)
  PROVE  Relay(k)'
<1>1. Relay(k) /\ LetterShape
  BY DEF Shape
<1>2. /\ UNCHANGED <<asking, postman, letter, lost, escaped>>
      /\ \A v \in Postmen : Letter(v)' = Letter(v)
  BY UserSteps, RetryStep DEF Retry, faultVars, Letter
<1>3. CASE UserStep
  BY <1>1, <1>2, <1>3, UserSteps DEF Relay, Carried
<1>4. ASSUME NEW l \in Letters, Retry(l)
      PROVE  Relay(k)'
  <2>1. /\ task[l] = "failed" /\ task' = [task EXCEPT ![l] = "active"] /\ due' = due \cup {l}
    BY <1>4 DEF Retry
  <2>2. CASE k = l
    BY <1>1, <1>2, <2>1, <2>2 DEF Relay, Carried, LetterShape, None
  <2>3. CASE k # l
    BY <1>1, <1>2, <2>1, <2>3 DEF Relay, Carried, LetterShape
  <2>. QED
    BY <2>2, <2>3
<1>. QED
  BY <1>3, <1>4

LEMMA RelayHolds == MailSpec => [](\A l \in Letters : Relay(l))
<1>1. MailInit => \A l \in Letters : Relay(l)
  BY NoneAssumption DEF MailInit, Relay, NoPostman, NoRequest, Letter, None
<1>2. Shape /\ (\A l \in Letters : Relay(l)) /\ [MailNext]_mailVars => (\A l \in Letters : Relay(l))'
  BY Steps, RelayRequest, RelayWorker, RelayOther
<1>. QED
  BY <1>1, <1>2, ShapeKept, PTL DEF MailSpec

(* A letter does not stay queued on the log once nobody will send it,      *)
(* unless a fault took its last carrier or an error that no code marks the *)
(* letter for has failed its job, which is then there to be retried.       *)
THEOREM Not_Forgotten == MailSpec => []NotForgotten
<1>1. Shape /\ (\A l \in Letters : Relay(l)) => NotForgotten
  <2>. SUFFICES ASSUME Shape, NEW l \in Letters, Relay(l), letter[l] = "queued",
                       NEW w \in Postmen, Letter(w) = l
                PROVE  \/ postman[w].at # "idle" /\ (postman[w].at = "ended" => postman[w].verdict = "again")
                       \/ FailedUnmarked(l)
    BY DEF Relay, Carried, FailedUnmarked, NotForgotten
  <2>1. postman[w].at # "idle"
    BY Busy DEF Shape
  <2>. QED
    BY <2>1 DEF Relay, FailedUnmarked
<1>. QED
  BY <1>1, ShapeKept, RelayHolds, PTL
-----------------------------------------------------------------------------
(* Rows and links are known: what a request, a worker or the history is    *)
(* about has been written, what a worker sends or a browser opens minted.  *)
Minted == {t \in Tokens : token[t] # None}
Known ==
  /\ sends \in BOOLEAN /\ active \in BOOLEAN
  /\ recent \cup lost \cup escaped \cup unmarked \subseteq Written
  /\ inbox \cup sessions \subseteq Minted
  /\ \A w \in Postmen : postman[w].at \in {"minted", "sent"} => <<Letter(w), postman[w].token>> \in Minted
  /\ \A b \in Browsers : opening[b] \subseteq Minted

(* Who is about a letter is about a written one.                           *)
LEMMA AboutWritten ==
  ASSUME \A l \in Letters : Relay(l)
  PROVE  /\ \A w \in Postmen : Letter(w) \in Letters => Letter(w) \in Written
         /\ \A r \in Requests : asking[r].about \in Letters => asking[r].about \in Written
         /\ due \cap Letters \subseteq Written
BY DEF Relay, Written

LEMMA KnownRequest ==
  ASSUME Shape, Known, \A l \in Letters : Relay(l), NEW r \in Requests, RequestActs(r)
  PROVE  Known'
<1>. USE NoneAssumption DEF rowVars, linkVars, userVars, faultVars
<1>1. LetterShape /\ UNCHANGED <<sends, active, linkVars, sessions, opening, postman>>
  BY RequestSteps DEF Shape, RequestActs, AskLink, WriteLetter, Enqueue, Refuse, QueueFailed, RequestDies
<1>2. /\ asking[r].about \in Letters => asking[r].about \in Written
      /\ Refuse(r) \/ QueueFailed(r) => asking[r].about \in Letters
  BY AboutWritten, RequestSteps
<1>3. recent' \cup lost' \cup escaped' \cup unmarked' \subseteq Written'
  <2>1. ASSUME NEW l \in Letters, WriteLetter(r, l)
        PROVE  recent' \cup lost' \cup escaped' \cup unmarked' \subseteq Written'
    BY <1>1, <2>1 DEF WriteLetter, Known, Written, LetterShape, None
  <2>2. CASE AskLink(r) \/ Enqueue(r)
    BY <2>2 DEF AskLink, Enqueue, Known, Written
  <2>3. CASE Refuse(r) \/ RequestDies(r)
    BY <1>2, <2>3 DEF Refuse, RequestDies, Known, Written
  <2>4. CASE QueueFailed(r)
    BY <1>1, <1>2, <2>4 DEF QueueFailed, Known, Written, LetterShape, None
  <2>. QED
    BY <2>1, <2>2, <2>3, <2>4 DEF RequestActs
<1>. QED
  BY <1>1, <1>3 DEF Known, Minted, Letter

LEMMA KnownWorker ==
  ASSUME Shape, Known, \A l \in Letters : Relay(l), NEW w \in Postmen, WorkerActs(w)
  PROVE  Known'
<1>. USE NoneAssumption DEF rowVars, linkVars, userVars, faultVars
<1>1. /\ LetterShape /\ LinkShape
      /\ Letter(w) \in Letters => Letter(w) \in Written
      /\ postman[w].at # "idle" => Letter(w) \in Letters
  BY AboutWritten, Busy DEF Shape
<1>2. OthersWork(w)
  BY WorkerSteps, WorkerEnds DEF WorkerActs, Ends, OthersWork
<1>3. UNCHANGED <<sends, active, sessions, opening, recent>>
  BY BreaksFrame DEF WorkerActs, Start, Mint, NoRecipient, Suppress, Send, MarkSent, Finish,
     Crash, Restore, End
<1>4. Written \subseteq Written' /\ lost' \cup escaped' \cup unmarked' \subseteq Written'
  <2>1. ASSUME NEW l \in Letters, Start(w, l)
        PROVE  Written \subseteq Written' /\ lost' \cup escaped' \cup unmarked' \subseteq Written'
    BY <2>1 DEF Start, Known, Written
  <2>2. CASE Mint(w) \/ Send(w) \/ Finish(w)
    BY <2>2 DEF Mint, Send, Finish, Known, Written
  <2>3. CASE Crash(w) \/ Restore(w)
    BY <1>1, <2>3 DEF Crash, Restore, MayBeUnmarked, Known, Written
  <2>4. CASE NoRecipient(w) \/ Suppress(w) \/ MarkSent(w) \/ Breaks(w)
    <3>1. Letter(w) \in Letters /\ (letter' = letter \/ \E status \in {"sent", "failed", "suppressed"} :
                                        letter' = [letter EXCEPT ![Letter(w)] = status])
      BY <2>4, WorkerEnds DEF Ends
    <3>2. /\ lost' = lost /\ escaped' \subseteq escaped \cup {Letter(w)}
          /\ unmarked' \subseteq unmarked \cup {Letter(w)}
      BY <2>4, BreaksFrame DEF NoRecipient, Suppress, MarkSent
    <3>3. Written \subseteq Written'
      BY <1>1, <3>1 DEF Written, LetterShape, None
    <3>. QED
      BY <1>1, <3>1, <3>2, <3>3 DEF Known
  <2>. QED
    BY <2>1, <2>2, <2>3, <2>4 DEF WorkerActs
<1>5. Minted \subseteq Minted' /\ inbox' \subseteq Minted'
  <2>1. CASE Mint(w)
    BY <1>1, <2>1 DEF Mint, Known, Minted, LinkShape, None
  <2>2. CASE Send(w) \/ Breaks(w)
    BY <2>2, BreaksFrame DEF Send, Mailed, Known, Minted
  <2>3. CASE ~(Mint(w) \/ Send(w) \/ Breaks(w))
    BY <2>3 DEF WorkerActs, Start, NoRecipient, Suppress, MarkSent, Finish,
       Crash, Restore, Known, Minted
  <2>. QED
    BY <2>1, <2>2, <2>3
<1>6. postman'[w].at \in {"minted", "sent"} => <<Letter(w)', postman'[w].token>> \in Minted'
  <2>1. CASE Mint(w)
    <3>1. PICK n \in 1..MaxMints :
            /\ token' = [token EXCEPT ![<<Letter(w), n>>] = "unused"]
            /\ Goes(w, Letter(w), "minted", postman[w].try, n, None) /\ postman[w].at = "loaded"
      BY <2>1 DEF Mint
    <3>2. <<Letter(w), n>> \in Tokens /\ postman[w].try \in Nat /\ n \in 0..MaxMints /\ None \in Verdicts
      BY <1>1, <3>1, Busy, MailAssumption DEF Tokens, Verdicts, Shape
    <3>3. postman'[w] = [at |-> "minted", about |-> Letter(w), try |-> postman[w].try, token |-> n,
                         verdict |-> None]
      BY <1>1, <3>1 DEF Goes, Shape, PostmanShape
    <3>. QED
      BY <1>1, <3>1, <3>2, <3>3 DEF Minted, LinkShape, Letter, None
  <2>2. CASE Send(w)
    BY <1>1, <1>5, <2>2, WorkerSteps DEF Send, Known, Mailed, Letter
  <2>3. ASSUME NEW l \in Letters, Start(w, l)
        PROVE  postman'[w].at \in {"minted", "sent"} => <<Letter(w)', postman'[w].token>> \in Minted'
    <3>1. postman'[w].at \in {"ended", "loaded"} \/ UNCHANGED postman
      BY <2>3, WorkerSteps
    <3>. QED
      BY <1>5, <3>1 DEF Known, Letter
  <2>4. CASE Finish(w) \/ Crash(w)
    BY <2>4, WorkerSteps DEF NoPostman
  <2>5. CASE Restore(w)
    BY <1>5, <2>5, WorkerSteps DEF Known, Letter
  <2>6. CASE NoRecipient(w) \/ Suppress(w) \/ MarkSent(w) \/ Breaks(w)
    BY <2>6, WorkerEnds DEF Ends
  <2>. QED
    BY <2>1, <2>2, <2>3, <2>4, <2>5, <2>6 DEF WorkerActs
<1>7. \A v \in Postmen : postman'[v].at \in {"minted", "sent"} => <<Letter(v)', postman'[v].token>> \in Minted'
  BY <1>2, <1>5, <1>6 DEF Known, OthersWork, Letter
<1>. QED
  BY <1>3, <1>4, <1>5, <1>7 DEF Known

LEMMA KnownOther ==
  ASSUME Shape, Known, UserStep \/ \E l \in Letters : Retry(l)
  PROVE  Known'
<1>. USE NoneAssumption DEF rowVars, linkVars, userVars, faultVars
<1>1. LinkShape /\ UNCHANGED <<sends, letter, postman, inbox, lost, escaped, unmarked>> /\ recent' \subseteq recent
  BY UserSteps DEF Shape, Retry, UserStep, Age, SignOut, Lapse, OpenLink, Enter, Switch, mailVars
<1>2. active' \in BOOLEAN /\ Minted \subseteq Minted'
  BY <1>1, UserSteps DEF Retry, UserStep, Age, SignOut, Lapse, OpenLink, Enter, Switch, mailVars, Known,
     Minted, None
<1>3. sessions' \subseteq Minted' /\ \A b \in Browsers : opening'[b] \subseteq Minted'
  <2>1. CASE UNCHANGED <<sessions, opening>>
    BY <1>2, <2>1 DEF Known
  <2>2. ASSUME NEW t \in Tokens, SignOut(t)
        PROVE  sessions' \subseteq Minted' /\ \A b \in Browsers : opening'[b] \subseteq Minted'
    BY <1>2, <2>2 DEF SignOut, Known
  <2>3. ASSUME NEW t \in Tokens, NEW b \in Browsers, OpenLink(b, t) \/ Enter(b, t)
        PROVE  sessions' \subseteq Minted' /\ \A c \in Browsers : opening'[c] \subseteq Minted'
    BY <1>1, <1>2, <2>3 DEF OpenLink, Enter, Known, LinkShape
  <2>4. CASE Switch
    BY <1>2, <2>4 DEF Switch, Known
  <2>. QED
    BY <2>1, <2>2, <2>3, <2>4 DEF Retry, UserStep, Age, Lapse, mailVars
<1>. QED
  BY <1>1, <1>2, <1>3 DEF Known, Written, Letter

(* Rows, links and processes keep their shape, and nothing that is under   *)
(* way is about a letter or a link that is not there.                      *)
THEOREM MailTypes == MailSpec => []MailTypeOK
<1>1. MailInit => Known
  BY NoneAssumption DEF MailInit, Known, NoPostman, Minted, Written, Letter
<1>2. Shape /\ Known /\ (\A l \in Letters : Relay(l)) /\ [MailNext]_mailVars => Known'
  BY Steps, KnownRequest, KnownWorker, KnownOther
<1>3. Shape /\ Known /\ (\A l \in Letters : Relay(l)) => MailTypeOK
  <2>. SUFFICES ASSUME Shape, Known, \A l \in Letters : Relay(l)
                PROVE  MailTypeOK
    OBVIOUS
  <2>1. due \subseteq Written
    BY AboutWritten DEF Shape, LetterShape
  <2>. QED
    BY <2>1 DEF Known, Minted, Shape, LetterShape, LinkShape, PostmanShape, MailTypeOK
<1>. QED
  BY <1>1, <1>2, <1>3, ShapeKept, RelayHolds, PTL DEF MailSpec
-----------------------------------------------------------------------------
(* What went out and what the log says *)

WentOut(l) == \E t \in inbox : t[1] = l
SendingNow(l) == \E w \in Postmen : Letter(w) = l /\ postman[w].at = "sent"

Honest(l) ==
  /\ letter[l] = "sent" => WentOut(l)
  /\ \A w \in Postmen : Letter(w) = l /\ postman[w].at = "sent" =>
                          <<l, postman[w].token>> \in inbox

(* One carrier at a time: the request, then a message, a worker, a message *)
(* again; a worker that has not sent yet found the letter not sent.        *)
OneCarrier(l) ==
  /\ \A v \in Postmen, w \in Postmen : Letter(v) = l /\ Letter(w) = l => v = w
  /\ \A q \in Requests, r \in Requests : asking[q].about = l /\ asking[r].about = l => q = r
  /\ l \in due => task[l] = "active"
  /\ \A w \in Postmen : Letter(w) = l =>
       /\ l \notin due /\ task[l] = "active"
       /\ postman[w].at \in {"loaded", "minted"} => letter[l] \notin {"sent", "suppressed"}
  /\ \A r \in Requests : asking[r].about = l =>
       /\ l \notin due /\ letter[l] = "queued" /\ \A w \in Postmen : Letter(w) # l
       /\ task[l] = IF asking[r].at = "written" THEN None ELSE "active"

Told(l) ==
  /\ WentOut(l) => letter[l] = "sent" \/ SendingNow(l)
  /\ \A t \in inbox, u \in inbox : t[1] = l /\ u[1] = l => t = u

Trail(l) == Honest(l) /\ (l \notin unmarked => OneCarrier(l) /\ Told(l))

(* A step that is not about a letter changes nothing of what it rests on.  *)
RowsKept(k) ==
  /\ letter'[k] = letter[k] /\ task'[k] = task[k]
  /\ k \in due' <=> k \in due
  /\ k \in unmarked' <=> k \in unmarked
Untouched(k) ==
  /\ RowsKept(k)
  /\ \A t : t[1] = k => (t \in inbox' <=> t \in inbox)
  /\ \A w \in Postmen : /\ Letter(w)' = k <=> Letter(w) = k
                        /\ Letter(w) = k => postman'[w] = postman[w]
  /\ \A r \in Requests : /\ asking'[r].about = k <=> asking[r].about = k
                         /\ asking[r].about = k => asking'[r] = asking[r]

LEMMA Frame ==
  ASSUME NEW k \in Letters, Untouched(k), Trail(k)
  PROVE  Trail(k)'
<1>1. /\ WentOut(k)' <=> WentOut(k)
      /\ SendingNow(k)' <=> SendingNow(k)
  BY DEF WentOut, SendingNow, Untouched, RowsKept
<1>2. Honest(k)'
  <2>1. <<k, 1>>[1] = k /\ \A n : <<k, n>>[1] = k
    OBVIOUS
  <2>. QED
    BY <1>1, <2>1 DEF Trail, Honest, Untouched, RowsKept
<1>3. ASSUME k \notin unmarked'
      PROVE  OneCarrier(k)'
  <2>1. OneCarrier(k)
    BY <1>3 DEF Trail, Untouched, RowsKept
  <2>. QED
    BY <2>1 DEF OneCarrier, Untouched, RowsKept
<1>4. ASSUME k \notin unmarked'
      PROVE  Told(k)'
  <2>1. Told(k)
    BY <1>4 DEF Trail, Untouched, RowsKept
  <2>. QED
    BY <1>1, <2>1 DEF Told, Untouched, RowsKept
<1>. QED
  BY <1>2, <1>3, <1>4 DEF Trail

LEMMA RequestFrame ==
  ASSUME Shape, NEW r \in Requests, RequestActs(r), NEW k \in Letters, asking[r].about # k,
         ~WriteLetter(r, k)
  PROVE  Untouched(k)
<1>. USE DEF rowVars, linkVars, userVars, faultVars, RowsKept
<1>1. /\ LetterShape /\ OthersAsk(r) /\ UNCHANGED postman /\ k # None
      /\ asking[r].at \in {"written", "refused"} <=> asking[r].about \in Letters
  BY RequestSteps, NoneAssumption DEF RequestActs, Shape, RequestShape
<1>2. asking'[r].about # k
  <2>1. ASSUME NEW l \in Letters, WriteLetter(r, l)
        PROVE  asking'[r].about # k
    <3>1. l # k
      BY <2>1
    <3>. QED
      BY <2>1, <3>1, RequestSteps
  <2>2. CASE AskLink(r) \/ Refuse(r) \/ Enqueue(r) \/ QueueFailed(r) \/ RequestDies(r)
    BY <1>1, <2>2, RequestSteps
  <2>. QED
    BY <2>1, <2>2 DEF RequestActs
<1>3. UNCHANGED inbox
  BY DEF RequestActs, AskLink, WriteLetter, Enqueue, Refuse, QueueFailed, RequestDies
<1>4. RowsKept(k)
  <2>1. CASE AskLink(r) \/ RequestDies(r)
    BY <2>1 DEF AskLink, RequestDies
  <2>2. ASSUME NEW l \in Letters, WriteLetter(r, l)
        PROVE  RowsKept(k)
    <3>1. l # k
      BY <2>2
    <3>. QED
      BY <1>1, <2>2, <3>1 DEF WriteLetter, LetterShape
  <2>3. CASE Enqueue(r) \/ QueueFailed(r) \/ Refuse(r)
    <3>1. asking[r].about \in Letters
      BY <2>3, RequestSteps
    <3>. QED
      BY <1>1, <2>3, <3>1 DEF Enqueue, QueueFailed, Refuse, LetterShape
  <2>. QED
    BY <2>1, <2>2, <2>3 DEF RequestActs
<1>5. \A q \in Requests : /\ asking'[q].about = k <=> asking[q].about = k
                          /\ asking[q].about = k => asking'[q] = asking[q]
  BY <1>1, <1>2 DEF OthersAsk
<1>6. \A w \in Postmen : /\ Letter(w)' = k <=> Letter(w) = k
                         /\ Letter(w) = k => postman'[w] = postman[w]
  BY <1>1 DEF Letter
<1>. QED
  BY <1>3, <1>4, <1>5, <1>6 DEF Untouched

LEMMA WorkerFrame ==
  ASSUME Shape, NEW w \in Postmen, WorkerActs(w), NEW k \in Letters, Letter(w) # k,
         ~Start(w, k)
  PROVE  Untouched(k)
<1>. USE DEF rowVars, linkVars, userVars, faultVars, RowsKept
<1>1. /\ LetterShape /\ k # None
      /\ postman[w].at # "idle" <=> Letter(w) \in Letters
  BY Busy, NoneAssumption DEF Shape
<1>2. /\ UNCHANGED asking /\ Letter(w)' # k
      /\ \A v \in Postmen : v # w => postman'[v] = postman[v]
  <2>1. ASSUME NEW l \in Letters, Start(w, l)
        PROVE  UNCHANGED asking /\ Letter(w)' # k /\ \A v \in Postmen : v # w => postman'[v] = postman[v]
    <3>1. l # k
      BY <2>1
    <3>. QED
      BY <2>1, <3>1, WorkerSteps DEF OthersWork, Letter
  <2>2. CASE Mint(w) \/ Send(w)
    BY <2>2, WorkerSteps DEF OthersWork
  <2>3. CASE Finish(w) \/ Crash(w)
    <3>1. UNCHANGED asking /\ OthersWork(w) /\ postman'[w] = NoPostman
      BY <2>3, WorkerSteps
    <3>. QED
      BY <1>1, <3>1 DEF OthersWork, NoPostman, Letter
  <2>4. CASE Restore(w)
    BY <2>4, WorkerSteps DEF Letter
  <2>5. CASE NoRecipient(w) \/ Suppress(w) \/ MarkSent(w) \/ Breaks(w)
    BY <2>5, WorkerEnds DEF Ends, OthersWork
  <2>. QED
    BY <2>1, <2>2, <2>3, <2>4, <2>5 DEF WorkerActs
<1>3. \A t : t[1] = k => (t \in inbox' <=> t \in inbox)
  <2>1. inbox' = inbox \/ inbox' = inbox \cup {<<Letter(w), postman[w].token>>}
    BY BreaksFrame DEF WorkerActs, Start, Mint, NoRecipient, Suppress, Send, MarkSent, Mailed,
       Finish, Crash, Restore
  <2>2. <<Letter(w), postman[w].token>>[1] = Letter(w)
    OBVIOUS
  <2>. QED
    BY <2>1, <2>2
<1>4. RowsKept(k)
  <2>1. ASSUME NEW l \in Letters, Start(w, l)
        PROVE  RowsKept(k)
    <3>1. l # k
      BY <2>1
    <3>. QED
      BY <2>1, <3>1 DEF Start
  <2>2. CASE Mint(w) \/ Send(w)
    BY <2>2 DEF Mint, Send
  <2>3. CASE Finish(w) \/ Crash(w) \/ Restore(w)
    BY <1>1, <2>3 DEF Finish, Crash, Restore, MayBeUnmarked, LetterShape
  <2>4. CASE NoRecipient(w) \/ Suppress(w) \/ MarkSent(w) \/ Breaks(w)
    <3>1. letter'[k] = letter[k]
      BY <1>1, <2>4, WorkerEnds DEF LetterShape, Ends
    <3>2. UNCHANGED <<task, due>> /\ (unmarked' = unmarked \/ unmarked' = unmarked \cup {Letter(w)})
      BY <2>4, BreaksFrame DEF NoRecipient, Suppress, MarkSent, End
    <3>. QED
      BY <3>1, <3>2
  <2>. QED
    BY <2>1, <2>2, <2>3, <2>4 DEF WorkerActs
<1>. QED
  BY <1>1, <1>2, <1>3, <1>4 DEF Untouched, Letter
(* The steps that are about the letter.                                    *)
LEMMA TrailRequest ==
  ASSUME Shape, NEW r \in Requests, RequestActs(r), NEW k \in Letters, Relay(k), Trail(k),
         asking[r].about = k \/ WriteLetter(r, k)
  PROVE  Trail(k)'
<1>. USE DEF rowVars, linkVars, userVars, faultVars
<1>1. /\ LetterShape /\ OthersAsk(r) /\ UNCHANGED postman /\ k # None
      /\ asking[r].at \in {"written", "refused"} <=> asking[r].about \in Letters
  BY RequestSteps, NoneAssumption DEF RequestActs, Shape, RequestShape
<1>2. UNCHANGED inbox
  BY DEF RequestActs, AskLink, WriteLetter, Enqueue, Refuse, QueueFailed, RequestDies
<1>3. /\ WentOut(k)' <=> WentOut(k)
      /\ SendingNow(k)' <=> SendingNow(k)
      /\ \A w \in Postmen : (Letter(w)' = k) = (Letter(w) = k)
      /\ Told(k) /\ (letter'[k] = "sent" <=> letter[k] = "sent") => Told(k)'
  BY <1>1, <1>2 DEF WentOut, SendingNow, Letter, Told
<1>4. letter'[k] # "sent" => Honest(k)'
  BY <1>1, <1>2, <1>3 DEF Trail, Honest, Letter
<1>5. CASE WriteLetter(r, k)
  <2>1. /\ letter[k] = None /\ letter'[k] = "queued" /\ k \notin due' /\ task'[k] = None
        /\ \A w \in Postmen : Letter(w) # k
        /\ asking'[r].about = k /\ asking'[r].at = "written"
        /\ \A q \in Requests : q # r => asking'[q].about # k
        /\ unmarked' = unmarked
    <3>1. /\ letter[k] = None /\ letter' = [letter EXCEPT ![k] = "queued"]
          /\ UNCHANGED <<due, task, unmarked>>
          /\ asking'[r].about = k /\ asking'[r].at = "written"
      BY <1>5, RequestSteps DEF WriteLetter, Written
    <3>2. /\ task[k] = None /\ \A w \in Postmen : Letter(w) # k
          /\ \A q \in Requests : asking[q].about # k
          /\ k \notin due
      BY <3>1 DEF Relay
    <3>. QED
      BY <1>1, <3>1, <3>2 DEF OthersAsk, LetterShape
  <2>2. k \notin unmarked => OneCarrier(k)'
    BY <1>3, <2>1 DEF OneCarrier
  <2>3. k \notin unmarked => Told(k)'
    BY <1>3, <2>1 DEF Trail, None
  <2>. QED
    BY <1>4, <2>1, <2>2, <2>3 DEF Trail
<1>6. CASE asking[r].about = k /\ Enqueue(r)
  <2>1. /\ task'[k] = "active" /\ due' = due \cup {k} /\ UNCHANGED <<letter, unmarked>>
        /\ asking'[r].about # k /\ \A q \in Requests : q # r => asking'[q] = asking[q]
    BY <1>1, <1>6, RequestSteps DEF Enqueue, LetterShape, OthersAsk
  <2>2. k \notin unmarked => OneCarrier(k)'
    BY <1>1, <1>3, <1>6, <2>1 DEF Trail, OneCarrier
  <2>3. k \notin unmarked => Told(k)'
    BY <1>3, <2>1 DEF Trail
  <2>4. Honest(k)'
    BY <1>1, <1>2, <1>3, <2>1 DEF Trail, Honest, Letter
  <2>. QED
    BY <2>1, <2>2, <2>3, <2>4 DEF Trail
<1>7. CASE asking[r].about = k /\ Refuse(r)
  <2>1. /\ task'[k] = "active" /\ UNCHANGED letter
        /\ k \in unmarked' \/ (UNCHANGED <<due, unmarked>>)
        /\ asking'[r].about = k /\ asking'[r].at = "refused"
        /\ \A q \in Requests : q # r => asking'[q] = asking[q]
    BY <1>1, <1>7, RequestSteps DEF Refuse, LetterShape, OthersAsk
  <2>2. k \notin unmarked' => OneCarrier(k)'
    BY <1>1, <1>3, <1>7, <2>1 DEF Trail, OneCarrier
  <2>3. k \notin unmarked' => Told(k)'
    BY <1>3, <2>1 DEF Trail
  <2>4. Honest(k)'
    BY <1>1, <1>2, <1>3, <2>1 DEF Trail, Honest, Letter
  <2>. QED
    BY <2>2, <2>3, <2>4 DEF Trail
<1>8. CASE asking[r].about = k /\ QueueFailed(r)
  <2>1. /\ task'[k] = "failed" /\ letter'[k] = "failed" /\ UNCHANGED <<due, unmarked>>
        /\ asking'[r].about # k /\ \A q \in Requests : q # r => asking'[q] = asking[q]
    BY <1>1, <1>8, RequestSteps DEF QueueFailed, LetterShape, OthersAsk
  <2>2. k \notin unmarked => OneCarrier(k)'
    BY <1>1, <1>3, <1>8, <2>1 DEF Trail, OneCarrier
  <2>3. k \notin unmarked => Told(k)'
    <3>1. ASSUME k \notin unmarked
          PROVE  letter[k] = "queued"
      BY <1>8, <3>1 DEF Trail, OneCarrier
    <3>. QED
      BY <1>3, <2>1, <3>1 DEF Trail
  <2>. QED
    BY <1>4, <2>1, <2>2, <2>3 DEF Trail
<1>9. CASE asking[r].about = k /\ RequestDies(r)
  <2>1. /\ UNCHANGED <<letter, task, due, unmarked>>
        /\ asking'[r].about # k /\ \A q \in Requests : q # r => asking'[q] = asking[q]
    BY <1>1, <1>9, RequestSteps DEF RequestDies, OthersAsk
  <2>2. k \notin unmarked => OneCarrier(k)'
    BY <1>1, <1>3, <2>1 DEF Trail, OneCarrier
  <2>3. k \notin unmarked => Told(k)'
    BY <1>3, <2>1 DEF Trail
  <2>4. Honest(k)'
    BY <1>1, <1>2, <1>3, <2>1 DEF Trail, Honest, Letter
  <2>. QED
    BY <2>1, <2>2, <2>3, <2>4 DEF Trail
<1>10. ASSUME asking[r].about = k
       PROVE  ~AskLink(r) /\ \A l \in Letters : ~WriteLetter(r, l)
  BY <1>1, <1>10 DEF AskLink, WriteLetter
<1>. QED
  BY <1>5, <1>6, <1>7, <1>8, <1>9, <1>10 DEF RequestActs

LEMMA TrailStart ==
  ASSUME Shape, NEW w \in Postmen, NEW k \in Letters, Trail(k), Start(w, k)
  PROVE  Trail(k)'
<1>. USE DEF rowVars, linkVars, userVars, faultVars
<1>1. /\ OthersWork(w) /\ UNCHANGED <<asking, letter, task, inbox, unmarked>> /\ due' = due \ {k}
      /\ k \in due /\ Letter(w) # k /\ postman[w].at = "idle"
  BY WorkerSteps, Busy, NoneAssumption DEF Start, Shape
<1>2. \/ task[k] \in {"failed", "done"} /\ UNCHANGED postman
      \/ /\ Letter(w)' = k /\ postman'[w].at \in {"ended", "loaded"}
         /\ postman'[w].at = "loaded" => letter[k] \notin {"sent", "suppressed"}
  BY WorkerSteps
<1>3. \A v \in Postmen : v # w => postman'[v] = postman[v] /\ (Letter(v)' = Letter(v))
  BY <1>1 DEF OthersWork, Letter
<1>4. Honest(k)'
  BY <1>1, <1>2, <1>3 DEF Trail, Honest, WentOut, Letter
<1>5. ASSUME k \notin unmarked
      PROVE  /\ OneCarrier(k) /\ Told(k) /\ task[k] = "active"
             /\ \A v \in Postmen : Letter(v) # k
             /\ \A r \in Requests : asking[r].about # k
  BY <1>1, <1>5 DEF Trail, OneCarrier
<1>6. ASSUME k \notin unmarked
      PROVE  OneCarrier(k)'
  BY <1>1, <1>2, <1>3, <1>5, <1>6 DEF OneCarrier
<1>7. ASSUME k \notin unmarked
      PROVE  Told(k)'
  BY <1>1, <1>5, <1>7 DEF Told, WentOut, SendingNow
<1>. QED
  BY <1>1, <1>4, <1>6, <1>7 DEF Trail

(* What one carrier means for the worker that carries.                     *)
LEMMA Carrier ==
  ASSUME NEW w \in Postmen, NEW k \in Letters, Letter(w) = k, Trail(k), k \notin unmarked
  PROVE  /\ OneCarrier(k) /\ Told(k) /\ k \notin due /\ task[k] = "active"
         /\ \A v \in Postmen : v # w => Letter(v) # k
         /\ \A r \in Requests : asking[r].about # k
         /\ postman[w].at \in {"loaded", "minted"} => letter[k] \notin {"sent", "suppressed"}
         /\ postman[w].at \in {"loaded", "minted"} => ~WentOut(k)
         /\ postman[w].at # "sent" /\ WentOut(k) => letter[k] = "sent"
<1>1. OneCarrier(k) /\ Told(k)
  BY DEF Trail
<1>2. /\ \A v \in Postmen : v # w => Letter(v) # k
      /\ postman[w].at \in {"loaded", "minted"} => letter[k] \notin {"sent", "suppressed"}
      /\ k \notin due /\ task[k] = "active" /\ \A r \in Requests : asking[r].about # k
  BY <1>1 DEF OneCarrier
<1>3. postman[w].at # "sent" => ~SendingNow(k)
  BY <1>2 DEF SendingNow
<1>. QED
  BY <1>1, <1>2, <1>3 DEF Told

LEMMA TrailCarried ==
  ASSUME Shape, NEW w \in Postmen, Mint(w) \/ Send(w), NEW k \in Letters, Trail(k), Letter(w) = k
  PROVE  Trail(k)'
<1>. USE DEF rowVars, linkVars, userVars, faultVars
<1>1. /\ OthersWork(w) /\ UNCHANGED <<asking, letter, task, due, unmarked>> /\ Letter(w)' = k
      /\ \A v \in Postmen : v # w => postman'[v] = postman[v] /\ (Letter(v)' = Letter(v))
      /\ postman[w].at \in {"loaded", "minted"}
  BY WorkerSteps DEF Mint, Send, OthersWork, Letter
<1>2. k \notin unmarked => OneCarrier(k)'
  BY <1>1, Carrier DEF OneCarrier
<1>3. CASE Mint(w)
  <2>1. UNCHANGED inbox /\ postman'[w].at = "minted"
    BY <1>3, WorkerSteps DEF Mint
  <2>2. Honest(k)'
    BY <1>1, <2>1 DEF Trail, Honest, WentOut, Letter
  <2>3. k \notin unmarked => ~WentOut(k)' /\ Told(k)'
    BY <1>1, <2>1, Carrier DEF WentOut, Told
  <2>. QED
    BY <1>1, <1>2, <2>2, <2>3 DEF Trail
<1>4. CASE Send(w)
  <2>1. /\ inbox' = inbox \cup {<<k, postman[w].token>>} /\ postman'[w].at = "sent"
        /\ postman'[w].token = postman[w].token
    <3>1. ~Mint(w)
      BY <1>4 DEF Mint, Send
    <3>. QED
      BY <1>4, <3>1, WorkerSteps DEF Send, Mailed
  <2>2. Honest(k)'
    <3>1. WentOut(k) => WentOut(k)'
      BY <2>1 DEF WentOut
    <3>. QED
      BY <1>1, <2>1, <3>1 DEF Trail, Honest, Letter
  <2>3. ASSUME k \notin unmarked
        PROVE  Told(k)'
    <3>1. ~WentOut(k) /\ SendingNow(k)'
      BY <1>1, <2>1, <2>3, Carrier DEF SendingNow
    <3>2. \A t \in inbox' : t[1] = k => t = <<k, postman[w].token>>
      BY <2>1, <3>1 DEF WentOut
    <3>. QED
      BY <3>1, <3>2 DEF Told
  <2>. QED
    BY <1>1, <1>2, <2>2, <2>3 DEF Trail
<1>. QED
  BY <1>3, <1>4

LEMMA TrailEnds ==
  ASSUME Shape, NEW w \in Postmen, NEW k \in Letters, Trail(k), Letter(w) = k,
         NoRecipient(w) \/ Suppress(w) \/ MarkSent(w) \/ Breaks(w)
  PROVE  Trail(k)'
<1>. USE DEF rowVars, linkVars, userVars, faultVars
<1>1. /\ OthersWork(w) /\ UNCHANGED <<asking, task, due>> /\ Letter(w)' = k
      /\ \A v \in Postmen : v # w => postman'[v] = postman[v] /\ (Letter(v)' = Letter(v))
      /\ postman'[w].at = "ended" /\ LetterShape
  BY WorkerEnds, BreaksFrame DEF NoRecipient, Suppress, MarkSent, End, Ends, OthersWork, Letter, Shape
<1>2. \/ inbox' = inbox /\ unmarked' = unmarked /\ (MarkSent(w) \/ postman[w].at # "sent")
      \/ /\ inbox' = inbox \/ inbox' = inbox \cup {<<k, postman[w].token>>}
         /\ unmarked' = unmarked \cup {k} /\ ~MarkSent(w)
  <2>1. CASE MarkSent(w)
    BY <2>1 DEF MarkSent
  <2>2. CASE ~MarkSent(w)
    BY <2>2, BreaksFrame DEF NoRecipient, Suppress
  <2>. QED
    BY <2>1, <2>2
<1>3. WentOut(k) => WentOut(k)'
  BY <1>2 DEF WentOut
<1>4. letter'[k] = "sent" => letter[k] = "sent" \/ (MarkSent(w) /\ postman[w].at = "sent")
  BY <1>1, WorkerEnds DEF LetterShape, MarkSent
<1>5. Honest(k)'
  <2>1. letter'[k] = "sent" => WentOut(k)
    <3>1. CASE postman[w].at = "sent"
      <4>1. <<k, postman[w].token>> \in inbox /\ <<k, postman[w].token>>[1] = k
        BY <3>1 DEF Trail, Honest
      <4>. QED
        BY <4>1 DEF WentOut
    <3>2. CASE letter[k] = "sent"
      BY <3>2 DEF Trail, Honest
    <3>. QED
      BY <1>4, <3>1, <3>2
  <2>2. inbox \subseteq inbox'
    BY <1>2
  <2>. QED
    BY <1>1, <1>3, <2>1, <2>2 DEF Trail, Honest, Letter
<1>6. ASSUME k \notin unmarked'
      PROVE  OneCarrier(k)'
  BY <1>1, <1>2, <1>6, Carrier DEF OneCarrier
<1>7. ASSUME k \notin unmarked'
      PROVE  Told(k)'
  <2>1. k \notin unmarked /\ inbox' = inbox /\ Told(k) /\ (WentOut(k)' <=> WentOut(k))
    BY <1>2, <1>7, Carrier DEF WentOut
  <2>2. CASE MarkSent(w)
    <3>1. letter'[k] = "sent"
      <4>1. letter' = [letter EXCEPT ![k] = "sent"]
        BY <2>2 DEF MarkSent, End
      <4>. QED
        BY <1>1, <4>1 DEF LetterShape
    <3>. QED
      BY <2>1, <3>1 DEF Told
  <2>3. CASE ~MarkSent(w)
    <3>1. postman[w].at \in {"loaded", "minted"}
      BY <1>2, <1>7, <2>3, BreaksFrame DEF NoRecipient, Suppress
    <3>. QED
      BY <2>1, <3>1, Carrier DEF Told
  <2>. QED
    BY <2>2, <2>3
<1>. QED
  BY <1>5, <1>6, <1>7 DEF Trail

LEMMA TrailLeaves ==
  ASSUME Shape, NEW w \in Postmen, Finish(w) \/ Crash(w), NEW k \in Letters, Trail(k), Letter(w) = k
  PROVE  Trail(k)'
<1>. USE DEF rowVars, linkVars, userVars, faultVars
<1>1. /\ OthersWork(w) /\ postman'[w] = NoPostman /\ UNCHANGED <<asking, letter, inbox>>
      /\ LetterShape /\ k # None
  BY WorkerSteps, NoneAssumption DEF Finish, Crash, Shape
<1>2. /\ Letter(w)' # k /\ postman'[w].at = "idle"
      /\ \A v \in Postmen : v # w => postman'[v] = postman[v] /\ (Letter(v)' = Letter(v))
  BY <1>1 DEF OthersWork, NoPostman, Letter
<1>3. Honest(k)'
  BY <1>1, <1>2 DEF Trail, Honest, WentOut, Letter
<1>4. /\ k \in unmarked => k \in unmarked'
      /\ k \notin unmarked' => postman[w].at # "sent"
  BY DEF Finish, Crash, MayBeUnmarked
<1>5. \/ due' = due \cup {k} /\ task' = task
      \/ due' = due /\ (task' = task \/ \E s \in Verdicts : task' = [task EXCEPT ![k] = s])
  BY Busy DEF Finish, Crash, Shape
<1>6. ASSUME k \notin unmarked'
      PROVE  OneCarrier(k)'
  BY <1>1, <1>2, <1>4, <1>5, <1>6, Carrier DEF OneCarrier
<1>7. ASSUME k \notin unmarked'
      PROVE  Told(k)'
  BY <1>1, <1>4, <1>7, Carrier DEF Told, WentOut
<1>. QED
  BY <1>3, <1>6, <1>7 DEF Trail

LEMMA TrailKept ==
  ASSUME Shape, NEW k \in Letters, Relay(k), Trail(k), [MailNext]_mailVars
  PROVE  Trail(k)'
<1>. USE DEF rowVars, linkVars, userVars, faultVars
<1>1. ASSUME NEW r \in Requests, RequestActs(r)
      PROVE  Trail(k)'
  BY <1>1, TrailRequest, RequestFrame, Frame
<1>2. ASSUME NEW w \in Postmen, WorkerActs(w)
      PROVE  Trail(k)'
  <2>1. CASE Start(w, k)
    BY <2>1, TrailStart
  <2>2. CASE Letter(w) # k /\ ~Start(w, k)
    BY <1>2, <2>2, WorkerFrame, Frame
  <2>3. CASE Letter(w) = k
    <3>1. \A l \in Letters : ~Start(w, l)
      BY <2>3, Busy DEF Start, Shape
    <3>2. CASE Restore(w)
      <4>1. /\ UNCHANGED <<letter, inbox, postman>> /\ k \in unmarked'
        BY <2>3, <3>2 DEF Restore
      <4>. QED
        BY <4>1 DEF Trail, Honest, WentOut, Letter
    <3>. QED
      BY <1>2, <2>3, <3>1, <3>2, TrailCarried, TrailEnds, TrailLeaves DEF WorkerActs
  <2>. QED
    BY <2>1, <2>2, <2>3
<1>3. CASE UserStep
  <2>1. Untouched(k)
    BY <1>3, UserSteps DEF Untouched, RowsKept, Letter
  <2>. QED
    BY <2>1, Frame
<1>4. ASSUME NEW l \in Letters, Retry(l)
      PROVE  Trail(k)'
  <2>1. /\ task[l] = "failed" /\ task' = [task EXCEPT ![l] = "active"] /\ due' = due \cup {l}
        /\ UNCHANGED <<letter, inbox, unmarked, asking, postman>> /\ LetterShape
    BY <1>4 DEF Retry, Shape
  <2>2. CASE k # l
    <3>1. Untouched(k)
      BY <2>1, <2>2 DEF Untouched, RowsKept, LetterShape, Letter
    <3>. QED
      BY <3>1, Frame
  <2>3. CASE k = l
    <3>1. /\ Honest(k)' <=> Honest(k)
          /\ Told(k)' <=> Told(k)
      BY <2>1 DEF Honest, Told, WentOut, SendingNow, Letter
    <3>2. k \notin unmarked => OneCarrier(k)'
      BY <2>1, <2>3 DEF Trail, OneCarrier, LetterShape, Letter, None
    <3>. QED
      BY <2>1, <3>1, <3>2 DEF Trail
  <2>. QED
    BY <2>2, <2>3
<1>. QED
  BY <1>1, <1>2, <1>3, <1>4, Steps

LEMMA TrailHolds == MailSpec => [](\A l \in Letters : Trail(l))
<1>1. MailInit => \A l \in Letters : Trail(l)
  BY NoneAssumption DEF MailInit, Trail, Honest, OneCarrier, Told, WentOut, SendingNow, NoPostman,
     NoRequest, Letter, None
<1>2. /\ Shape /\ (\A l \in Letters : Relay(l)) /\ (\A l \in Letters : Trail(l))
      /\ [MailNext]_mailVars
      => (\A l \in Letters : Trail(l))'
  BY TrailKept
<1>. QED
  BY <1>1, <1>2, ShapeKept, RelayHolds, PTL DEF MailSpec

(* No two of a set's members differ: it has at most one.                   *)
LEMMA AtMostOne ==
  ASSUME NEW S, \A t \in S, u \in S : t = u
  PROVE  Cardinality(S) <= 1
<1>1. CASE S = {}
  BY <1>1, FS_EmptySet
<1>2. CASE S # {}
  <2>1. PICK t \in S : TRUE
    BY <1>2
  <2>2. S = {t}
    BY <2>1
  <2>3. Cardinality({t}) = 1
    BY FS_Singleton
  <2>. QED
    BY <2>2, <2>3
<1>. QED
  BY <1>1, <1>2

(* A letter goes out once and the log says so, however often its job is    *)
(* delivered or retried, unless it may have gone out without the log       *)
(* knowing.                                                                *)
THEOREM Sent_As_Logged == MailSpec => []SentAsLogged
<1>1. (\A l \in Letters : Trail(l)) => LogTellsTruth
  BY DEF Trail, Honest, Told, WentOut, SendingNow, LogTellsTruth
<1>2. (\A l \in Letters : Trail(l)) => SentOnce
  BY AtMostOne DEF Trail, Told, SentOnce
<1>. QED
  BY <1>1, <1>2, TrailHolds, PTL DEF SentAsLogged
-----------------------------------------------------------------------------
(* One link at a time, as long as nothing failed and no two requests        *)
(* looked together                                                         *)

(* Without a fault a letter that is on its way is queued.                  *)
OnItsWay(l) ==
  \/ l \in due
  \/ \E w \in Postmen : /\ Letter(w) = l
                        /\ postman[w].at # "ended" \/ postman[w].verdict = "again"
Calm(l) == faults = {} => unmarked = {} /\ (OnItsWay(l) => letter[l] = "queued")

LEMMA FaultFree ==
  ASSUME [MailNext]_mailVars, faults' = {}
  PROVE  faults = {} /\ UNCHANGED <<faults, unmarked>>
BY ZenonT(60) DEF MailNext, mailVars, rowVars, linkVars, userVars, faultVars, AskLink, WriteLetter, Enqueue,
   Refuse, QueueFailed, RequestDies, Start, Mint, NoRecipient, ResolveFails, Suppress, Send,
   MarkSent, SendFails, BodyRaises, MarkRaises, Escapes, Finish, Crash, Restore, Retry, Age, SignOut, Lapse, OpenLink, Enter,
   Switch, Suffer

(* The steps of a run without faults.                                      *)
LEMMA FaultlessSteps ==
  ASSUME Shape, [MailNext]_mailVars, faults' = {}
  PROVE  /\ \A r \in Requests : ~Refuse(r) /\ ~RequestDies(r)
         /\ \A w \in Postmen : ~Crash(w) /\ ~Restore(w)
         /\ \A l \in Letters : ~Retry(l)
<1>1. \A f : ~(Suffer(f))
  BY DEF Suffer
<1>. QED
  BY <1>1 DEF Refuse, RequestDies, Crash, Restore, Retry

LEMMA CalmKept ==
  ASSUME Shape, NEW k \in Letters, Relay(k), Trail(k), Calm(k), [MailNext]_mailVars
  PROVE  Calm(k)'
<1>. USE DEF rowVars, linkVars, userVars, faultVars
<1>. SUFFICES ASSUME faults' = {}, OnItsWay(k)'
              PROVE  letter'[k] = "queued" /\ unmarked' = {}
  BY FaultFree DEF Calm
<1>1. /\ unmarked' = {} /\ unmarked = {} /\ (OnItsWay(k) => letter[k] = "queued")
      /\ LetterShape /\ k # None
  BY FaultFree, NoneAssumption DEF Calm, Shape
<1>2. ASSUME NEW r \in Requests, RequestActs(r)
      PROVE  letter'[k] = "queued"
  <2>1. UNCHANGED postman /\ OthersAsk(r)
    BY <1>2, RequestSteps DEF RequestActs
  <2>2. CASE AskLink(r)
    BY <1>1, <2>1, <2>2 DEF AskLink, OnItsWay, Letter
  <2>3. ASSUME NEW l \in Letters, WriteLetter(r, l)
        PROVE  letter'[k] = "queued"
    BY <1>1, <2>1, <2>3 DEF WriteLetter, OnItsWay, Letter, LetterShape
  <2>4. CASE Enqueue(r)
    <3>1. asking[r].about = k => letter[k] = "queued"
      BY <1>1 DEF Trail, OneCarrier
    <3>. QED
      BY <1>1, <2>1, <2>4, <3>1 DEF Enqueue, OnItsWay, Letter
  <2>5. CASE QueueFailed(r)
    <3>1. asking[r].about = k => ~OnItsWay(k)
      BY <1>1 DEF Trail, OneCarrier, OnItsWay
    <3>2. asking[r].about # k => letter'[k] = letter[k]
      BY <1>1, <2>5, RequestSteps DEF QueueFailed, LetterShape
    <3>3. OnItsWay(k)
      BY <2>1, <2>5 DEF QueueFailed, OnItsWay, Letter
    <3>. QED
      BY <1>1, <3>1, <3>2, <3>3
  <2>. QED
    BY <1>2, <2>2, <2>3, <2>4, <2>5, FaultlessSteps DEF RequestActs
<1>3. ASSUME NEW w \in Postmen, WorkerActs(w)
      PROVE  letter'[k] = "queued"
  <2>1. CASE Start(w, k)
    <3>1. letter[k] = "queued" /\ UNCHANGED letter
      BY <1>1, <2>1 DEF Start, OnItsWay
    <3>. QED
      BY <3>1
  <2>2. CASE Letter(w) # k /\ ~Start(w, k)
    <3>1. Untouched(k)
      BY <1>3, <2>2, WorkerFrame
    <3>2. OnItsWay(k)
      BY <3>1 DEF Untouched, RowsKept, OnItsWay
    <3>. QED
      BY <1>1, <3>1, <3>2 DEF Untouched, RowsKept
  <2>3. CASE Letter(w) = k
    <3>0. \A l \in Letters : ~Start(w, l)
      BY <2>3, Busy DEF Start, Shape
    <3>1. /\ \A v \in Postmen : v # w => Letter(v) # k
          /\ k \notin due
      BY <1>1, <2>3, Carrier
    <3>2. CASE Mint(w) \/ Send(w)
      <4>1. UNCHANGED letter /\ postman[w].at # "ended"
        BY <3>2 DEF Mint, Send
      <4>. QED
        BY <1>1, <2>3, <4>1 DEF OnItsWay
    <3>3. CASE NoRecipient(w) \/ Suppress(w) \/ MarkSent(w) \/ Breaks(w)
      <4>1. /\ \A v \in Postmen : v # w => Letter(v)' = Letter(v)
            /\ postman'[w].at = "ended" /\ UNCHANGED due /\ postman[w].at # "ended"
        BY <3>3, WorkerEnds, BreaksFrame DEF NoRecipient, Suppress, MarkSent, End, Ends,
           OthersWork, Letter
      <4>2. postman'[w].verdict = "again"
        BY <3>1, <4>1 DEF OnItsWay
      <4>3. letter' = letter
        BY <3>3, <4>2, WorkerEnds
      <4>. QED
        BY <1>1, <2>3, <4>1, <4>3 DEF OnItsWay
    <3>4. CASE Finish(w)
      <4>1. /\ UNCHANGED letter /\ OthersWork(w) /\ postman'[w] = NoPostman
            /\ postman[w].verdict # "again" => due' = due
        BY <3>4, WorkerSteps DEF Finish
      <4>2. Letter(w)' # k
        BY <1>1, <4>1 DEF NoPostman, Letter
      <4>3. \A v \in Postmen : Letter(v)' # k
        BY <3>1, <4>1, <4>2 DEF OthersWork, Letter
      <4>4. postman[w].verdict = "again"
        BY <3>1, <4>1, <4>3 DEF OnItsWay
      <4>. QED
        BY <1>1, <2>3, <4>1, <4>4 DEF OnItsWay
    <3>. QED
      BY <1>3, <3>0, <3>2, <3>3, <3>4, FaultlessSteps DEF WorkerActs
  <2>. QED
    BY <2>1, <2>2, <2>3
<1>4. CASE UserStep
  BY <1>1, <1>4, UserSteps DEF OnItsWay, Letter
<1>. QED
  BY <1>1, <1>2, <1>3, <1>4, FaultlessSteps, Steps

(* A letter that counts for the next request's check.                      *)
Counts(l) ==
  /\ l \in recent
  /\ \/ letter[l] = "queued"
     \/ letter[l] = "sent" /\ \E t \in Tokens : t[1] = l /\ token[t] = "unused"
Rationed ==
  raced \/ faults # {} \/
    /\ \A k \in Letters, l \in Letters : Counts(k) /\ Counts(l) => k = l
    /\ \A q \in Requests, r \in Requests : asking[q].at = "asked" /\ asking[r].at = "asked" => q = r
    /\ (\E r \in Requests : asking[r].at = "asked") => \A l \in Letters : ~Counts(l)

(* Without a fault a letter begins to count only when it is written.       *)
LEMMA CountsFrom ==
  ASSUME Shape, [MailNext]_mailVars, faults' = {}, NEW k \in Letters, Calm(k), Relay(k), Trail(k),
         Counts(k)', \A r \in Requests : ~WriteLetter(r, k)
  PROVE  Counts(k)
<1>. USE DEF rowVars, linkVars, userVars, faultVars
<1>1. /\ LetterShape /\ LinkShape /\ k # None /\ unmarked = {}
      /\ OnItsWay(k) => letter[k] = "queued"
  BY FaultFree, NoneAssumption DEF Calm, Shape
<1>2. ASSUME NEW r \in Requests, RequestActs(r)
      PROVE  Counts(k)
  <2>1. UNCHANGED token
    BY <1>2 DEF RequestActs, AskLink, WriteLetter, Enqueue, Refuse, QueueFailed, RequestDies
  <2>2. CASE AskLink(r) \/ Enqueue(r)
    BY <2>1, <2>2 DEF AskLink, Enqueue, Counts
  <2>3. ASSUME NEW l \in Letters, WriteLetter(r, l)
        PROVE  Counts(k)
    <3>1. l # k
      BY <2>3
    <3>. QED
      BY <1>1, <2>1, <2>3, <3>1 DEF WriteLetter, LetterShape, Counts
  <2>4. CASE QueueFailed(r)
    <3>1. asking[r].about \in Letters
      BY <2>4, RequestSteps
    <3>2. letter'[k] # "failed" => letter'[k] = letter[k]
      BY <1>1, <2>4, <3>1 DEF QueueFailed, LetterShape
    <3>. QED
      BY <2>1, <2>4, <3>2 DEF QueueFailed, Counts
  <2>. QED
    BY <1>2, <2>2, <2>3, <2>4, FaultlessSteps DEF RequestActs
<1>3. ASSUME NEW w \in Postmen, WorkerActs(w)
      PROVE  Counts(k)
  <2>1. UNCHANGED recent
    BY <1>3, BreaksFrame DEF WorkerActs, Start, Mint, NoRecipient, Suppress, Send, MarkSent, End,
       Finish, Crash, Restore
  <2>2. CASE Letter(w) = k /\ postman[w].at # "ended"
    BY <1>1, <2>1, <2>2 DEF OnItsWay, Counts
  <2>3. CASE Letter(w) # k \/ postman[w].at = "ended"
    <3>1. CASE Mint(w)
      <4>1. PICK n \in 1..MaxMints : token' = [token EXCEPT ![<<Letter(w), n>>] = "unused"]
        BY <3>1 DEF Mint
      <4>2. Letter(w) # k /\ UNCHANGED letter
        BY <2>3, <3>1 DEF Mint
      <4>3. \A t \in Tokens : t[1] = k => token'[t] = token[t]
        BY <1>1, <4>1, <4>2 DEF LinkShape
      <4>. QED
        BY <2>1, <4>2, <4>3 DEF Counts
    <3>2. CASE ~Mint(w)
      <4>1. UNCHANGED token
        BY <1>3, <3>2, BreaksFrame DEF WorkerActs, Start, NoRecipient, Suppress, Send, MarkSent,
           Finish, Crash, Restore
      <4>2. letter'[k] = letter[k]
        <5>1. CASE NoRecipient(w) \/ Suppress(w) \/ MarkSent(w) \/ Breaks(w)
          <6>1. Letter(w) # k
            BY <2>3, <5>1, BreaksFrame DEF NoRecipient, Suppress, MarkSent
          <6>. QED
            BY <1>1, <5>1, <6>1, WorkerEnds DEF LetterShape, Ends
        <5>2. CASE ~(NoRecipient(w) \/ Suppress(w) \/ MarkSent(w) \/ Breaks(w))
          BY <1>3, <3>2, <5>2 DEF WorkerActs, Start, Send, Finish, Crash, Restore
        <5>. QED
          BY <5>1, <5>2
      <4>. QED
        BY <2>1, <4>1, <4>2 DEF Counts
    <3>. QED
      BY <3>1, <3>2
  <2>. QED
    BY <2>2, <2>3
<1>4. CASE UserStep
  <2>1. /\ UNCHANGED letter /\ recent' \subseteq recent
        /\ \A t \in Tokens : token'[t] = "unused" => token[t] = "unused"
    BY <1>4, UserSteps
  <2>. QED
    BY <2>1 DEF Counts
<1>. QED
  BY <1>2, <1>3, <1>4, FaultlessSteps, Steps

LEMMA RationKept ==
  ASSUME Shape, Rationed, [MailNext]_mailVars,
         \A l \in Letters : Calm(l) /\ Relay(l) /\ Trail(l)
  PROVE  Rationed'
<1>. USE DEF rowVars, linkVars, userVars, faultVars
<1>. SUFFICES ASSUME ~raced', faults' = {}
              PROVE  Rationed'
  BY DEF Rationed
<1>1. ~raced
  BY ZenonT(60) DEF MailNext, mailVars, AskLink, WriteLetter, Enqueue, Refuse, QueueFailed, RequestDies,
     Start, Mint, NoRecipient, ResolveFails, Suppress, Send, MarkSent, SendFails, BodyRaises,
     MarkRaises, Escapes, Transient, End,
     Finish, Crash, Restore, Retry, Age, SignOut, Lapse, OpenLink, Enter, Switch
<1>2. /\ \A k \in Letters, l \in Letters : Counts(k) /\ Counts(l) => k = l
      /\ \A q \in Requests, r \in Requests : asking[q].at = "asked" /\ asking[r].at = "asked" => q = r
      /\ (\E r \in Requests : asking[r].at = "asked") => \A l \in Letters : ~Counts(l)
  BY <1>1, FaultFree DEF Rationed
<1>3. ASSUME NEW r \in Requests, AskLink(r)
      PROVE  Rationed'
  <2>1. /\ \A q \in Requests : asking[q].at # "asked"
        /\ \A l \in Letters : ~Counts(l)
    BY <1>3 DEF AskLink, Pending, Counts
  <2>2. /\ UNCHANGED <<letter, recent, token>> /\ \A q \in Requests : q # r => asking'[q] = asking[q]
    BY <1>3, RequestSteps DEF AskLink, OthersAsk
  <2>. QED
    BY <2>1, <2>2 DEF Rationed, Counts
<1>4. ASSUME NEW r \in Requests, NEW l \in Letters, WriteLetter(r, l)
      PROVE  Rationed'
  <2>1. /\ \A q \in Requests : q # r => asking'[q] = asking[q]
        /\ asking'[r].at = "written" /\ asking[r].at = "asked" /\ l \notin Written
    BY <1>4, RequestSteps DEF WriteLetter, OthersAsk
  <2>2. \A q \in Requests : asking'[q].at # "asked"
    BY <1>2, <2>1
  <2>3. \A k \in Letters : Counts(k)' => k = l
    <3>. SUFFICES ASSUME NEW k \in Letters, Counts(k)', k # l
                  PROVE  FALSE
      OBVIOUS
    <3>1. \A q \in Requests : ~WriteLetter(q, k)
      <4>1. letter' = [letter EXCEPT ![l] = "queued"] /\ LetterShape
        BY <1>4 DEF WriteLetter, Shape
      <4>. QED
        BY <4>1, NoneAssumption DEF WriteLetter, Written, LetterShape, None
    <3>. QED
      BY <1>2, <2>1, <3>1, CountsFrom
  <2>. QED
    BY <2>2, <2>3 DEF Rationed
<1>5. ASSUME \A r \in Requests : ~AskLink(r) /\ \A l \in Letters : ~WriteLetter(r, l)
      PROVE  Rationed'
  <2>1. \A k \in Letters : Counts(k)' => Counts(k)
    BY <1>5, CountsFrom
  <2>2. \A r \in Requests : asking'[r].at = "asked" => asking[r].at = "asked"
    <3>1. ASSUME NEW r \in Requests, RequestActs(r)
          PROVE  \A q \in Requests : asking'[q].at = "asked" => asking[q].at = "asked"
      BY <1>5, <3>1, RequestSteps DEF RequestActs, OthersAsk
    <3>2. ASSUME NEW w \in Postmen, WorkerActs(w)
          PROVE  UNCHANGED asking
      BY <3>2, WorkerSteps, WorkerEnds DEF WorkerActs, Ends
    <3>. QED
      BY <3>1, <3>2, Steps, UserSteps, RetryStep
  <2>. QED
    BY <1>2, <2>1, <2>2 DEF Rationed
<1>. QED
  BY <1>3, <1>4, <1>5

(* Within the interval the user has one link at a time to click, unless    *)
(* two requests looked together or a fault made the log say less than was  *)
(* sent.                                                                   *)
THEOREM One_Link_At_A_Time == MailSpec => []OneLinkAtATime
<1>1. MailInit => Rationed /\ \A l \in Letters : Calm(l)
  BY NoneAssumption DEF MailInit, Rationed, Counts, Calm, OnItsWay, NoPostman, NoRequest, Letter, None
<1>2. /\ Shape /\ Rationed /\ [MailNext]_mailVars
      /\ (\A l \in Letters : Calm(l)) /\ (\A l \in Letters : Relay(l)) /\ (\A l \in Letters : Trail(l))
      => Rationed' /\ (\A l \in Letters : Calm(l))'
  BY RationKept, CalmKept
<1>3. Shape /\ Rationed /\ (\A l \in Letters : Calm(l)) /\ (\A l \in Letters : Trail(l)) => OneLinkAtATime
  <2>. SUFFICES ASSUME Shape, Rationed, \A l \in Letters : Calm(l) /\ Trail(l), ~raced, faults = {}
                PROVE  OneLinkAtATime
    BY DEF OneLinkAtATime
  <2>. DEFINE Usable == {l \in recent : \E t \in inbox : t[1] = l /\ token[t] = "unused"}
  <2>1. ASSUME NEW l \in Usable
        PROVE  l \in Letters /\ Counts(l)
    <3>1. l \in Letters /\ WentOut(l) /\ \E t \in Tokens : t[1] = l /\ token[t] = "unused"
      BY <2>1 DEF Shape, LetterShape, LinkShape, WentOut
    <3>2. letter[l] = "sent" \/ SendingNow(l)
      BY <3>1 DEF Calm, Trail, Told
    <3>3. SendingNow(l) => letter[l] = "queued"
      BY <3>1 DEF SendingNow, Calm, OnItsWay
    <3>. QED
      BY <2>1, <3>1, <3>2, <3>3 DEF Counts
  <2>2. \A k \in Usable, l \in Usable : k = l
    BY <2>1 DEF Rationed
  <2>. QED
    BY <2>2, AtMostOne DEF OneLinkAtATime
<1>. QED
  BY <1>1, <1>2, <1>3, ShapeKept, RelayHolds, TrailHolds, PTL DEF MailSpec
=============================================================================
