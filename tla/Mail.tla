-------------------------------- MODULE Mail --------------------------------
(***************************************************************************)
(* Sign-in by e-mailed link: the request (api/services/auth.py), the       *)
(* e-mail log (api/services/email.py), the job that writes and sends a      *)
(* letter (jobs/tasks/email.py), the exchange of a link for a session, and *)
(* the account's switch (AdminConfigService.update_user), for one staff    *)
(* user.  Every other letter lives the same life without a token.          *)
(*                                                                         *)
(* A letter is a row of email_log, a token <<l, n>> the n-th one minted    *)
(* for letter l.  Of its job it matters that a message waits, that it is   *)
(* final, and its attempts (the rest is JobQueue's).                       *)
(***************************************************************************)
EXTENDS Integers, FiniteSets

CONSTANTS Letters, Requests, Postmen, Browsers,
          MaxAttempts,   \* max_attempts of send_email
          MaxMints,      \* bound: tokens per letter
          MaxSwitches,   \* bound: deactivations and reactivations
          MaxFaults      \* bound: faults, each kind at most once, by letters written

ASSUME MailAssumption ==
  /\ {MaxAttempts, MaxMints, MaxSwitches} \subseteq Nat
  /\ MaxFaults \in [0..Cardinality(Letters) -> Nat]

None == "none"
ASSUME NoneAssumption == None \notin Letters

Tokens == Letters \X (1..MaxMints)
FaultKinds == {"refuse", "ambiguous", "abandon", "crash", "restore", "timeout", "error", "retry"}

VARIABLES
  sends,        \* the settings' policy (core/mail/policy.py): mail goes out
  letter,       \* email_log.status
  recent,       \* letters younger than the minimal interval
  due, task, attempts,    \* of each letter's job: a message waits; its state
  token,        \* staff_login_tokens ("spent": used or expired)
  inbox,        \* tokens the user has been mailed
  active, sessions,      \* staff_users.is_active, open sessions by their token
  asking,       \* per request: where it is and its letter
  postman,      \* per worker: where it is, its letter, attempt and token
  opening,      \* per browser: the token whose row it has locked
  switches, faults,
  opened,       \* history: sessions opened per token
  lost,         \* history: letters whose last carrier is gone
  escaped,      \* history: letters whose job an error ended that marks no letter
  unmarked,     \* history: letters that may be sent without the log knowing
  raced, overtaken       \* history: two checks, or exchange and switch, crossed

rowVars == <<letter, recent, due, task, attempts>>
linkVars == <<token, inbox>>
userVars == <<active, sessions, opening, switches, opened, overtaken>>
faultVars == <<faults, lost, escaped, unmarked>>
mailVars == <<sends, rowVars, linkVars, userVars, faultVars, asking, postman, raced>>

NoRequest == [at |-> "idle", about |-> None]
NoPostman == [at |-> "idle", about |-> None, try |-> 0, token |-> 0, verdict |-> None]

MailInit ==
  /\ sends \in BOOLEAN
  /\ letter = [l \in Letters |-> None] /\ recent = {}
  /\ due = {} /\ task = [l \in Letters |-> None] /\ attempts = [l \in Letters |-> 0]
  /\ token = [t \in Tokens |-> None] /\ inbox = {}
  /\ active = TRUE /\ sessions = {}
  /\ asking = [r \in Requests |-> NoRequest]
  /\ postman = [w \in Postmen |-> NoPostman]
  /\ opening = [b \in Browsers |-> {}]
  /\ switches = 0 /\ faults = {}
  /\ opened = [t \in Tokens |-> 0]
  /\ lost = {} /\ escaped = {} /\ unmarked = {} /\ raced = FALSE /\ overtaken = FALSE

Written == {l \in Letters : letter[l] # None}

Suffer(f) ==
  /\ f \notin faults /\ Cardinality(faults) < MaxFaults[Cardinality(Written)]
  /\ faults' = faults \cup {f}

-----------------------------------------------------------------------------
(* MagicLinkService.request and EmailService.queue *)

(* Mutant: a letter that is still queued does not count.                   *)
PendingSent ==
  \E l \in recent : letter[l] = "sent" /\ \E t \in Tokens : t[1] = l /\ token[t] = "unused"

(* PENDING_LINK_SQL                                                        *)
Pending ==
  \E l \in recent :
    \/ letter[l] = "queued"
    \/ letter[l] = "sent" /\ \E t \in Tokens : t[1] = l /\ token[t] = "unused"

AskLink(r) ==
  /\ asking[r].at = "idle" /\ active /\ ~Pending
  /\ asking' = [asking EXCEPT ![r] = [at |-> "asked", about |-> None]]
  /\ raced' = (raced \/ \E q \in Requests : asking[q].at = "asked")
  /\ UNCHANGED <<sends, rowVars, linkVars, userVars, faultVars, postman>>

WriteLetter(r, l) ==
  /\ asking[r].at = "asked" /\ l \notin Written
  /\ Cardinality(faults) <= MaxFaults[Cardinality(Written) + 1]
  /\ letter' = [letter EXCEPT ![l] = "queued"]
  /\ recent' = recent \cup {l}
  /\ asking' = [asking EXCEPT ![r] = [at |-> "written", about |-> l]]
  /\ UNCHANGED <<sends, due, task, attempts, linkVars, userVars, faultVars, postman, raced>>

Enqueue(r) ==
  /\ asking[r].at = "written"
  /\ task' = [task EXCEPT ![asking[r].about] = "active"]
  /\ due' = due \cup {asking[r].about}
  /\ asking' = [asking EXCEPT ![r] = NoRequest]
  /\ UNCHANGED <<sends, letter, recent, attempts, linkVars, userVars, faultVars, postman, raced>>

(* The broker refuses the message, or only seems to.                       *)
Refuse(r) ==
  /\ asking[r].at = "written"
  /\ \/ Suffer("refuse") /\ UNCHANGED <<due, unmarked>>
     \/ Suffer("ambiguous") /\ due' = due \cup {asking[r].about}
                            /\ unmarked' = unmarked \cup {asking[r].about}
  /\ task' = [task EXCEPT ![asking[r].about] = "active"]
  /\ asking' = [asking EXCEPT ![r] = [at |-> "refused", about |-> asking[r].about]]
  /\ UNCHANGED <<sends, letter, recent, attempts, linkVars, userVars, lost, escaped, postman, raced>>

(* DISPATCH_FAILED_SQL on the job, then QUEUE_FAILED_SQL on the letter,    *)
(* whatever the two say by now                                             *)
QueueFailed(r) ==
  /\ asking[r].at = "refused"
  /\ task' = [task EXCEPT ![asking[r].about] = "failed"]
  /\ letter' = [letter EXCEPT ![asking[r].about] = "failed"]
  /\ asking' = [asking EXCEPT ![r] = NoRequest]
  /\ UNCHANGED <<sends, recent, due, attempts, linkVars, userVars, faultVars, postman, raced>>

RequestDies(r) ==
  /\ asking[r].at # "idle" /\ Suffer("abandon")
  /\ lost' = lost \cup ({asking[r].about} \cap Letters)
  /\ asking' = [asking EXCEPT ![r] = NoRequest]
  /\ UNCHANGED <<sends, rowVars, linkVars, userVars, escaped, unmarked, postman, raced>>

-----------------------------------------------------------------------------
(* deliver, in the job's body *)

Letter(w) == postman[w].about

Goes(w, l, at, try, n, verdict) ==
  postman' = [postman EXCEPT ![w] =
                [at |-> at, about |-> l, try |-> try, token |-> n, verdict |-> verdict]]
(* Mutant: the letter's own status is not looked at.                       *)
StartAgain(w, l) ==
  /\ postman[w].at = "idle" /\ l \in due
  /\ due' = due \ {l}
  /\ IF task[l] \in {"failed", "done"} THEN UNCHANGED <<postman, attempts>>
     ELSE /\ attempts' = [attempts EXCEPT ![l] = @ + 1]
          /\ Goes(w, l, "loaded", attempts[l] + 1, 0, None)
  /\ UNCHANGED <<sends, letter, recent, task, linkVars, userVars, faultVars, asking, raced>>

(* The message is taken; a final job and a letter that has gone out are     *)
(* left alone.                                                             *)
Start(w, l) ==
  /\ postman[w].at = "idle" /\ l \in due
  /\ due' = due \ {l}
  /\ IF task[l] \in {"failed", "done"} THEN UNCHANGED <<postman, attempts>>
     ELSE /\ attempts' = [attempts EXCEPT ![l] = @ + 1]
          /\ IF letter[l] \in {"sent", "suppressed"}
             THEN Goes(w, l, "ended", attempts[l] + 1, 0, "done")
             ELSE Goes(w, l, "loaded", attempts[l] + 1, 0, None)
  /\ UNCHANGED <<sends, letter, recent, task, linkVars, userVars, faultVars, asking, raced>>

End(w, status, verdict) ==
  /\ letter' = [letter EXCEPT ![Letter(w)] = status]
  /\ Goes(w, Letter(w), "ended", postman[w].try, postman[w].token, verdict)
  /\ UNCHANGED <<sends, recent, due, task, attempts, userVars, asking, raced>>

(* Mutant: nobody marks the letter when its job has failed for good.       *)
TransientUnmarked(w) ==
  End(w, letter[Letter(w)], IF postman[w].try >= MaxAttempts THEN "failed" ELSE "again")

(* A transient error: the last attempt marks the letter, the others only   *)
(* count.                                                                  *)
Transient(w) ==
  IF postman[w].try >= MaxAttempts THEN End(w, "failed", "failed")
  ELSE End(w, letter[Letter(w)], "again")

(* resolve_context: the user is looked up and a token, the letter's next,  *)
(* minted and committed.                                                   *)
Mint(w) ==
  \E n \in 1..MaxMints :
    /\ postman[w].at = "loaded" /\ active
    /\ token[<<Letter(w), n>>] = None
    /\ \A k \in 1..(n - 1) : token[<<Letter(w), k>>] # None
    /\ token' = [token EXCEPT ![<<Letter(w), n>>] = "unused"]
    /\ Goes(w, Letter(w), "minted", postman[w].try, n, None)
    /\ UNCHANGED <<sends, rowVars, inbox, userVars, faultVars, asking, raced>>

NoRecipient(w) ==
  /\ postman[w].at = "loaded" /\ ~active
  /\ End(w, "failed", "failed")
  /\ UNCHANGED <<linkVars, faultVars>>

ResolveFails(w) ==
  /\ postman[w].at = "loaded"
  /\ Transient(w)
  /\ UNCHANGED <<linkVars, faultVars>>

Suppress(w) ==
  /\ postman[w].at = "minted" /\ ~sends
  /\ End(w, "suppressed", "done")
  /\ UNCHANGED <<linkVars, faultVars>>

Mailed(w) == inbox' = inbox \cup {<<Letter(w), postman[w].token>>}

Send(w) ==
  /\ postman[w].at = "minted" /\ sends
  /\ Mailed(w)
  /\ Goes(w, Letter(w), "sent", postman[w].try, postman[w].token, None)
  /\ UNCHANGED <<sends, rowVars, token, userVars, faultVars, asking, raced>>

MarkSent(w) ==
  /\ postman[w].at = "sent"
  /\ End(w, "sent", "done")
  /\ UNCHANGED <<linkVars, faultVars>>

(* An error deliver has no handler for, or that its handler meets while it *)
(* marks: run_job_async retries the transient ones and fails the job for   *)
(* good at any other, and nobody marks the letter.                         *)
Escapes(w) ==
  \/ /\ postman[w].try < MaxAttempts
     /\ End(w, letter[Letter(w)], "again") /\ UNCHANGED escaped
  \/ End(w, letter[Letter(w)], "failed") /\ escaped' = escaped \cup {Letter(w)}

(* MailPermanentError, MailTransientError; a time-out may hide that the    *)
(* server took the letter.                                                 *)
SendFails(w) ==
  /\ postman[w].at = "minted" /\ sends
  /\ \/ End(w, "failed", "failed") /\ UNCHANGED <<inbox, faultVars>>
     \/ Transient(w) /\ UNCHANGED <<inbox, faultVars>>
     \/ /\ (Transient(w) /\ UNCHANGED escaped) \/ Escapes(w)
        /\ Mailed(w)
        /\ Suffer("timeout") /\ unmarked' = unmarked \cup {Letter(w)} /\ UNCHANGED lost
  /\ UNCHANGED token

(* load_log, mark_failed, mark_attempt, build_mime, mark_suppressed, an    *)
(* error of transport.send that is no Mail...Error (nothing is sent then). *)
BodyRaises(w) ==
  /\ postman[w].at \in {"loaded", "minted"}
  /\ Escapes(w)
  /\ UNCHANGED <<linkVars, faults, lost, unmarked>>

(* mark_sent fails after the letter has gone out.                          *)
MarkRaises(w) ==
  /\ postman[w].at = "sent" /\ Suffer("error")
  /\ Escapes(w)
  /\ unmarked' = unmarked \cup {Letter(w)}
  /\ UNCHANGED <<linkVars, lost>>

(* The job's verdict; a retry is a new message.                            *)
Finish(w) ==
  /\ postman[w].at = "ended"
  /\ IF postman[w].verdict = "again"
     THEN due' = due \cup {Letter(w)} /\ UNCHANGED task
     ELSE task' = [task EXCEPT ![Letter(w)] = postman[w].verdict] /\ UNCHANGED due
  /\ postman' = [postman EXCEPT ![w] = NoPostman]
  /\ UNCHANGED <<sends, letter, recent, attempts, linkVars, userVars, faultVars, asking, raced>>

(* The worker dies and its message comes back, the message comes back      *)
(* while the worker goes on, or the message is gone with the body.         *)
MayBeUnmarked(w) == IF postman[w].at = "sent" THEN {Letter(w)} ELSE {}

Crash(w) ==
  /\ postman[w].at # "idle"
  /\ \/ Suffer("crash") /\ due' = due \cup {Letter(w)} /\ UNCHANGED lost
     \/ Suffer("abandon") /\ lost' = lost \cup {Letter(w)} /\ UNCHANGED due
  /\ unmarked' = unmarked \cup MayBeUnmarked(w)
  /\ postman' = [postman EXCEPT ![w] = NoPostman]
  /\ UNCHANGED <<sends, letter, recent, task, attempts, linkVars, userVars, escaped, asking, raced>>

Restore(w) ==
  /\ postman[w].at # "idle" /\ Suffer("restore")
  /\ due' = due \cup {Letter(w)}
  /\ unmarked' = unmarked \cup {Letter(w)}
  /\ UNCHANGED <<sends, letter, recent, task, attempts, linkVars, userVars, lost, escaped,
                 asking, postman, raced>>

(* JobService.retry                                                        *)
Retry(l) ==
  /\ task[l] = "failed" /\ Suffer("retry")
  /\ task' = [task EXCEPT ![l] = "active"]
  /\ attempts' = [attempts EXCEPT ![l] = 0]
  /\ due' = due \cup {l}
  /\ UNCHANGED <<sends, letter, recent, linkVars, userVars, lost, escaped, unmarked, asking,
                 postman, raced>>

-----------------------------------------------------------------------------
(* The link, the session, the account *)

(* Mutant: no FOR UPDATE.                                                  *)
OpenLinkUnlocked(b, t) ==
  /\ opening[b] = {} /\ t \in inbox
  /\ token[t] = "unused" /\ active
  /\ opening' = [opening EXCEPT ![b] = {t}]
  /\ UNCHANGED <<sends, rowVars, linkVars, active, sessions, switches, opened, overtaken,
                 faultVars, asking, postman, raced>>

(* exchange: TOKEN_SQL locks the token's row and reads the user.           *)
OpenLink(b, t) ==
  /\ opening[b] = {} /\ t \in inbox
  /\ \A c \in Browsers : t \notin opening[c]
  /\ token[t] = "unused" /\ active
  /\ opening' = [opening EXCEPT ![b] = {t}]
  /\ UNCHANGED <<sends, rowVars, linkVars, active, sessions, switches, opened, overtaken,
                 faultVars, asking, postman, raced>>

Enter(b, t) ==
  /\ t \in opening[b]
  /\ token' = [token EXCEPT ![t] = "spent"]
  /\ sessions' = sessions \cup {t}
  /\ opened' = [opened EXCEPT ![t] = @ + 1]
  /\ opening' = [opening EXCEPT ![b] = {}]
  /\ UNCHANGED <<sends, rowVars, inbox, active, switches, overtaken, faultVars, asking,
                 postman, raced>>

SignOut(t) ==
  /\ t \in sessions
  /\ sessions' = sessions \ {t}
  /\ UNCHANGED <<sends, rowVars, linkVars, active, opening, switches, opened, overtaken,
                 faultVars, asking, postman, raced>>

(* Mutant: the open sessions are left to expire.                           *)
SwitchOnly ==
  /\ switches < MaxSwitches
  /\ switches' = switches + 1
  /\ active' = ~active
  /\ overtaken' = (overtaken \/ \E b \in Browsers : opening[b] # {})
  /\ UNCHANGED <<sends, rowVars, linkVars, sessions, opening, opened, faultVars, asking, postman, raced>>

(* update_user with is_active, REVOKE_USER_SESSIONS_SQL                    *)
Switch ==
  /\ switches < MaxSwitches
  /\ switches' = switches + 1
  /\ active' = ~active
  /\ sessions' = IF active THEN {} ELSE sessions
  /\ overtaken' = (overtaken \/ \E b \in Browsers : opening[b] # {})
  /\ UNCHANGED <<sends, rowVars, linkVars, opening, opened, faultVars, asking, postman, raced>>

(* Time passes: the interval between links, a link's life.                 *)
Age(l) ==
  /\ l \in recent
  /\ recent' = recent \ {l}
  /\ UNCHANGED <<sends, letter, due, task, attempts, linkVars, userVars, faultVars, asking,
                 postman, raced>>

Lapse(t) ==
  /\ token[t] = "unused" /\ t[1] \notin recent
  /\ token' = [token EXCEPT ![t] = "spent"]
  /\ UNCHANGED <<sends, rowVars, inbox, userVars, faultVars, asking, postman, raced>>

MailNext ==
  \/ \E r \in Requests : \/ AskLink(r) \/ \E l \in Letters : WriteLetter(r, l)
                         \/ Enqueue(r) \/ Refuse(r) \/ QueueFailed(r) \/ RequestDies(r)
  \/ \E w \in Postmen : \/ \E l \in Letters : Start(w, l)
                        \/ Mint(w) \/ NoRecipient(w) \/ ResolveFails(w) \/ Suppress(w)
                        \/ Send(w) \/ MarkSent(w) \/ SendFails(w) \/ BodyRaises(w)
                        \/ MarkRaises(w) \/ Finish(w) \/ Crash(w) \/ Restore(w)
  \/ \E l \in Letters : Retry(l) \/ Age(l)
  \/ \E t \in Tokens : SignOut(t) \/ Lapse(t) \/ \E b \in Browsers : OpenLink(b, t) \/ Enter(b, t)
  \/ Switch

MailSpec == MailInit /\ [][MailNext]_mailVars

-----------------------------------------------------------------------------
(* Properties *)

(* Rows and processes have the shape schema and code give them; a busy     *)
(* process is about a letter.                                              *)
MailTypeOK ==
  /\ sends \in BOOLEAN /\ active \in BOOLEAN
  /\ letter \in [Letters -> {None, "queued", "sent", "failed", "suppressed"}]
  /\ task \in [Letters -> {None, "active", "failed", "done"}]
  /\ recent \cup due \cup lost \cup escaped \cup unmarked \subseteq Written
  /\ token \in [Tokens -> {None, "unused", "spent"}]
  /\ inbox \cup sessions \subseteq {t \in Tokens : token[t] # None}
  /\ \A w \in Postmen : postman[w].at # "idle" => Letter(w) \in Letters
  /\ \A b \in Browsers : opening[b] \subseteq Tokens

(* auth.py:8: a link is single-use.  It opens one session, however         *)
(* often and from wherever it is clicked.                                  *)
LinkOpensOnce == \A t \in Tokens : opened[t] <= 1

(* admin_config.py:22: deactivation leaves no session open, unless an      *)
(* exchange that had already read the account as active commits after it.  *)
InactiveHasNoSession == active \/ overtaken \/ sessions = {}

(* Both: whatever browsers and administrators do at once, a link signs in  *)
(* once and a session belongs to an active account.                        *)
SignInSafe == LinkOpensOnce /\ InactiveHasNoSession

(* auth.py: within the interval the user has one link at a time to click,  *)
(* unless two requests looked before either had written, or a fault made   *)
(* the log say less than was sent.                                         *)
OneLinkAtATime ==
  \/ raced \/ faults # {}
  \/ Cardinality({l \in recent : \E t \in inbox : t[1] = l /\ token[t] = "unused"}) <= 1

(* A letter goes out once, however often its job is delivered or retried,   *)
(* unless it may have gone out without the log knowing.                    *)
SentOnce ==
  \A l \in Letters \ unmarked : Cardinality({t \in inbox : t[1] = l}) <= 1

(* The log's "sent" is true, and nothing that went out is logged as not    *)
(* sent, except while its worker is about to write it.                     *)
LogTellsTruth ==
  \A l \in Letters :
    LET mailed == \E t \in inbox : t[1] = l
    IN  /\ letter[l] = "sent" => mailed
        /\ mailed => \/ letter[l] = "sent" \/ l \in unmarked
                     \/ \E w \in Postmen : Letter(w) = l /\ postman[w].at = "sent"

(* Both: sent once, as the log says.                                       *)
SentAsLogged == SentOnce /\ LogTellsTruth

(* The worker's error has ended the job, or is about to.                   *)
FailedUnmarked(l) ==
  /\ l \in escaped
  /\ \/ task[l] = "failed"
     \/ \E w \in Postmen : /\ Letter(w) = l /\ postman[w].at = "ended"
                           /\ postman[w].verdict = "failed"

(* jobs/tasks/email.py:210: a letter does not stay "queued" on the log     *)
(* when nobody will send it any more, unless a fault took its last carrier *)
(* or an error that no code marks the letter for failed its job; that job  *)
(* is then there, failed, to be retried, and never lost or taken for done. *)
NotForgotten ==
  \A l \in Letters : letter[l] = "queued" =>
    \/ l \in lost
    \/ l \in due /\ task[l] = "active"
    \/ \E w \in Postmen : Letter(w) = l /\ postman[w].at # "idle"
                          /\ (postman[w].at = "ended" => postman[w].verdict = "again")
    \/ \E r \in Requests : asking[r].about = l
    \/ FailedUnmarked(l)
=============================================================================
