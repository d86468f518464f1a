---------------------------- MODULE VerifierInfo ----------------------------
(***************************************************************************)
(* What the board knows of the verification service                        *)
(* (app/core/verifier_info.py): two sections, each read from a public      *)
(* document by a background thread, shown at once from memory, and kept in *)
(* a database row so that a restart during an outage still has something.  *)
(*                                                                         *)
(* A section's data is the version of the document it was read from.       *)
(***************************************************************************)
EXTENDS Integers, FiniteSets

CONSTANTS
    Threads,       \* refresh threads that may exist at one time
    TTL,           \* TTL_SECONDS
    Backoff,       \* FAILURE_BACKOFF_SECONDS
    MaxVersion,    \* bound on the versions of a document
    MaxBoots       \* bound on restarts

ASSUME VerifierAssumption ==
    /\ Threads # {}
    /\ TTL \in Nat
    /\ Backoff \in Nat
    /\ MaxVersion \in Nat
    /\ MaxBoots \in Nat

VARIABLES
    published,     \* the version of each document the verifier serves; 0: none yet
    stored,        \* the verifier_info_cache row: versions, 0 where it has no section
    sections,      \* _sections
    loaded,        \* _loaded_from_db
    refreshing,    \* _refreshing
    sinceAttempt,  \* time.monotonic() - _last_attempt, counted up to MaxWait
    lastOk,        \* _last_attempt_ok
    thread,        \* the refresh threads
    boot,          \* how often the process has restarted
    loadFailed,    \* this process could not read the row (history)
    outcome        \* the last fetch of each section by this process (history)

processVars == <<sections, loaded, refreshing, sinceAttempt, lastOk, thread, loadFailed, outcome>>
verifierVars == <<published, stored, processVars, boot>>

Names == {"payment", "free_path"}
Versions == 0 .. MaxVersion
NeverAttempted == -1
MaxWait == TTL + Backoff   \* nothing is compared with a longer wait
Absent == [data |-> 0, live |-> FALSE]
Present(n) == sections[n].data # 0

Idle == [pc |-> "idle", ok |-> TRUE]
Beginning == [pc |-> "load", ok |-> TRUE]
Active(t) == thread[t].pc # "idle"
Moves(t, from, to) == thread[t].pc = from /\ thread' = [thread EXCEPT ![t].pc = to]
After(n) == IF n = "payment" THEN "free_path" ELSE "save"

-----------------------------------------------------------------------------
(* The verifier publishes a new version of a document. *)
Publish(n) ==
    /\ published[n] < MaxVersion
    /\ published' = [published EXCEPT ![n] = @ + 1]
    /\ UNCHANGED <<stored, processVars, boot>>

VerifierTick ==
    /\ sinceAttempt' = IF sinceAttempt = NeverAttempted \/ sinceAttempt = MaxWait
                       THEN sinceAttempt ELSE sinceAttempt + 1
    /\ UNCHANGED <<published, stored, sections, loaded, refreshing, lastOk, thread, boot, loadFailed, outcome>>

(* _refresh_due *)
RefreshDue ==
    \/ sinceAttempt = NeverAttempted
    \/ sinceAttempt >= IF lastOk THEN TTL ELSE Backoff

(* Mutant: the running refresh is not looked at.                           *)
SnapshotStartsAlways(t) ==
    /\ RefreshDue
    /\ ~Active(t)
    /\ refreshing' = TRUE
    /\ thread' = [thread EXCEPT ![t] = IF loaded THEN [Beginning EXCEPT !.pc = "payment"] ELSE Beginning]
    /\ UNCHANGED <<published, stored, sections, loaded, sinceAttempt, lastOk, boot, loadFailed, outcome>>

(* snapshot: a due refresh is started, by one caller, and not waited for.  *)
SnapshotStarts(t) ==
    /\ ~refreshing /\ RefreshDue
    /\ ~Active(t)
    /\ refreshing' = TRUE
    /\ thread' = [thread EXCEPT ![t] = IF loaded THEN [Beginning EXCEPT !.pc = "payment"] ELSE Beginning]
    /\ UNCHANGED <<published, stored, sections, loaded, sinceAttempt, lastOk, boot, loadFailed, outcome>>

(* Mutant: what the row says counts as confirmed.                          *)
LoadedSectionsLive ==
    [n \in Names |-> IF ~Present(n) /\ stored[n] # 0 THEN [data |-> stored[n], live |-> TRUE] ELSE sections[n]]

(* _load_from_db: the row's sections, not live, under those already known. *)
LoadedSections ==
    [n \in Names |-> IF ~Present(n) /\ stored[n] # 0 THEN [data |-> stored[n], live |-> FALSE] ELSE sections[n]]

Load(t) ==
    /\ Moves(t, "load", "payment")
    /\ loaded' = TRUE
    /\ sections' = LoadedSections
    /\ UNCHANGED <<published, stored, refreshing, sinceAttempt, lastOk, boot, loadFailed, outcome>>

(* The row cannot be read: the process goes on and never tries again.      *)
LoadFails(t) ==
    /\ Moves(t, "load", "payment")
    /\ loaded' = TRUE
    /\ loadFailed' = TRUE
    /\ UNCHANGED <<published, stored, sections, refreshing, sinceAttempt, lastOk, boot, outcome>>

(* One document fetched and parsed. *)
Fetch(t, n) ==
    /\ published[n] # 0
    /\ Moves(t, n, After(n))
    /\ sections' = [sections EXCEPT ![n] = [data |-> published[n], live |-> TRUE]]
    /\ outcome' = [outcome EXCEPT ![n] = "ok"]
    /\ UNCHANGED <<published, stored, loaded, refreshing, sinceAttempt, lastOk, boot, loadFailed>>

(* Mutant: an outage drops what was known.                                 *)
FetchFailsForgetting(t, n) ==
    /\ thread[t].pc = n
    /\ thread' = [thread EXCEPT ![t] = [pc |-> After(n), ok |-> FALSE]]
    /\ sections' = [sections EXCEPT ![n] = Absent]
    /\ outcome' = [outcome EXCEPT ![n] = "failed"]
    /\ UNCHANGED <<published, stored, loaded, refreshing, sinceAttempt, lastOk, boot, loadFailed>>

(* Unreachable, an error status, not JSON, or not the expected shape. *)
FetchFails(t, n) ==
    /\ thread[t].pc = n
    /\ thread' = [thread EXCEPT ![t] = [pc |-> After(n), ok |-> FALSE]]
    /\ sections' = [sections EXCEPT ![n].live = FALSE]
    /\ outcome' = [outcome EXCEPT ![n] = "failed"]
    /\ UNCHANGED <<published, stored, loaded, refreshing, sinceAttempt, lastOk, boot, loadFailed>>

WorthSaving(t) == thread[t].ok \/ \E n \in Names : sections[n].live

(* Mutant: only the confirmed sections are stored.                         *)
SavedLive == [n \in Names |-> IF sections[n].live THEN sections[n].data ELSE 0]

(* _save_to_db: the whole row is replaced by what this process knows.      *)
Saved == [n \in Names |-> sections[n].data]

Save(t) ==
    /\ WorthSaving(t)
    /\ Moves(t, "save", "finish")
    /\ stored' = Saved
    /\ UNCHANGED <<published, sections, loaded, refreshing, sinceAttempt, lastOk, boot, loadFailed, outcome>>

(* There is nothing to save, or the row cannot be written. *)
SkipSave(t) ==
    /\ Moves(t, "save", "finish")
    /\ UNCHANGED <<published, stored, sections, loaded, refreshing, sinceAttempt, lastOk, boot,
                   loadFailed, outcome>>

FinishRefresh(t) ==
    /\ thread[t].pc = "finish"
    /\ thread' = [thread EXCEPT ![t] = Idle]
    /\ sinceAttempt' = 0
    /\ lastOk' = thread[t].ok
    /\ refreshing' = FALSE
    /\ UNCHANGED <<published, stored, sections, loaded, boot, loadFailed, outcome>>

(* Mutant: the handler of a crashed refresh logs and forgets the flag.     *)
RefreshCrashesSilently(t) ==
    /\ Active(t)
    /\ thread' = [thread EXCEPT ![t] = Idle]
    /\ UNCHANGED <<published, stored, sections, loaded, refreshing, sinceAttempt, lastOk, boot,
                   loadFailed, outcome>>

(* _refresh_in_background: an exception escapes refresh(). *)
RefreshCrashes(t) ==
    /\ Active(t)
    /\ thread' = [thread EXCEPT ![t] = Idle]
    /\ refreshing' = FALSE
    /\ UNCHANGED <<published, stored, sections, loaded, sinceAttempt, lastOk, boot, loadFailed, outcome>>

Alone(t) == [u \in Threads |-> IF u = t THEN Beginning ELSE Idle]

(* A process starts with nothing in memory; start() begins a refresh. *)
ProcessRestarts ==
    /\ boot < MaxBoots
    /\ boot' = boot + 1
    /\ sections' = [n \in Names |-> Absent]
    /\ loaded' = FALSE /\ loadFailed' = FALSE
    /\ refreshing' = TRUE /\ \E t \in Threads : thread' = Alone(t)
    /\ sinceAttempt' = NeverAttempted /\ lastOk' = TRUE
    /\ outcome' = [n \in Names |-> "none"]
    /\ UNCHANGED <<published, stored>>

RefreshStep(t) ==
    \/ Load(t)
    \/ LoadFails(t)
    \/ \E n \in Names : Fetch(t, n) \/ FetchFails(t, n)
    \/ Save(t)
    \/ SkipSave(t)
    \/ FinishRefresh(t)
    \/ RefreshCrashes(t)

(* The process as it is imported, before start(). *)
BeforeStart ==
    /\ published = [n \in Names |-> 0]
    /\ stored = [n \in Names |-> 0]
    /\ boot = 0
    /\ sections = [n \in Names |-> Absent]
    /\ loaded = FALSE /\ loadFailed = FALSE
    /\ sinceAttempt = NeverAttempted /\ lastOk = TRUE
    /\ outcome = [n \in Names |-> "none"]

VerifierInit == BeforeStart /\ refreshing = TRUE /\ \E t \in Threads : thread = Alone(t)

VerifierNext ==
    \/ \E n \in Names : Publish(n)
    \/ VerifierTick
    \/ \E t \in Threads : SnapshotStarts(t) \/ RefreshStep(t)
    \/ ProcessRestarts

VerifierSpec == VerifierInit /\ [][VerifierNext]_verifierVars

(* A running refresh takes its next step: each fetch and each statement    *)
(* has a timeout.                                                          *)
VerifierFairSpec == VerifierSpec /\ \A t \in Threads : WF_verifierVars(RefreshStep(t))

-----------------------------------------------------------------------------
Outcomes == {"none", "ok", "failed"}
Pcs == {"idle", "load", "payment", "free_path", "save", "finish"}

VerifierTypeOK ==
    /\ published \in [Names -> Versions]
    /\ stored \in [Names -> Versions]
    /\ sections \in [Names -> [data : Versions, live : BOOLEAN]]
    /\ loaded \in BOOLEAN /\ refreshing \in BOOLEAN /\ lastOk \in BOOLEAN /\ loadFailed \in BOOLEAN
    /\ sinceAttempt \in 0 .. MaxWait \cup {NeverAttempted}
    /\ thread \in [Threads -> [pc : Pcs, ok : BOOLEAN]]
    /\ boot \in 0 .. MaxBoots
    /\ outcome \in [Names -> Outcomes]

(* The status a listing's next_actions show: snapshot()["status"]. *)
Status ==
    IF \A n \in Names : ~Present(n) THEN "unavailable"
    ELSE IF \E n \in Names : ~Present(n) THEN "partial"
    ELSE IF \A n \in Names : sections[n].live THEN "live"
    ELSE "last_known"

(* Never two refreshes at a time, and the flag says exactly whether there  *)
(* is one, through crashes of the thread and overlapping snapshots.        *)
OneRefresher ==
    /\ refreshing <=> \E t \in Threads : Active(t)
    /\ \A t, u \in Threads : Active(t) /\ Active(u) => t = u

(* "live" is shown only for what this process itself fetched, with no      *)
(* failure since (verifier_info.py:18-19); what a process before it stored *)
(* is never passed off as confirmed.                                       *)
LiveIsConfirmed ==
    /\ Status = "live" => \A n \in Names : outcome[n] = "ok"
    /\ \A n \in Names : outcome[n] = "ok" => sections[n].live

(* Within one process what is known stays known through every outage, and  *)
(* is never replaced by an older version.                                  *)
LastKnownKept == boot' = boot => \A n \in Names : sections'[n].data >= sections[n].data
LastKnownIsKept == [][LastKnownKept]_verifierVars

(* The stored copy never loses a section or goes back to an older one,     *)
(* across restarts and outages, except by a process that could not read it *)
(* when it started.                                                        *)
StoredKeptIfLoaded == loadFailed \/ \A n \in Names : stored'[n] >= stored[n]
StoredIsKeptIfLoaded == [][StoredKeptIfLoaded]_verifierVars

(* "Last-known values are kept across failures AND across restarts"        *)
(* (verifier_info.py:17-18).                                               *)
StoredKept == \A n \in Names : stored[n] # 0 => stored'[n] # 0
StoredIsKept == [][StoredKept]_verifierVars

(* A refresh ends, whatever fails, so a later one can be started. *)
RefreshEnds == refreshing ~> ~refreshing

(* What StoredIsKeptIfLoaded rests on: once the process has read the row,  *)
(* its memory is at least as new as the row, and neither is newer than     *)
(* what was published.                                                     *)
MemoryCoversRow ==
    /\ VerifierTypeOK
    /\ \A n \in Names : stored[n] <= published[n] /\ sections[n].data <= published[n]
    /\ ~loaded => /\ \A n \in Names : ~Present(n)
                  /\ \A t \in Threads : thread[t].pc \in {"idle", "load"}
    /\ loaded => \A t \in Threads : thread[t].pc # "load"
    /\ loaded /\ ~loadFailed => \A n \in Names : stored[n] <= sections[n].data
=============================================================================
