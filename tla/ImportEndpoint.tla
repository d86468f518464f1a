---------------------------- MODULE ImportEndpoint ----------------------------
(***************************************************************************)
(* POST /admin/import as its caller sees it: the body limit in front of    *)
(* the route (app/core/limits.py), authorization, the two limiters and the *)
(* audit line (app/core/import_auth.py), and the upload under the import   *)
(* lock (app/api/routes/admin_import.py).  What a sync writes is           *)
(* ImportSync's subject; here it is a step that writes or fails.           *)
(*                                                                         *)
(* A handler runs to its first await without another one in between: from  *)
(* the limit to the lock is one step.  Everybody calls from one address,   *)
(* the publisher and whoever guesses keys.                                 *)
(***************************************************************************)
EXTENDS Integers

CONSTANTS
    Calls,         \* calls that may be under way at one time
    MaxBody,       \* IMPORT_MAX_BODY_BYTES, in chunks
    MaxImports,    \* IMPORT_RATE_LIMIT_MAX_REQUESTS
    MaxFailures    \* IMPORT_AUTH_FAILURE_RATE_LIMIT_MAX_REQUESTS

ASSUME EndpointAssumption == MaxBody \in Nat /\ MaxImports \in Nat /\ MaxFailures \in Nat

VARIABLES
    call,          \* the calls; one that has been answered stays until its slot is used again
    lock,          \* _import_running
    imports,       \* import_limiter's count in the address's current window
    failures,      \* import_auth_failure_limiter's
    keyed          \* calls with the right key since import_limiter's window began (history)

endpointVars == <<call, lock, imports, failures, keyed>>

(* How long the caller says the body is, in Content-Length; "none" for a   *)
(* chunked upload.  A server never delivers more than was declared.        *)
Lengths == {"none", "fits", "exceeds"}
DryParams == {"absent", "true", "false", "malformed"}

Request(key, length, dry) ==
    [pc |-> "idle", key |-> key, length |-> length, dry |-> dry, got |-> 0, wrote |-> FALSE,
     status |-> 0, outcome |-> "none"]
NoCall == Request(FALSE, "none", "absent")

(* _OUTCOME_BY_STATUS *)
OutcomeOf(status) ==
    CASE status = 401 -> "unauthorized" [] status = 409 -> "busy" [] status = 413 -> "too_large"
      [] status = 422 -> "bad_batch" [] status = 429 -> "rate_limited" [] status = 500 -> "error"

(* The call is answered; outcome is what its audit line says, "none" where *)
(* there is no line.                                                       *)
Answered(r, status, outcome) ==
    [pc |-> "done", key |-> r.key, length |-> r.length, dry |-> r.dry, got |-> r.got, wrote |-> r.wrote,
     status |-> status, outcome |-> outcome]
Refused(r, status) == Answered(r, status, OutcomeOf(status))

(* One check of a limiter with the count n: the count after it, which is   *)
(* only ever compared with the maximum.                                    *)
CountedTo(n, max) == IF n > max THEN n ELSE n + 1

-----------------------------------------------------------------------------
(* MaxBodySizeMiddleware: the declared length is over the path's limit.    *)
(* The route is not reached.                                               *)
RejectLength(c, r) ==
    /\ r.length = "exceeds"
    /\ call' = [call EXCEPT ![c] = Answered(r, 413, "none")]
    /\ UNCHANGED <<lock, imports, failures, keyed>>

RefuseUnauthorized(c, r) ==
    /\ r.length # "exceeds" /\ ~r.key
    /\ failures' = CountedTo(failures, MaxFailures)
    /\ call' = [call EXCEPT ![c] = Refused(r, IF failures' > MaxFailures THEN 429 ELSE 401)]
    /\ UNCHANGED <<lock, imports, keyed>>

(* The right key: counted by import_limiter, whatever becomes of it.       *)
Authorized(r) ==
    /\ r.length # "exceeds" /\ r.key
    /\ imports' = CountedTo(imports, MaxImports)
    /\ keyed' = CountedTo(keyed, MaxImports)
    /\ UNCHANGED failures

RefuseLimited(c, r) ==
    /\ Authorized(r) /\ imports' > MaxImports
    /\ call' = [call EXCEPT ![c] = Refused(r, 429)]
    /\ UNCHANGED lock

RefuseParams(c, r) ==
    /\ Authorized(r) /\ imports' <= MaxImports
    /\ r.dry = "malformed"
    /\ call' = [call EXCEPT ![c] = Refused(r, 422)]
    /\ UNCHANGED lock

RefuseBusy(c, r) ==
    /\ Authorized(r) /\ imports' <= MaxImports
    /\ r.dry # "malformed" /\ lock
    /\ call' = [call EXCEPT ![c] = Refused(r, 409)]
    /\ UNCHANGED lock

(* Mutant: the lock is only looked for once the body is there.             *)
AdmitAnyway(c, r) ==
    /\ Authorized(r) /\ imports' <= MaxImports
    /\ r.dry # "malformed"
    /\ lock' = TRUE
    /\ call' = [call EXCEPT ![c] = [r EXCEPT !.pc = "reading"]]

Admit(c, r) ==
    /\ Authorized(r) /\ imports' <= MaxImports
    /\ r.dry # "malformed" /\ ~lock
    /\ lock' = TRUE
    /\ call' = [call EXCEPT ![c] = [r EXCEPT !.pc = "reading"]]

Arrive(c) ==
    /\ call[c].pc \in {"idle", "done"}
    /\ \E key \in BOOLEAN, length \in Lengths, dry \in DryParams :
         LET r == Request(key, length, dry)
         IN  \/ RejectLength(c, r) \/ RefuseUnauthorized(c, r)
             \/ RefuseLimited(c, r) \/ RefuseParams(c, r) \/ RefuseBusy(c, r)
             \/ Admit(c, r)

-----------------------------------------------------------------------------
Advance(c, from, r) ==
    /\ call[c].pc = from
    /\ call' = [call EXCEPT ![c] = r]
    /\ UNCHANGED <<imports, failures, keyed>>

ReceiveChunk(c) ==
    /\ call[c].got < MaxBody
    /\ Advance(c, "reading", [call[c] EXCEPT !.got = @ + 1])
    /\ UNCHANGED lock

(* limited_receive raises ValueError out of request.stream().  The limit   *)
(* of _read_body itself is the same number and never the one that is hit.  *)
Overflow(c) ==
    /\ call[c].length = "none" /\ call[c].got = MaxBody
    /\ Advance(c, "reading", Refused([call[c] EXCEPT !.got = @ + 1], 500))
    /\ lock' = FALSE

(* ClientDisconnect *)
Disconnect(c) ==
    /\ Advance(c, "reading", Refused(call[c], 500))
    /\ lock' = FALSE

(* Not UTF-8, not JSON, or no records. *)
RefuseBatch(c) ==
    /\ Advance(c, "reading", Refused(call[c], 422))
    /\ lock' = FALSE

TakeBatch(c) ==
    /\ call[c].got > 0
    /\ Advance(c, "reading", [call[c] EXCEPT !.pc = "planning"])
    /\ UNCHANGED lock

(* Mutant: an import writes unless it is told not to. *)
IsDryRunIfAsked(r) == r.dry = "true"
(* _bool_param with its default *)
IsDryRun(r) == r.dry \in {"absent", "true"}

FinishDryRun(c) ==
    /\ IsDryRun(call[c])
    /\ Advance(c, "planning", Answered(call[c], 200, "dry_run"))
    /\ lock' = FALSE

StartApply(c) ==
    /\ ~IsDryRun(call[c])
    /\ Advance(c, "planning", [call[c] EXCEPT !.pc = "applying"])
    /\ UNCHANGED lock

(* A row is written, or marked missing. *)
Write(c) ==
    /\ Advance(c, "applying", [call[c] EXCEPT !.wrote = TRUE])
    /\ UNCHANGED lock

FinishApply(c) ==
    /\ Advance(c, "applying", Answered(call[c], 200, "applied"))
    /\ lock' = FALSE

(* Mutant: only the errors the route raises itself are logged. *)
SyncFailsSilently(c) ==
    /\ Advance(c, call[c].pc, Answered(call[c], 500, "none"))
    /\ call[c].pc \in {"planning", "applying"}
    /\ lock' = FALSE

(* A statement of the sync raises. *)
SyncFails(c) ==
    /\ Advance(c, call[c].pc, Refused(call[c], 500))
    /\ call[c].pc \in {"planning", "applying"}
    /\ lock' = FALSE

Handle(c) ==
    \/ ReceiveChunk(c) \/ Overflow(c) \/ Disconnect(c) \/ RefuseBatch(c) \/ TakeBatch(c)
    \/ FinishDryRun(c) \/ StartApply(c) \/ Write(c) \/ FinishApply(c) \/ SyncFails(c)

(* The window of a limiter runs out. *)
ImportWindowEnds == imports' = 0 /\ keyed' = 0 /\ UNCHANGED <<call, lock, failures>>
FailureWindowEnds == failures' = 0 /\ UNCHANGED <<call, lock, imports, keyed>>

EndpointInit ==
    /\ call = [c \in Calls |-> NoCall]
    /\ lock = FALSE
    /\ imports = 0 /\ failures = 0 /\ keyed = 0

(* The process starts again: lock and counts are its memory, and the calls *)
(* it was handling are gone without an answer.                             *)
ServerRestarts ==
    /\ call' = [c \in Calls |-> IF call[c].pc = "done" THEN call[c] ELSE NoCall]
    /\ lock' = FALSE
    /\ imports' = 0 /\ failures' = 0 /\ keyed' = 0

EndpointNext ==
    \/ \E c \in Calls : Arrive(c) \/ Handle(c)
    \/ ImportWindowEnds \/ FailureWindowEnds \/ ServerRestarts

EndpointSpec == EndpointInit /\ [][EndpointNext]_endpointVars

-----------------------------------------------------------------------------
Pcs == {"idle", "reading", "planning", "applying", "done"}
UnderLock == {"reading", "planning", "applying"}
Running == {c \in Calls : call[c].pc \in UnderLock}
Outcomes == {"none", "dry_run", "applied", "unauthorized", "busy", "too_large", "bad_batch",
             "rate_limited", "error"}

CallRecords ==
    [pc : Pcs, key : BOOLEAN, length : Lengths, dry : DryParams, got : 0 .. MaxBody + 1,
     wrote : BOOLEAN, status : {0, 200, 401, 409, 413, 422, 429, 500}, outcome : Outcomes]

EndpointTypeOK ==
    /\ call \in [Calls -> CallRecords]
    /\ lock \in BOOLEAN
    /\ imports \in 0 .. MaxImports + 1 /\ failures \in 0 .. MaxFailures + 1
    /\ keyed \in 0 .. MaxImports + 1

(* The audit line, once the call has one, is what happened: a call that    *)
(* wrote anything is "applied" or "error", even if it failed half-way, a   *)
(* refused one wrote nothing, and an answer without a line wrote nothing   *)
(* (import_auth.py:17-18).                                                 *)
AuditIsTrue ==
    \A c \in Calls :
        /\ call[c].pc = "done" /\ call[c].wrote => call[c].outcome \in {"applied", "error"}
        /\ call[c].pc = "done" /\ call[c].outcome = "none" => call[c].length = "exceeds"

(* Nothing is written for a caller without the key, without an explicit    *)
(* dry_run=false, or from a body over the limit.                           *)
WritesWereAsked ==
    \A c \in Calls : call[c].wrote =>
        call[c].key /\ call[c].dry = "false" /\ call[c].got <= MaxBody

(* "without letting a single request hold unbounded memory"                *)
(* (import_auth.py:47-49), nor several of them together: a body is only    *)
(* read under the lock, so there is one in memory, within the limit.       *)
OneBoundedBody ==
    /\ \A c \in Running : call[c].got <= MaxBody
    /\ \A c, d \in Running : c = d

(* "the real key is not locked out" by wrong-key attempts from the same    *)
(* address (README.md:465-466): its holder is refused for the rate only    *)
(* after as many calls of its own.                                         *)
LimitedByOwnCalls ==
    \A c \in Calls :
        call'[c] # call[c] /\ call'[c].status = 429 /\ call'[c].key => keyed >= MaxImports
KeyHolderIsNotLockedOut == [][LimitedByOwnCalls]_endpointVars

(* What a call has come to by the place it is at. *)
CallIsSound(r) ==
    /\ r \in CallRecords
    /\ r.pc \in UnderLock => r.key /\ r.got <= MaxBody /\ r.dry # "malformed"
    /\ r.pc = "applying" => r.dry = "false"
    /\ r.wrote => r.key /\ r.dry = "false" /\ r.got <= MaxBody /\ r.pc \in {"applying", "done"}
    /\ r.pc = "done" /\ r.wrote => r.outcome \in {"applied", "error"}
    /\ r.pc = "done" /\ r.outcome = "none" => r.length = "exceeds"
    /\ r.pc # "done" => r.outcome = "none" /\ r.status = 0

(* The inductive invariant: every call is sound, the lock says whether one *)
(* is under way, and the limiter has counted the holder's calls only.      *)
EndpointInv ==
    /\ EndpointTypeOK
    /\ \A c \in Calls : CallIsSound(call[c])
    /\ lock <=> Running # {}
    /\ \A c, d \in Running : c = d
    /\ keyed = imports
=============================================================================
