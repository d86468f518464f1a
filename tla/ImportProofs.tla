----------------------------- MODULE ImportProofs -----------------------------
(***************************************************************************)
(* Proofs about imports, for every value of the constants: the calls of    *)
(* the import endpoint, the sync of one batch (ImportPlan), the template   *)
(* links and their repair.                                                 *)
(***************************************************************************)
EXTENDS ImportPlan, ImportEndpoint, TemplateRepair, FiniteSums

(* The import endpoint. *)

(* How a record of a call may change and stay sound. *)
LEMMA RequestIsSound ==
    ASSUME NEW key \in BOOLEAN, NEW length \in Lengths, NEW dry \in DryParams
    PROVE  LET r == Request(key, length, dry)
           IN  /\ CallIsSound(r)
               /\ r.pc = "idle" /\ r.key = key /\ r.length = length /\ r.dry = dry /\ ~r.wrote
               /\ r.got = 0 /\ r.outcome = "none"
<1>1. 0 \in 0 .. MaxBody + 1
  BY EndpointAssumption
<1>2. Request(key, length, dry) \in CallRecords
  BY <1>1 DEF Request, CallRecords, Pcs, Outcomes
<1>3. QED
  BY <1>2 DEF Request, CallIsSound, UnderLock

LEMMA NoCallIsSound == CallIsSound(NoCall) /\ NoCall.pc = "idle"
  BY RequestIsSound DEF NoCall, Lengths, DryParams

(* The end of a call that is not over: one line, and the outcome in it. *)
LEMMA AnsweredIsSound ==
    ASSUME NEW r, CallIsSound(r), r.pc # "done", NEW status \in {200, 401, 409, 413, 422, 429, 500},
           NEW outcome \in Outcomes, r.wrote => outcome \in {"applied", "error"},
           outcome = "none" => r.length = "exceeds"
    PROVE  CallIsSound(Answered(r, status, outcome)) /\ Answered(r, status, outcome).pc = "done"
<1> DEFINE q == Answered(r, status, outcome)
<1>1. r \in CallRecords
  BY DEF CallIsSound
<1>2. q \in CallRecords
  BY <1>1 DEF Answered, CallRecords, Pcs
<1>3. QED
  BY <1>2 DEF Answered, CallIsSound, UnderLock

(* A call that has not been answered and wrote nothing may be refused. *)
LEMMA RefusedIsSound ==
    ASSUME NEW r, CallIsSound(r), r.pc # "done", NEW status \in {401, 409, 422, 429, 500},
           r.wrote => status = 500
    PROVE  CallIsSound(Refused(r, status)) /\ Refused(r, status).pc = "done"
<1>1. /\ OutcomeOf(401) = "unauthorized" /\ OutcomeOf(409) = "busy" /\ OutcomeOf(422) = "bad_batch"
      /\ OutcomeOf(429) = "rate_limited" /\ OutcomeOf(500) = "error"
  BY SMTT(30) DEF OutcomeOf
<1>2. /\ OutcomeOf(status) \in Outcomes \ {"none"}
      /\ r.wrote => OutcomeOf(status) \in {"applied", "error"}
  BY <1>1 DEF Outcomes
<1>3. QED
  BY <1>2, AnsweredIsSound DEF Refused

(* A body over the limit ends the call whatever was read of it. *)
LEMMA OverfullIsSound ==
    ASSUME NEW r, r \in CallRecords, ~r.wrote
    PROVE  CallIsSound(Refused(r, 500)) /\ Refused(r, 500).pc = "done"
<1>1. OutcomeOf(500) = "error"
  BY SMTT(30) DEF OutcomeOf
<1>2. Answered(r, 500, "error") \in CallRecords
  BY DEF Answered, CallRecords, Pcs, Outcomes
<1>3. QED
  BY <1>1, <1>2 DEF Refused, Answered, CallIsSound, UnderLock

(* A step that replaces one call's record by a sound one and keeps the     *)
(* lock in step with it keeps the invariant.                               *)
LEMMA OneCallMoves ==
    ASSUME EndpointInv, NEW c \in Calls, NEW r, CallIsSound(r),
           call' = [call EXCEPT ![c] = r],
           imports' \in 0 .. MaxImports + 1, failures' \in 0 .. MaxFailures + 1, keyed' = imports',
           \/ r.pc \in UnderLock /\ call[c].pc \in UnderLock /\ lock' = lock
           \/ r.pc \in UnderLock /\ ~lock /\ lock' = TRUE
           \/ r.pc \notin UnderLock /\ call[c].pc \in UnderLock /\ lock' = FALSE
           \/ r.pc \notin UnderLock /\ call[c].pc \notin UnderLock /\ lock' = lock
    PROVE  EndpointInv'
<1>1. /\ call'[c] = r /\ \A d \in Calls : d # c => call'[d] = call[d]
      /\ call' \in [Calls -> CallRecords]
  BY DEF EndpointInv, EndpointTypeOK, CallIsSound
<1>2. \A d \in Calls : CallIsSound(call'[d])
  BY <1>1 DEF EndpointInv
<1>3. Running' = {d \in Calls : call'[d].pc \in UnderLock}
  BY DEF Running
<1>4. /\ r.pc \in UnderLock => Running' = Running \cup {c}
      /\ r.pc \notin UnderLock => Running' = Running \ {c}
  BY <1>1, <1>3 DEF Running
<1>5. /\ c \in Running <=> call[c].pc \in UnderLock
      /\ c \in Running => Running = {c}
      /\ ~lock => Running = {}
  BY DEF Running, EndpointInv
<1>6. /\ lock' <=> Running' # {}
      /\ \A d, e \in Running' : d = e
  BY <1>4, <1>5 DEF EndpointInv
<1>7. EndpointTypeOK'
  BY <1>1 DEF EndpointInv, EndpointTypeOK
<1>8. QED
  BY <1>2, <1>6, <1>7 DEF EndpointInv

LEMMA EndpointInvInit == EndpointInit => EndpointInv
<1> SUFFICES ASSUME EndpointInit PROVE EndpointInv
  OBVIOUS
<1>1. \A c \in Calls : call[c] = NoCall
  BY DEF EndpointInit
<1>2. Running = {}
  BY <1>1, NoCallIsSound DEF Running, UnderLock
<1>3. EndpointTypeOK
  <2>1. call \in [Calls -> CallRecords]
    BY NoCallIsSound DEF EndpointInit, CallIsSound
  <2>2. 0 \in 0 .. MaxImports + 1 /\ 0 \in 0 .. MaxFailures + 1
    BY EndpointAssumption
  <2>3. QED
    BY <2>1, <2>2 DEF EndpointInit, EndpointTypeOK
<1>4. QED
  BY <1>1, <1>2, <1>3, NoCallIsSound DEF EndpointInv, EndpointInit

LEMMA CountsStayTyped ==
    ASSUME NEW max \in Nat, NEW n \in 0 .. max + 1
    PROVE  CountedTo(n, max) \in 0 .. max + 1
  BY DEF CountedTo

LEMMA ArriveStep ==
    ASSUME EndpointInv, NEW c \in Calls, Arrive(c)
    PROVE  EndpointInv'
<1>1. PICK key \in BOOLEAN, length \in Lengths, dry \in DryParams :
        LET r == Request(key, length, dry)
        IN  \/ RejectLength(c, r) \/ RefuseUnauthorized(c, r)
            \/ RefuseLimited(c, r) \/ RefuseParams(c, r) \/ RefuseBusy(c, r)
            \/ Admit(c, r)
  BY DEF Arrive
<1> DEFINE r == Request(key, length, dry)
<1>2. /\ CallIsSound(r) /\ r.pc = "idle" /\ ~r.wrote /\ r.got = 0 /\ r.outcome = "none"
  BY RequestIsSound
<1>3. call[c].pc \notin UnderLock
  BY DEF Arrive, UnderLock
<1>4. /\ imports \in 0 .. MaxImports + 1 /\ failures \in 0 .. MaxFailures + 1 /\ keyed = imports
      /\ CountedTo(imports, MaxImports) \in 0 .. MaxImports + 1
      /\ CountedTo(failures, MaxFailures) \in 0 .. MaxFailures + 1
  BY CountsStayTyped, EndpointAssumption DEF EndpointInv, EndpointTypeOK
<1> HIDE DEF r
<1>5. \A status \in {401, 409, 422, 429, 500} :
        CallIsSound(Refused(r, status)) /\ Refused(r, status).pc \notin UnderLock
  BY <1>2, RefusedIsSound DEF UnderLock
<1>6. CASE RejectLength(c, r)
  <2>1. CallIsSound(Answered(r, 413, "none")) /\ Answered(r, 413, "none").pc = "done"
    BY <1>2, <1>6, AnsweredIsSound DEF RejectLength, Outcomes
  <2>2. Answered(r, 413, "none").pc \notin UnderLock
    BY <2>1 DEF UnderLock
  <2>3. /\ call' = [call EXCEPT ![c] = Answered(r, 413, "none")]
        /\ imports' = imports /\ keyed' = keyed /\ failures' = failures /\ lock' = lock
    BY <1>6 DEF RejectLength
  <2>4. QED
    BY <1>3, <1>4, <2>1, <2>2, <2>3, OneCallMoves
<1>7. CASE RefuseUnauthorized(c, r)
  <2> DEFINE status == IF failures' > MaxFailures THEN 429 ELSE 401
  <2>0. status \in {401, 409, 422, 429, 500}
    OBVIOUS
  <2>1. call' = [call EXCEPT ![c] = Refused(r, status)]
    BY <1>7 DEF RefuseUnauthorized
  <2> HIDE DEF status
  <2>2. CallIsSound(Refused(r, status)) /\ Refused(r, status).pc \notin UnderLock
    BY <1>5, <2>0
  <2>3. imports' = imports /\ keyed' = keyed /\ lock' = lock /\ failures' \in 0 .. MaxFailures + 1
    BY <1>4, <1>7 DEF RefuseUnauthorized
  <2>4. QED
    BY <1>3, <1>4, <2>1, <2>2, <2>3, OneCallMoves
<1>8. CASE RefuseLimited(c, r) \/ RefuseParams(c, r) \/ RefuseBusy(c, r)
  <2>1. PICK status \in {409, 422, 429} : call' = [call EXCEPT ![c] = Refused(r, status)]
    BY <1>8 DEF RefuseLimited, RefuseParams, RefuseBusy
  <2>2. /\ imports' \in 0 .. MaxImports + 1 /\ keyed' = imports' /\ failures' = failures /\ lock' = lock
    BY <1>4, <1>8 DEF RefuseLimited, RefuseParams, RefuseBusy, Authorized
  <2>3. CallIsSound(Refused(r, status)) /\ Refused(r, status).pc \notin UnderLock
    BY <1>5
  <2>4. QED
    BY <1>3, <1>4, <2>1, <2>2, <2>3, OneCallMoves
<1>9. CASE Admit(c, r)
  <2> DEFINE q == [r EXCEPT !.pc = "reading"]
  <2>1. CallIsSound(q) /\ q.pc \in UnderLock
    BY <1>2, <1>9, EndpointAssumption DEF Admit, Authorized, CallIsSound, CallRecords, Pcs, UnderLock
  <2>2. /\ imports' \in 0 .. MaxImports + 1 /\ keyed' = imports' /\ failures' = failures
        /\ ~lock /\ lock' = TRUE /\ call' = [call EXCEPT ![c] = q]
    BY <1>4, <1>9 DEF Admit, Authorized
  <2>3. QED
    BY <1>4, <2>1, <2>2, OneCallMoves
<1>10. QED
  BY <1>1, <1>6, <1>7, <1>8, <1>9 DEF r

(* The steps of a call under the lock; the limiters are not touched. *)
LEMMA HandleStep ==
    ASSUME EndpointInv, NEW c \in Calls, Handle(c)
    PROVE  EndpointInv'
<1> DEFINE r == call[c]
<1>1. CallIsSound(r) /\ r \in CallRecords
  BY DEF EndpointInv, CallIsSound
<1>2. /\ imports' \in 0 .. MaxImports + 1 /\ failures' \in 0 .. MaxFailures + 1 /\ keyed' = imports'
      /\ call[c].pc \in UnderLock
  BY DEF Handle, EndpointInv, EndpointTypeOK, Advance, UnderLock, ReceiveChunk, Overflow, Disconnect,
         RefuseBatch, TakeBatch, FinishDryRun, StartApply, Write, FinishApply, SyncFails
<1>3. ASSUME NEW q, CallIsSound(q), call' = [call EXCEPT ![c] = q],
             \/ q.pc \in UnderLock /\ lock' = lock
             \/ q.pc \notin UnderLock /\ lock' = FALSE
      PROVE  EndpointInv'
  BY <1>2, <1>3, OneCallMoves
<1>4. CASE ReceiveChunk(c)
  <2>1. r.got < MaxBody /\ r.got \in Nat /\ MaxBody \in Nat /\ r.got + 1 \in 0 .. MaxBody + 1
    BY <1>1, <1>4, EndpointAssumption DEF ReceiveChunk, CallRecords
  <2>2. CallIsSound([r EXCEPT !.got = @ + 1]) /\ [r EXCEPT !.got = @ + 1].pc = "reading"
    BY <1>1, <1>4, <2>1 DEF ReceiveChunk, Advance, CallIsSound, CallRecords, UnderLock
  <2>3. QED
    BY <1>3, <1>4, <2>2 DEF ReceiveChunk, Advance, UnderLock
<1>5. CASE Overflow(c)
  <2> DEFINE q == [r EXCEPT !.got = @ + 1]
  <2>1. r.got = MaxBody /\ r.pc = "reading" /\ MaxBody + 1 \in 0 .. MaxBody + 1
    BY <1>5, EndpointAssumption DEF Overflow, Advance
  <2>2. q \in CallRecords /\ q.pc = "reading" /\ ~q.wrote
    <3>1. ~r.wrote
      BY <1>1, <2>1 DEF CallIsSound
    <3>2. r.got + 1 \in 0 .. MaxBody + 1
      BY <2>1
    <3>3. q \in CallRecords
      BY <1>1, <3>2 DEF CallRecords
    <3>4. q.pc = r.pc /\ q.wrote = r.wrote
      BY <1>1 DEF CallRecords
    <3> QED
      BY <2>1, <3>1, <3>3, <3>4
  <2>3. Advance(c, "reading", Refused(q, 500)) /\ lock' = FALSE
    BY <1>5 DEF Overflow
  <2> HIDE DEF q
  <2>4. call' = [call EXCEPT ![c] = Refused(q, 500)]
    BY <2>3 DEF Advance
  <2>5. CallIsSound(Refused(q, 500)) /\ Refused(q, 500).pc = "done"
    BY <2>2, OverfullIsSound
  <2>6. Refused(q, 500).pc \notin UnderLock
    BY <2>5 DEF UnderLock
  <2> QED
    BY <1>3, <2>3, <2>4, <2>5, <2>6
<1>6. CASE Disconnect(c) \/ RefuseBatch(c) \/ SyncFails(c)
  <2>1. PICK status \in {422, 500} :
          call' = [call EXCEPT ![c] = Refused(r, status)] /\ (r.pc = "reading" \/ status = 500)
    BY <1>6 DEF Disconnect, RefuseBatch, SyncFails, Advance
  <2>2. r.pc # "done" /\ lock' = FALSE
    BY <1>6 DEF Disconnect, RefuseBatch, SyncFails, Advance
  <2>3. CallIsSound(Refused(r, status)) /\ Refused(r, status).pc = "done"
    BY <1>1, <2>1, <2>2, RefusedIsSound DEF CallIsSound
  <2> DEFINE q == Refused(r, status)
  <2>4. CallIsSound(q) /\ call' = [call EXCEPT ![c] = q] /\ lock' = FALSE
    BY <2>1, <2>2, <2>3
  <2>5. q.pc \notin UnderLock
    BY <2>3 DEF UnderLock
  <2> HIDE DEF q
  <2> QED
    BY <1>3, <2>4, <2>5
<1>7. CASE TakeBatch(c)
  <2>1. CallIsSound([r EXCEPT !.pc = "planning"]) /\ [r EXCEPT !.pc = "planning"].pc = "planning"
    BY <1>1, <1>7 DEF TakeBatch, Advance, CallIsSound, CallRecords, UnderLock, Pcs
  <2>2. QED
    BY <1>3, <1>7, <2>1 DEF TakeBatch, Advance, UnderLock
<1>8. CASE FinishDryRun(c)
  <2>1. r.pc = "planning" /\ ~r.wrote /\ lock' = FALSE /\ call' = [call EXCEPT ![c] = Answered(r, 200, "dry_run")]
    BY <1>1, <1>8 DEF FinishDryRun, Advance, CallIsSound
  <2>2. CallIsSound(Answered(r, 200, "dry_run")) /\ Answered(r, 200, "dry_run").pc = "done"
    BY <1>1, <2>1, AnsweredIsSound DEF Outcomes
  <2>3. QED
    BY <1>3, <2>1, <2>2 DEF UnderLock
<1>9. CASE StartApply(c)
  <2>1. r.pc = "planning" /\ r.dry = "false"
    BY <1>1, <1>9 DEF StartApply, Advance, IsDryRun, CallIsSound, CallRecords, DryParams, UnderLock
  <2>2. CallIsSound([r EXCEPT !.pc = "applying"]) /\ [r EXCEPT !.pc = "applying"].pc = "applying"
    BY <1>1, <2>1 DEF CallIsSound, CallRecords, UnderLock, Pcs
  <2>3. call' = [call EXCEPT ![c] = [r EXCEPT !.pc = "applying"]] /\ lock' = lock
    BY <1>9 DEF StartApply, Advance
  <2>4. "applying" \in UnderLock
    BY DEF UnderLock
  <2> QED
    BY <1>3, <2>2, <2>3, <2>4
<1>10. CASE Write(c)
  <2>1. r.pc = "applying"
    BY <1>10 DEF Write, Advance
  <2>2. r.key /\ r.dry = "false" /\ r.got <= MaxBody /\ r.outcome = "none" /\ r.status = 0
    BY <1>1, <2>1 DEF CallIsSound, UnderLock
  <2>3. [r EXCEPT !.wrote = TRUE] \in CallRecords /\ [r EXCEPT !.wrote = TRUE].pc = "applying"
    <3>1. \A x \in CallRecords, b \in BOOLEAN : [x EXCEPT !.wrote = b] \in CallRecords
      BY DEF CallRecords
    <3>2. \A x \in CallRecords : [x EXCEPT !.wrote = TRUE].pc = x.pc
      BY DEF CallRecords
    <3> QED
      BY <1>1, <2>1, <3>1, <3>2
  <2>4. CallIsSound([r EXCEPT !.wrote = TRUE])
    <3> DEFINE q == [r EXCEPT !.wrote = TRUE]
    <3>1. q.key = r.key /\ q.dry = r.dry /\ q.got = r.got /\ q.outcome = r.outcome /\ q.status = r.status
      BY <1>1 DEF CallRecords
    <3> HIDE DEF q
    <3>2. QED
      BY <2>2, <2>3, <3>1 DEF CallIsSound, UnderLock, q
  <2>5. QED
    BY <1>3, <1>10, <2>3, <2>4 DEF Write, Advance, UnderLock
<1>11. CASE FinishApply(c)
  <2>1. r.pc = "applying" /\ lock' = FALSE /\ call' = [call EXCEPT ![c] = Answered(r, 200, "applied")]
    BY <1>11 DEF FinishApply, Advance
  <2>2. CallIsSound(Answered(r, 200, "applied")) /\ Answered(r, 200, "applied").pc = "done"
    BY <1>1, <2>1, AnsweredIsSound DEF Outcomes
  <2>3. QED
    BY <1>3, <2>1, <2>2 DEF UnderLock
<1>12. QED
  BY <1>4, <1>5, <1>6, <1>7, <1>8, <1>9, <1>10, <1>11 DEF Handle

LEMMA RestartStep ==
    ASSUME EndpointInv, ServerRestarts
    PROVE  EndpointInv'
<1>1. \A c \in Calls : (call'[c] = call[c] /\ call[c].pc = "done") \/ call'[c] = NoCall
  BY DEF ServerRestarts
<1>2. \A c \in Calls : CallIsSound(call'[c]) /\ call'[c].pc \notin UnderLock
  BY <1>1, NoCallIsSound DEF EndpointInv, UnderLock
<1>3. Running' = {}
  BY <1>2 DEF Running
<1>4. call' \in [Calls -> CallRecords]
  BY <1>2 DEF ServerRestarts, CallIsSound
<1>5. 0 \in 0 .. MaxImports + 1 /\ 0 \in 0 .. MaxFailures + 1
  BY EndpointAssumption
<1>6. EndpointTypeOK'
  BY <1>4, <1>5 DEF ServerRestarts, EndpointTypeOK
<1>7. QED
  BY <1>2, <1>3, <1>6 DEF ServerRestarts, EndpointInv

LEMMA EndpointInvStep == EndpointInv /\ [EndpointNext]_endpointVars => EndpointInv'
<1> SUFFICES ASSUME EndpointInv, [EndpointNext]_endpointVars
             PROVE  EndpointInv'
  OBVIOUS
<1>1. 0 \in 0 .. MaxImports + 1 /\ 0 \in 0 .. MaxFailures + 1
  BY EndpointAssumption
<1>2. CASE ImportWindowEnds \/ FailureWindowEnds \/ UNCHANGED endpointVars
  BY <1>1, <1>2 DEF ImportWindowEnds, FailureWindowEnds, endpointVars, EndpointInv, EndpointTypeOK, Running
<1>3. QED
  BY <1>2, ArriveStep, HandleStep, RestartStep DEF EndpointNext

(* What a call has come to fits where it is, and the lock says whether an  *)
(* import is under way.                                                    *)
THEOREM EndpointIsSound == EndpointSpec => []EndpointInv
  BY EndpointInvInit, EndpointInvStep, PTL DEF EndpointSpec

(* Only the key holder's explicit dry_run=false, with a body within the    *)
(* limit, ever writes.                                                     *)
THEOREM OnlyAskedWrites == EndpointSpec => []WritesWereAsked
<1>1. EndpointInv => WritesWereAsked
  BY DEF EndpointInv, CallIsSound, WritesWereAsked
<1>2. QED
  BY <1>1, EndpointIsSound, PTL

(* No audit line says anything else than what was done. *)
THEOREM AuditsAreTrue == EndpointSpec => []AuditIsTrue
<1>1. EndpointInv => AuditIsTrue
  BY DEF EndpointInv, CallIsSound, AuditIsTrue
<1>2. QED
  BY <1>1, EndpointIsSound, PTL

(* There is at most one body in memory, within the limit. *)
THEOREM NeverTwoBodies == EndpointSpec => []OneBoundedBody
<1>1. EndpointInv => OneBoundedBody
  BY DEF EndpointInv, CallIsSound, OneBoundedBody, Running
<1>2. QED
  BY <1>1, EndpointIsSound, PTL

(* The rate refuses the key holder only after as many calls of its own. *)
LEMMA LimitedStep == EndpointInv /\ [EndpointNext]_endpointVars => [LimitedByOwnCalls]_endpointVars
<1> SUFFICES ASSUME EndpointInv, EndpointNext, NEW c \in Calls,
                    call'[c] # call[c], call'[c].status = 429, call'[c].key
             PROVE  keyed >= MaxImports
  BY DEF LimitedByOwnCalls
<1>1. /\ call \in [Calls -> CallRecords] /\ imports \in 0 .. MaxImports + 1 /\ keyed = imports
      /\ \A d \in Calls : call[d].pc # "done" => call[d].status = 0
  BY DEF EndpointInv, EndpointTypeOK, CallIsSound
<1>2. ASSUME NEW d \in Calls, Arrive(d)
      PROVE  keyed >= MaxImports
  <2>1. PICK key \in BOOLEAN, length \in Lengths, dry \in DryParams :
          LET r == Request(key, length, dry)
          IN  \/ RejectLength(d, r) \/ RefuseUnauthorized(d, r)
              \/ RefuseLimited(d, r) \/ RefuseParams(d, r) \/ RefuseBusy(d, r)
              \/ Admit(d, r)
    BY <1>2 DEF Arrive
  <2> DEFINE r == Request(key, length, dry)
  <2>2. r.key = key /\ r.status = 0
    BY DEF Request
  <2> HIDE DEF r
  <2>3. CASE RefuseLimited(d, r)
    BY <1>1, <2>3, EndpointAssumption DEF RefuseLimited, Authorized, CountedTo
  <2>4. CASE RejectLength(d, r)
    BY <1>1, <2>4 DEF RejectLength, Answered
  <2>5. CASE RefuseUnauthorized(d, r)
    BY <1>1, <2>5 DEF RefuseUnauthorized, Refused, Answered
  <2>6. CASE RefuseParams(d, r) \/ RefuseBusy(d, r)
    BY <1>1, <2>6 DEF RefuseParams, RefuseBusy, Refused, Answered
  <2>7. CASE Admit(d, r)
    <3>1. call' = [call EXCEPT ![d] = [r EXCEPT !.pc = "reading"]]
      BY <2>7 DEF Admit
    <3>2. [r EXCEPT !.pc = "reading"].status = 0
      BY <2>2 DEF r, Request
    <3>3. QED
      BY <1>1, <3>1, <3>2
  <2>8. QED
    BY <2>1, <2>3, <2>4, <2>5, <2>6, <2>7 DEF r
<1>3. ASSUME NEW d \in Calls, Handle(d)
      PROVE  keyed >= MaxImports
  <2>1. call[d] \in CallRecords /\ call[d].status = 0
    BY <1>1, <1>3 DEF Handle, Advance, ReceiveChunk, Overflow, Disconnect,
       RefuseBatch, TakeBatch, FinishDryRun, StartApply, Write, FinishApply, SyncFails
  <2>2. \A q : call' = [call EXCEPT ![d] = q] /\ q.status # 429 => FALSE
    BY <1>1
  <2> DEFINE r == call[d]
  <2>6. /\ [r EXCEPT !.got = @ + 1].status = 0 /\ [r EXCEPT !.pc = "planning"].status = 0
        /\ [r EXCEPT !.pc = "applying"].status = 0 /\ [r EXCEPT !.wrote = TRUE].status = 0
    BY <2>1 DEF CallRecords
  <2>3. CASE ReceiveChunk(d)
    BY <2>2, <2>3, <2>6 DEF ReceiveChunk, Advance
  <2>4. CASE TakeBatch(d)
    BY <2>2, <2>4, <2>6 DEF TakeBatch, Advance
  <2>5. CASE StartApply(d)
    BY <2>2, <2>5, <2>6 DEF StartApply, Advance
  <2>7. CASE Write(d)
    BY <2>2, <2>7, <2>6 DEF Write, Advance
  <2>8. \A q, status, outcome : Answered(q, status, outcome).status = status /\ Refused(q, status).status = status
    BY DEF Answered, Refused
  <2>9. CASE Overflow(d)
    BY <2>2, <2>8, <2>9 DEF Overflow, Advance
  <2>10. CASE Disconnect(d)
    BY <2>2, <2>8, <2>10 DEF Disconnect, Advance
  <2>11. CASE SyncFails(d)
    BY <2>2, <2>8, <2>11 DEF SyncFails, Advance
  <2>12. CASE RefuseBatch(d)
    BY <2>2, <2>8, <2>12 DEF RefuseBatch, Advance
  <2>13. CASE FinishDryRun(d)
    BY <2>2, <2>8, <2>13 DEF FinishDryRun, Advance
  <2>14. CASE FinishApply(d)
    BY <2>2, <2>8, <2>14 DEF FinishApply, Advance
  <2>15. QED
    BY <1>3, <2>3, <2>4, <2>5, <2>7, <2>9, <2>10, <2>11, <2>12, <2>13, <2>14 DEF Handle
<1>4. CASE ServerRestarts
  BY <1>1, <1>4 DEF ServerRestarts, NoCall, Request
<1>5. CASE ImportWindowEnds \/ FailureWindowEnds
  BY <1>5 DEF ImportWindowEnds, FailureWindowEnds
<1>6. QED
  BY <1>2, <1>3, <1>4, <1>5 DEF EndpointNext

(* Whatever comes without the key, its holder is refused for the rate only *)
(* after as many calls made with it (authorize_import).                    *)
THEOREM KeyHolderIsAdmitted == EndpointSpec => KeyHolderIsNotLockedOut
  BY EndpointIsSound, LimitedStep, PTL DEF EndpointSpec, KeyHolderIsNotLockedOut

-----------------------------------------------------------------------------
(* The template links. *)

(* What the rows of the table keep besides their types: whoever wrote one, *)
(* the board's link of an unclaimed import is that of a row with a schema, *)
(* and a row that is not in the table has no owner.                        *)
OwnedRowsAreThere == \A i \in Listings : rows[i].claimed => Listed(i)
RepairInv == RepairTypeOK /\ BoardLinksAnswer /\ OwnedRowsAreThere

LEMMA NewRowIsTyped ==
    ASSUME NEW schema \in BOOLEAN
    PROVE  /\ NewRow(schema) \in RowRecords
           /\ [NewRow(schema) EXCEPT !.pc = "removed"] \in RowRecords
           /\ [NewRow(schema) EXCEPT !.pc = "absent"] \in RowRecords
    BY DEF NewRow, RowRecords, Links

LEMMA NoRunIsTyped ==
    NoRun \in [pc : {"idle", "shown", "committed"}, preview : [Listings -> Links \cup {NotShown}]]
    BY DEF NoRun, NoPreview

(* A row on which one statement worked.                                    *)
LEMMA OneRowWritten ==
    ASSUME RepairInv, NEW i \in Listings, NEW r \in RowRecords,
           rows' = [rows EXCEPT ![i] = r], repair' = repair, edited \subseteq edited', edited' \subseteq Listings,
           r.claimed => r.pc = "listed",
           i \notin edited' => (r.pc = "listed" /\ ~r.claimed /\ r.link = Board => r.schema)
    PROVE  RepairInv'
<1>1. rows' \in [Listings -> RowRecords] /\ rows'[i] = r /\ \A j \in Listings \ {i} : rows'[j] = rows[j]
    BY DEF RepairInv, RepairTypeOK
<1>2. RepairTypeOK'
    BY <1>1 DEF RepairInv, RepairTypeOK
<1>3. BoardLinksAnswer'
    BY <1>1 DEF RepairInv, BoardLinksAnswer, Listed
<1>4. OwnedRowsAreThere'
    BY <1>1 DEF RepairInv, OwnedRowsAreThere, Listed
<1> QED
    BY <1>2, <1>3, <1>4 DEF RepairInv

LEMMA RepairInitially == RepairInit => RepairInv
<1> SUFFICES ASSUME RepairInit PROVE RepairInv
    OBVIOUS
<1>1. OldRows \subseteq RowRecords
    BY DEF OldRows, RowRecords
<1>2. [NewRow(FALSE) EXCEPT !.pc = "absent"] \in RowRecords
    BY NewRowIsTyped
<1>3. rows \in [Listings -> RowRecords]
    BY <1>1, <1>2 DEF RepairInit
<1>4. RepairTypeOK
    BY <1>3, NoRunIsTyped DEF RepairInit, RepairTypeOK
<1>5. BoardLinksAnswer
  <2> SUFFICES ASSUME NEW i \in Listings, Listed(i), rows[i].link = Board PROVE rows[i].schema
      BY DEF BoardLinksAnswer
  <2>1. rows[i] \in OldRows
      BY NewRowIsTyped DEF RepairInit, Listed, NewRow
  <2> QED
      BY <2>1 DEF OldRows
<1>6. OwnedRowsAreThere
  <2>1. \A r \in OldRows : ~r.claimed
      BY DEF OldRows
  <2>2. ~[NewRow(FALSE) EXCEPT !.pc = "absent"].claimed
      BY DEF NewRow
  <2>3. rows \in [Listings -> OldRows \cup {[NewRow(FALSE) EXCEPT !.pc = "absent"]}]
      BY DEF RepairInit
  <2>4. \A i \in Listings : ~rows[i].claimed
      BY <2>1, <2>2, <2>3
  <2> QED
      BY <2>4 DEF OwnedRowsAreThere
<1> QED
    BY <1>4, <1>5, <1>6 DEF RepairInv

(* The statements of the others.                                           *)
LEMMA OthersKeepRepairInv ==
    ASSUME RepairInv, NEW i \in Listings, NEW schema \in BOOLEAN, NEW link \in Links,
           \/ Claim(i) \/ RemoveImported(i)
           \/ ImportUpsert(i, schema, link) \/ OwnerWrites(i, schema, link) \/ OperatorEdits(i, schema, link)
    PROVE  RepairInv'
<1>1. rows[i] \in RowRecords /\ edited \subseteq Listings /\ rows \in [Listings -> RowRecords]
      /\ (i \notin edited => (Listed(i) /\ ~rows[i].claimed /\ rows[i].link = Board => rows[i].schema))
      /\ (rows[i].claimed => Listed(i))
    BY DEF RepairInv, RepairTypeOK, BoardLinksAnswer, OwnedRowsAreThere
<1>2. CASE Claim(i)
  <2> DEFINE r == [rows[i] EXCEPT !.claimed = TRUE]
  <2>1. r \in RowRecords /\ r.claimed /\ r.pc = "listed"
      BY <1>1, <1>2 DEF RowRecords, Claim, Listed
  <2>2. rows' = [rows EXCEPT ![i] = r] /\ repair' = repair /\ edited' = edited
      BY <1>2 DEF Claim
  <2> QED
      BY <1>1, <2>1, <2>2, OneRowWritten
<1>3. CASE RemoveImported(i)
  <2> DEFINE r == [NewRow(FALSE) EXCEPT !.pc = "removed"]
  <2>1. r \in RowRecords /\ r.pc = "removed" /\ ~r.claimed
      BY NewRowIsTyped DEF NewRow
  <2>2. rows' = [rows EXCEPT ![i] = r] /\ repair' = repair /\ edited' = edited
      BY <1>3 DEF RemoveImported
  <2> QED
      BY <1>1, <2>1, <2>2, OneRowWritten
<1>4. CASE ImportUpsert(i, schema, link)
  <2> DEFINE r == IF Listed(i) THEN Refreshed(rows[i], schema, link) ELSE NewRow(schema)
  <2>1. r \in RowRecords /\ r.pc = "listed" /\ (~r.claimed /\ r.link = Board => r.schema)
    <3>1. NewRow(schema).pc = "listed" /\ (NewRow(schema).link = Board => NewRow(schema).schema)
        BY LinksAssumption DEF NewRow
    <3>2. CASE Listed(i) /\ rows[i].claimed
      <4>1. r = [rows[i] EXCEPT !.missing = FALSE]
          BY <3>2 DEF Refreshed
      <4> QED
          BY <1>1, <3>2, <4>1 DEF RowRecords, Listed
    <3>3. CASE ~(Listed(i) /\ rows[i].claimed)
      <4>1. r = NewRow(schema)
          BY <3>3 DEF Refreshed
      <4> QED
          BY <3>1, <4>1, NewRowIsTyped
    <3> QED
        BY <3>2, <3>3
  <2>2. rows' = [rows EXCEPT ![i] = r] /\ repair' = repair /\ edited' = edited
      BY <1>4 DEF ImportUpsert
  <2> QED
      BY <1>1, <2>1, <2>2, OneRowWritten
<1>5. CASE OwnerWrites(i, schema, link)
  <2> DEFINE r == [rows[i] EXCEPT !.schema = schema, !.link = link]
  <2>1. r \in RowRecords /\ r.claimed /\ r.pc = "listed"
      BY <1>1, <1>5 DEF RowRecords, OwnerWrites, Listed
  <2>2. rows' = [rows EXCEPT ![i] = r] /\ repair' = repair /\ edited' = edited
      BY <1>1, <1>5 DEF OwnerWrites
  <2> QED
      BY <1>1, <2>1, <2>2, OneRowWritten
<1>6. CASE OperatorEdits(i, schema, link)
  <2> DEFINE r == [rows[i] EXCEPT !.schema = schema, !.link = link]
  <2>1. r \in RowRecords /\ r.pc = "listed"
      BY <1>1, <1>6 DEF RowRecords, OperatorEdits, Listed
  <2>2. rows' = [rows EXCEPT ![i] = r] /\ repair' = repair /\ edited' = edited \cup {i}
      BY <1>1, <1>6 DEF OperatorEdits
  <2> QED
      BY <1>1, <2>1, <2>2, OneRowWritten
<1> QED
    BY <1>2, <1>3, <1>4, <1>5, <1>6

(* The steps of one run of the repair.                                     *)
LEMMA RepairsKeepRepairInv ==
    ASSUME RepairInv, NEW s \in Repairs,
           RepairStart(s) \/ RepairDeclined(s) \/ RepairCommit(s) \/ RepairRollback(s) \/ RepairLog(s)
    PROVE  RepairInv'
<1> DEFINE Runs == [pc : {"idle", "shown", "committed"}, preview : [Listings -> Links \cup {NotShown}]]
<1>1. rows \in [Listings -> RowRecords] /\ repair \in [Repairs -> Runs] /\ edited \subseteq Listings
      /\ BoardLinksAnswer /\ OwnedRowsAreThere
    BY DEF RepairInv, RepairTypeOK
<1>2. edited' = edited
    BY DEF RepairStart, RepairDeclined, RepairCommit, RepairRollback, RepairLog
<1>3. repair' \in [Repairs -> Runs]
  <2>1. CASE RepairStart(s)
    <3> DEFINE shown == [i \in Listings |-> IF Repairable(i) THEN rows[i].link ELSE NotShown]
    <3>1. shown \in [Listings -> Links \cup {NotShown}]
        BY <1>1 DEF RowRecords
    <3> HIDE DEF shown
    <3>2. [repair[s] EXCEPT !.pc = "shown", !.preview = shown] \in Runs
        BY <1>1, <3>1
    <3>3. repair' = [repair EXCEPT ![s] = [repair[s] EXCEPT !.pc = "shown", !.preview = shown]]
        BY <1>1, <2>1 DEF RepairStart, shown
    <3> QED
        BY <1>1, <3>2, <3>3
  <2>2. CASE RepairCommit(s)
      BY <1>1, <2>2 DEF RepairCommit
  <2>3. CASE RepairDeclined(s) \/ RepairRollback(s) \/ RepairLog(s)
      BY <1>1, <2>3, NoRunIsTyped DEF RepairDeclined, RepairRollback, RepairLog
  <2> QED
      BY <2>1, <2>2, <2>3
<1>4. rows' \in [Listings -> RowRecords] /\ BoardLinksAnswer' /\ OwnedRowsAreThere'
  <2>1. CASE RepairCommit(s)
    <3>1. \A i \in Listings :
            /\ rows'[i] = IF Repairable(i) THEN [rows[i] EXCEPT !.link = Board] ELSE rows[i]
            /\ rows[i] \in RowRecords
        BY <1>1, <2>1 DEF RepairCommit
    <3>2. \A i \in Listings : Repairable(i) => rows[i].schema
        BY DEF Repairable
    <3>3. \A i \in Listings : /\ rows'[i] \in RowRecords /\ (Repairable(i) => rows'[i].schema)
                              /\ rows'[i].pc = rows[i].pc /\ rows'[i].claimed = rows[i].claimed
      <4> SUFFICES ASSUME NEW i \in Listings
                   PROVE  /\ rows'[i] \in RowRecords /\ (Repairable(i) => rows'[i].schema)
                          /\ rows'[i].pc = rows[i].pc /\ rows'[i].claimed = rows[i].claimed
          OBVIOUS
      <4>1. CASE Repairable(i)
        <5>1. rows'[i] = [rows[i] EXCEPT !.link = Board] /\ rows[i] \in RowRecords /\ rows[i].schema
            BY <3>1, <3>2, <4>1
        <5> QED
            BY <5>1 DEF RowRecords, Links
      <4>2. CASE ~Repairable(i)
          BY <3>1, <4>2
      <4> QED
          BY <4>1, <4>2
    <3>4. BoardLinksAnswer'
        BY <1>1, <1>2, <3>1, <3>3 DEF BoardLinksAnswer, Listed
    <3>6. OwnedRowsAreThere'
        BY <1>1, <3>3 DEF OwnedRowsAreThere, Listed
    <3>5. rows' = [i \in Listings |-> IF Repairable(i) THEN [rows[i] EXCEPT !.link = Board] ELSE rows[i]]
        BY <2>1 DEF RepairCommit
    <3> QED
        BY <3>1, <3>3, <3>4, <3>5, <3>6
  <2>2. CASE rows' = rows
      BY <1>1, <1>2, <2>2 DEF BoardLinksAnswer, OwnedRowsAreThere, Listed
  <2> QED
      BY <2>1, <2>2 DEF RepairStart, RepairDeclined, RepairRollback, RepairLog
<1> QED
    BY <1>1, <1>2, <1>3, <1>4 DEF RepairInv, RepairTypeOK

LEMMA RepairStep ==
    ASSUME RepairInv, [RepairNext]_repairVars
    PROVE  RepairInv'
<1>1. CASE UNCHANGED repairVars
    BY <1>1 DEF RepairInv, RepairTypeOK, BoardLinksAnswer, OwnedRowsAreThere, Listed, repairVars
<1>2. CASE \E i \in Listings :
             \/ Claim(i) \/ RemoveImported(i)
             \/ \E link \in Links, schema \in BOOLEAN :
                  ImportUpsert(i, schema, link) \/ OwnerWrites(i, schema, link) \/ OperatorEdits(i, schema, link)
  <2>1. PICK i \in Listings :
             \/ Claim(i) \/ RemoveImported(i)
             \/ \E link \in Links, schema \in BOOLEAN :
                  ImportUpsert(i, schema, link) \/ OwnerWrites(i, schema, link) \/ OperatorEdits(i, schema, link)
      BY <1>2
  <2>2. Board \in Links /\ TRUE \in BOOLEAN
      BY DEF Links
  <2>3. CASE Claim(i) \/ RemoveImported(i)
      BY <2>2, <2>3, OthersKeepRepairInv
  <2>4. CASE \E link \in Links, schema \in BOOLEAN :
               ImportUpsert(i, schema, link) \/ OwnerWrites(i, schema, link) \/ OperatorEdits(i, schema, link)
      BY <2>4, OthersKeepRepairInv
  <2> QED
      BY <2>1, <2>3, <2>4
<1>3. CASE \E S \in SUBSET Listings : MarkMissingFromSource(S)
  <2>1. PICK S \in SUBSET Listings : MarkMissingFromSource(S)
      BY <1>3
  <2>2. /\ rows' = [i \in Listings |-> IF i \in S THEN [rows[i] EXCEPT !.missing = TRUE] ELSE rows[i]]
        /\ repair' = repair /\ edited' = edited /\ rows \in [Listings -> RowRecords]
      BY <2>1 DEF MarkMissingFromSource, RepairInv, RepairTypeOK
  <2>3. \A i \in Listings :
          /\ rows'[i] \in RowRecords /\ rows'[i].pc = rows[i].pc /\ rows'[i].claimed = rows[i].claimed
          /\ rows'[i].link = rows[i].link /\ rows'[i].schema = rows[i].schema
      BY <2>2 DEF RowRecords
  <2>4. RepairTypeOK'
      BY <2>2, <2>3 DEF RepairInv, RepairTypeOK
  <2>5. BoardLinksAnswer'
      BY <2>2, <2>3 DEF RepairInv, BoardLinksAnswer, Listed
  <2>6. OwnedRowsAreThere'
      BY <2>3 DEF RepairInv, OwnedRowsAreThere, Listed
  <2> QED
      BY <2>4, <2>5, <2>6 DEF RepairInv
<1>4. CASE \E s \in Repairs :
             RepairStart(s) \/ RepairDeclined(s) \/ RepairCommit(s) \/ RepairRollback(s) \/ RepairLog(s)
    BY <1>4, RepairsKeepRepairInv
<1> QED
    BY <1>1, <1>2, <1>3, <1>4 DEF RepairNext

(* Whoever writes a row of TemplateRepair, it keeps its types, and an       *)
(* unclaimed import has the board's link only with a schema to show.       *)
THEOREM RepairIsSound == RepairSpec => []RepairInv
    BY RepairInitially, RepairStep, PTL DEF RepairSpec

(* The board's link of an unclaimed import leads to a template: a row that *)
(* has no schema keeps no such link, whoever synced, claimed, repaired or  *)
(* removed it in between, unless an operator wrote the row by hand.        *)
THEOREM BoardLinksLeadSomewhere == RepairSpec => []BoardLinksAnswer
<1>1. RepairInv => BoardLinksAnswer
    BY DEF RepairInv
<1> QED
    BY <1>1, RepairIsSound, PTL

(* What a statement makes of the links of one listing.                     *)
LEMMA LinksStep ==
    ASSUME RepairInv, RepairNext, NEW i \in Listings
    PROVE  /\ \/ ~rows[i].claimed
              \/ rows'[i].link = rows[i].link /\ rows'[i].schema = rows[i].schema
              \/ RemoveImported(i)
              \/ \E link \in Links, schema \in BOOLEAN : OwnerWrites(i, schema, link) \/ OperatorEdits(i, schema, link)
           /\ \/ ~Listed(i)' \/ rows'[i].claimed \/ rows'[i].link \notin Offboard
              \/ Listed(i) /\ rows[i].link = rows'[i].link
              \/ i \in edited'
<1>1. /\ rows \in [Listings -> RowRecords] /\ rows[i] \in RowRecords
      /\ rows[i].claimed => Listed(i)
      /\ Board \notin Offboard /\ None \notin Offboard
    BY LinksAssumption DEF RepairInv, RepairTypeOK, OwnedRowsAreThere
<1>2. CASE \E j \in Listings, link \in Links, schema \in BOOLEAN :
             OwnerWrites(j, schema, link) \/ OperatorEdits(j, schema, link)
  <2>1. PICK j \in Listings, link \in Links, schema \in BOOLEAN :
          OwnerWrites(j, schema, link) \/ OperatorEdits(j, schema, link)
      BY <1>2
  <2>2. CASE j = i
    <3>1. CASE OwnerWrites(i, schema, link)
      <4>1. rows'[i].claimed
          BY <1>1, <3>1 DEF OwnerWrites, RowRecords
      <4> QED
          BY <3>1, <4>1
    <3>2. CASE OperatorEdits(i, schema, link)
      <4>1. i \in edited'
          BY <3>2 DEF OperatorEdits
      <4> QED
          BY <3>2, <4>1
    <3> QED
        BY <2>1, <2>2, <3>1, <3>2
  <2>3. CASE j # i
    <3>1. rows'[i] = rows[i]
        BY <1>1, <2>1, <2>3 DEF OwnerWrites, OperatorEdits
    <3> QED
        BY <3>1 DEF Listed
  <2> QED
      BY <2>2, <2>3
<1>3. CASE \E j \in Listings : Claim(j) \/ RemoveImported(j)
  <2>1. PICK j \in Listings : Claim(j) \/ RemoveImported(j)
      BY <1>3
  <2>2. CASE RemoveImported(i)
    <3>1. ~Listed(i)'
        BY <1>1, <2>2 DEF RemoveImported, Listed, NewRow
    <3> QED
        BY <2>2, <3>1
  <2>3. CASE ~RemoveImported(i)
    <3>1. rows'[i].link = rows[i].link /\ rows'[i].schema = rows[i].schema /\ rows'[i].pc = rows[i].pc
      <4>1. CASE RemoveImported(j)
        <5>1. rows'[i] = rows[i]
            BY <1>1, <2>3, <4>1 DEF RemoveImported
        <5> QED
            BY <5>1
      <4>2. CASE Claim(j)
          BY <1>1, <4>2 DEF Claim, RowRecords
      <4> QED
          BY <2>1, <4>1, <4>2
    <3> QED
        BY <3>1 DEF Listed
  <2> QED
      BY <2>2, <2>3
<1>4. CASE \E j \in Listings, link \in Links, schema \in BOOLEAN : ImportUpsert(j, schema, link)
  <2>1. PICK j \in Listings, link \in Links, schema \in BOOLEAN : ImportUpsert(j, schema, link)
      BY <1>4
  <2>2. CASE j # i
    <3>1. rows'[i] = rows[i]
        BY <1>1, <2>1, <2>2 DEF ImportUpsert
    <3> QED
        BY <3>1 DEF Listed
  <2>3. CASE j = i /\ rows[i].claimed
    <3>1. rows'[i] = [rows[i] EXCEPT !.missing = FALSE]
        BY <1>1, <2>1, <2>3 DEF ImportUpsert, Refreshed
    <3>2. rows'[i].link = rows[i].link /\ rows'[i].schema = rows[i].schema /\ rows'[i].claimed
        BY <1>1, <2>3, <3>1 DEF RowRecords
    <3> QED
        BY <3>2
  <2>4. CASE j = i /\ ~rows[i].claimed
    <3>1. rows'[i] = NewRow(schema)
        BY <1>1, <2>1, <2>4 DEF ImportUpsert, Refreshed
    <3>2. rows'[i].link \notin Offboard
        BY <1>1, <3>1 DEF NewRow
    <3> QED
        BY <2>4, <3>2
  <2> QED
      BY <2>2, <2>3, <2>4
<1>5. CASE \E S \in SUBSET Listings : MarkMissingFromSource(S)
  <2>1. rows'[i].link = rows[i].link /\ rows'[i].schema = rows[i].schema /\ rows'[i].pc = rows[i].pc
      BY <1>1, <1>5 DEF MarkMissingFromSource, RowRecords
  <2> QED
      BY <2>1 DEF Listed
<1>6. CASE \E s \in Repairs :
             RepairStart(s) \/ RepairDeclined(s) \/ RepairCommit(s) \/ RepairRollback(s) \/ RepairLog(s)
  <2>1. PICK s \in Repairs :
             RepairStart(s) \/ RepairDeclined(s) \/ RepairCommit(s) \/ RepairRollback(s) \/ RepairLog(s)
      BY <1>6
  <2>2. CASE rows' = rows
      BY <2>2 DEF Listed
  <2>3. CASE RepairCommit(s)
    <3>1. rows'[i] = IF Repairable(i) THEN [rows[i] EXCEPT !.link = Board] ELSE rows[i]
        BY <2>3 DEF RepairCommit
    <3>2. CASE Repairable(i)
      <4>1. ~rows[i].claimed /\ rows'[i].link = Board
          BY <1>1, <3>1, <3>2 DEF Repairable, RowRecords
      <4> QED
          BY <1>1, <4>1
    <3>3. CASE ~Repairable(i)
        BY <3>1, <3>3 DEF Listed
    <3> QED
        BY <3>2, <3>3
  <2> QED
      BY <2>1, <2>2, <2>3 DEF RepairStart, RepairDeclined, RepairRollback, RepairLog
<1> QED
    BY <1>2, <1>3, <1>4, <1>5, <1>6 DEF RepairNext

(* The link and the schema of a claimed listing change by its owner's hand *)
(* or an operator's edit of that listing, or go with the listing: however  *)
(* many syncs and repairs, and wherever the claim lands among them.        *)
THEOREM ClaimedLinksStay == RepairSpec => ClaimedLinksAreTheOwners
<1>1. RepairInv /\ [RepairNext]_repairVars => [OthersLeaveClaimedAlone]_repairVars
  <2> SUFFICES ASSUME RepairInv, RepairNext PROVE OthersLeaveClaimedAlone
      OBVIOUS
  <2> QED
      BY LinksStep DEF OthersLeaveClaimedAlone
<1> QED
    BY <1>1, RepairIsSound, PTL DEF RepairSpec, ClaimedLinksAreTheOwners

(* No sync and no repair ever brings a link to somewhere else: such a link *)
(* of an unclaimed import was there before, or an operator wrote it.       *)
THEOREM OffboardLinksStayGone == RepairSpec => OffboardLinksAreOld
<1>1. RepairInv /\ [RepairNext]_repairVars => [NoneTurnOffboard]_repairVars
  <2> SUFFICES ASSUME RepairInv, RepairNext PROVE NoneTurnOffboard
      OBVIOUS
  <2> QED
      BY LinksStep DEF NoneTurnOffboard
<1> QED
    BY <1>1, RepairIsSound, PTL DEF RepairSpec, OffboardLinksAreOld

-----------------------------------------------------------------------------
(* One batch. *)

Counts == [added : Nat, updated : Nat, stale : Nat]

NewAmong(T, W) == {row \in W : ~Exists(T, Place(row))}
OldAmong(T, W) == {row \in W : Exists(T, Place(row))}
GoneFrom(T, M) == UNION {NoLongerSupplied(T, src) : src \in M}

Runs ==
    [pc : {"plan", "apply", "raised", "refused", "broken", "done"}, attempt : Nat,
     toWrite : SUBSET Importable, toMark : SUBSET ToMark, foretold : Counts, done : Counts]

PlanTypeOK ==
    /\ batch \in Batches /\ doNotImport \in Lists /\ before \in Tables
    /\ listings = [p \in Sources \X Keys |-> listings[p]]
    /\ run \in Runs

(* However many attempts there were and wherever they broke off, a listing *)
(* is as it was before the first or as a completed sync leaves it; in an   *)
(* attempt it is the latter, or its turn is still to come.                 *)
EachAsBeforeOrOwed == \A p \in Sources \X Keys : listings[p] \in {before[p], Owed(p)}

RestIsUnderWay ==
    run.pc \in {"apply", "done"} =>
        \A p \in Sources \X Keys :
            \/ listings[p] = Owed(p)
            \/ \E row \in run.toWrite : Place(row) = p
            \/ Supplying(p) = {} /\ p[1] \in run.toMark

(* What was counted and what is left to count make up what was foretold. *)
CountsAddUp ==
    run.pc \in {"apply", "done"} =>
        /\ run.foretold.added = run.done.added + Cardinality(NewAmong(listings, run.toWrite))
        /\ run.foretold.updated = run.done.updated + Cardinality(OldAmong(listings, run.toWrite))
        /\ run.foretold.stale = run.done.stale + Cardinality(GoneFrom(listings, run.toMark))

PlanInv ==
    /\ PlanTypeOK /\ EachAsBeforeOrOwed /\ RestIsUnderWay /\ CountsAddUp
    /\ run.pc = "plan" => run.done = NoCounts
    /\ run.pc = "done" => run.toWrite = {} /\ run.toMark = {}

(* A batch's records by their place in it. *)
LEMMA RecordsOfBatch ==
    ASSUME batch \in Batches
    PROVE  /\ \A n \in DOMAIN batch.records : n \in Nat /\ n <= Len(batch.records)
           /\ Len(batch.records) \in Nat
           /\ \A n \in ValidRecords : Place(RowAt(n)) \in Sources \X Keys
           /\ IsFiniteSet(ValidRecords)
           /\ batch.source \in Sources \cup {NoSource}
<1>1. batch.records \in Seq(Records) /\ batch.source \in Sources \cup {NoSource}
    BY BatchAssumption
<1>2. /\ Len(batch.records) \in Nat /\ DOMAIN batch.records = 1 .. Len(batch.records)
      /\ \A n \in DOMAIN batch.records : batch.records[n] \in Records
    BY <1>1
<1>3. ASSUME NEW n \in ValidRecords
      PROVE  Place(RowAt(n)) \in Sources \X Keys
  <2>1. batch.records[n] \in Records /\ ResolveSource(batch.records[n]) # NoSource
      BY <1>2 DEF ValidRecords, IsValid
  <2>2. batch.records[n].key \in Keys /\ ResolveSource(batch.records[n]) \in Sources
      BY <1>1, <2>1 DEF Records, ResolveSource
  <2> QED
      BY <2>2 DEF Place, RowAt, BuildImportRow
<1>4. IsFiniteSet(ValidRecords)
  <2>1. IsFiniteSet(1 .. Len(batch.records))
      BY <1>2, FS_Interval
  <2>2. ValidRecords \in SUBSET (1 .. Len(batch.records))
      BY <1>2 DEF ValidRecords
  <2> QED
      BY <2>1, <2>2, FS_Subset
<1> QED
    BY <1>1, <1>2, <1>3, <1>4

(* A set of numbers that is bounded and not empty has a largest one. *)
LEMMA LargestOne ==
    ASSUME NEW S, S # {}, NEW b \in Nat, \A n \in S : n \in Nat /\ n <= b
    PROVE  Max(S) \in S /\ \A n \in S : n <= Max(S)
<1> DEFINE Has(U) == \E x \in U : \A y \in U : x >= y
           A == {k \in Nat : \A U : U # {} /\ (\A n \in U : n \in Nat /\ n <= k) => Has(U)}
<1>1. 0 \in A
  <2> SUFFICES ASSUME NEW U, U # {}, \A n \in U : n \in Nat /\ n <= 0
               PROVE  Has(U)
      OBVIOUS
  <2>1. \A n \in U : n = 0
      OBVIOUS
  <2> QED
      BY <2>1
<1>2. ASSUME NEW k \in Nat, k \in A
      PROVE  k + 1 \in A
  <2> SUFFICES ASSUME NEW U, U # {}, \A n \in U : n \in Nat /\ n <= k + 1
               PROVE  Has(U)
      OBVIOUS
  <2>1. CASE k + 1 \in U
      BY <2>1
  <2>2. CASE k + 1 \notin U
    <3>1. \A n \in U : n \in Nat /\ n <= k
        BY <2>2
    <3> QED
        BY <1>2, <3>1
  <2> QED
      BY <2>1, <2>2
<1>3. b \in A
  <2>1. \A k \in Nat : k \in A
    <3> HIDE DEF A
    <3> QED
        BY <1>1, <1>2, NatSetInduction
  <2> QED
      BY <2>1
<1>4. Has(S)
    BY <1>3
<1>5. Max(S) \in S /\ \A y \in S : Max(S) >= y
    BY <1>4 DEF Max
<1>6. Max(S) \in Nat
    BY <1>5
<1> QED
    BY <1>5, <1>6

LEMMA SupplyingAreValid ==
    ASSUME NEW p
    PROVE  Supplying(p) = {n \in ValidRecords : Place(RowAt(n)) = p}
    BY DEF Supplying, ValidRecords, RowAt

(* Of the records of one endpoint the last one is imported, unless the     *)
(* endpoint is on the do-not-import list.                                  *)
LEMMA LastIsImported ==
    ASSUME batch \in Batches, NEW p, Supplying(p) # {}, p \notin doNotImport
    PROVE  RowAt(Max(Supplying(p))) \in Importable /\ Place(RowAt(Max(Supplying(p)))) = p
<1> DEFINE m == Max(Supplying(p))
<1>1. \A n \in Supplying(p) : n \in Nat /\ n <= Len(batch.records)
    BY RecordsOfBatch DEF Supplying
<1>2. m \in Supplying(p) /\ \A n \in Supplying(p) : n <= m
  <2>1. Len(batch.records) \in Nat
      BY RecordsOfBatch
  <2> QED
      BY <1>1, <2>1, LargestOne
<1> HIDE DEF m
<1>3. m \in ValidRecords /\ Place(RowAt(m)) = p /\ m \in Nat
    BY <1>1, <1>2, SupplyingAreValid
<1>4. \A l \in ValidRecords : l > m => Place(RowAt(l)) # p
  <2> SUFFICES ASSUME NEW l \in ValidRecords, l > m, Place(RowAt(l)) = p PROVE FALSE
      OBVIOUS
  <2>1. l \in Supplying(p)
      BY SupplyingAreValid
  <2> QED
      BY <1>1, <1>2, <1>3, <2>1
<1> QED
    BY <1>3, <1>4 DEF Importable, m

LEMMA ImportedIsLast ==
    ASSUME batch \in Batches, NEW row \in Importable
    PROVE  /\ Place(row) \in Sources \X Keys /\ Place(row) \notin doNotImport
           /\ Supplying(Place(row)) # {}
           /\ row = RowAt(Max(Supplying(Place(row))))
<1>1. PICK k \in ValidRecords : /\ row = RowAt(k) /\ Place(RowAt(k)) \notin doNotImport
                                /\ \A l \in ValidRecords : l > k => Place(RowAt(l)) # Place(RowAt(k))
    BY DEF Importable
<1> DEFINE p == Place(row)
           m == Max(Supplying(p))
<1>2. k \in Supplying(p)
    BY <1>1, SupplyingAreValid
<1>3. \A n \in Supplying(p) : n \in Nat /\ n <= Len(batch.records) /\ n \in ValidRecords /\ Place(RowAt(n)) = p
    BY RecordsOfBatch, SupplyingAreValid DEF Supplying
<1>4. m \in Supplying(p) /\ \A n \in Supplying(p) : n <= m
  <2>1. Len(batch.records) \in Nat
      BY RecordsOfBatch
  <2>2. \A n \in Supplying(p) : n \in Nat /\ n <= Len(batch.records)
      BY <1>3
  <2> HIDE DEF p
  <2> QED
      BY <1>2, <2>1, <2>2, LargestOne
<1>5. m = k
  <2> HIDE DEF m, p
  <2>1. ~(m > k)
      BY <1>1, <1>3, <1>4 DEF p
  <2> QED
      BY <1>2, <1>3, <1>4, <2>1
<1> QED
    BY <1>1, <1>2, <1>5, RecordsOfBatch

(* One row of an endpoint is imported, ... *)
LEMMA OneImportedPerPlace ==
    ASSUME batch \in Batches, NEW row \in Importable, NEW other \in Importable, Place(row) = Place(other)
    PROVE  row = other
    BY ImportedIsLast

(* ... and there are finitely many. *)
LEMMA FinitelyManyImported ==
    ASSUME batch \in Batches
    PROVE  IsFiniteSet(Importable)
<1> DEFINE f == [n \in ValidRecords |-> RowAt(n)]
           all == {RowAt(n) : n \in ValidRecords}
<1>1. f \in Surjection(ValidRecords, all)
    BY DEF Surjection
<1>2. IsFiniteSet(all)
  <2> HIDE DEF f, all
  <2> QED
      BY <1>1, RecordsOfBatch, FS_Surjection
<1>3. Importable \in SUBSET all
    BY DEF Importable
<1> QED
  <2> HIDE DEF all
  <2> QED
      BY <1>2, <1>3, FS_Subset

LEMMA SmallestOne ==
    ASSUME NEW S, S # {}, \A n \in S : n \in Nat
    PROVE  Min(S) \in S
<1> DEFINE A == {k \in Nat : \A n \in S : n <= k => \E x \in S : \A y \in S : x <= y}
<1>1. 0 \in A
    OBVIOUS
<1>2. ASSUME NEW k \in Nat, k \in A
      PROVE  k + 1 \in A
  <2> SUFFICES ASSUME NEW n \in S, n <= k + 1 PROVE \E x \in S : \A y \in S : x <= y
      OBVIOUS
  <2>1. CASE \E m \in S : m <= k
      BY <1>2, <2>1
  <2>2. CASE \A m \in S : ~(m <= k)
      BY <2>2
  <2> QED
      BY <2>1, <2>2
<1>3. \A k \in Nat : k \in A
  <2> HIDE DEF A
  <2> QED
      BY <1>1, <1>2, NatSetInduction
<1>4. \E x \in S : \A y \in S : x <= y
  <2>1. PICK n \in S : TRUE
      OBVIOUS
  <2> QED
      BY <1>3, <2>1
<1> QED
    BY <1>4 DEF Min

(* A valid record has a wallet, its own or one of its options'. *)
PaymentOptions == [chain : STRING, pay_to : STRING]

LEMMA FirstOptionIsTyped ==
    ASSUME NEW options \in Seq(PaymentOptions), NEW On, On \subseteq DOMAIN options, On # {}
    PROVE  options[Min(On)].pay_to \in STRING
<1>1. \A n \in On : n \in Nat /\ options[n] \in PaymentOptions
    OBVIOUS
<1>2. Min(On) \in On
    BY <1>1, SmallestOne
<1>3. options[Min(On)] \in PaymentOptions
    BY <1>1, <1>2
<1> QED
    BY <1>3 DEF PaymentOptions

LEMMA WalletIsString ==
    ASSUME NEW record \in Records, ResolvePaymentWallet(record) # NoWallet
    PROVE  ResolvePaymentWallet(record) \in STRING
<1> DEFINE options == record.payment_options
           On(chain) == {n \in DOMAIN options : options[n].chain = chain}
           evm == On("eip155")
           solana == On("solana")
<1>1. options \in Seq(PaymentOptions) /\ record.payment_wallet \in STRING \cup {NoWallet}
    BY DEF Records, PaymentOptions
<1>2. evm \subseteq DOMAIN options /\ solana \subseteq DOMAIN options
    OBVIOUS
<1>3. ResolvePaymentWallet(record) =
         IF record.payment_wallet # NoWallet THEN record.payment_wallet
         ELSE IF evm # {} THEN options[Min(evm)].pay_to
         ELSE IF solana # {} THEN options[Min(solana)].pay_to
         ELSE NoWallet
    BY DEF ResolvePaymentWallet
<1> HIDE DEF evm, solana, options
<1>4. /\ evm # {} => options[Min(evm)].pay_to \in STRING
      /\ solana # {} => options[Min(solana)].pay_to \in STRING
    BY <1>1, <1>2, FirstOptionIsTyped
<1> QED
    BY <1>1, <1>3, <1>4

LEMMA RowsAreTyped ==
    ASSUME batch \in Batches, NEW n \in ValidRecords
    PROVE  RowAt(n).content \in Nat /\ RowAt(n).listing_type \in STRING /\ RowAt(n).payment_wallet \in STRING
<1>1. batch.records \in Seq(Records)
    BY BatchAssumption
<1>2. batch.records[n] \in Records /\ ResolvePaymentWallet(batch.records[n]) # NoWallet
    BY <1>1 DEF ValidRecords, IsValid
<1>3. ResolvePaymentWallet(batch.records[n]) \in STRING
    BY <1>2, WalletIsString
<1>4. batch.records[n].content \in Nat /\ batch.records[n].listing_type \in STRING
    BY <1>2 DEF Records
<1> QED
    BY <1>3, <1>4 DEF RowAt, BuildImportRow

(* What a sync that wrote a row of its own leaves there, ... *)
WrittenRow(row, active) ==
    [content |-> row.content, listing_type |-> row.listing_type, payment_wallet |-> row.payment_wallet,
     claimed |-> FALSE, active |-> active, missing |-> FALSE]

LEMMA WrittenRowIsTyped ==
    ASSUME batch \in Batches, NEW row \in Importable, NEW active \in BOOLEAN
    PROVE  WrittenRow(row, active) \in ImportedRows
<1>1. \E n \in ValidRecords : row = RowAt(n)
    BY DEF Importable
<1> QED
    BY <1>1, RowsAreTyped DEF WrittenRow, ImportedRows

(* A refreshed row of nobody is what was written, and so is a written one. *)
RefreshedBy(r, row) ==
    [r EXCEPT !.content = row.content, !.listing_type = row.listing_type,
              !.payment_wallet = row.payment_wallet, !.missing = FALSE]

LEMMA SameRow ==
    ASSUME NEW r \in ImportedRows, NEW q \in ImportedRows,
           r.content = q.content, r.listing_type = q.listing_type, r.payment_wallet = q.payment_wallet,
           r.claimed = q.claimed, r.active = q.active, r.missing = q.missing
    PROVE  r = q
    BY DEF ImportedRows

LEMMA RefreshWrites ==
    ASSUME batch \in Batches, NEW row \in Importable, NEW r \in ImportedRows, ~r.claimed
    PROVE  RefreshedBy(r, row) = WrittenRow(row, r.active)
<1> DEFINE u == RefreshedBy(r, row)
           w == WrittenRow(row, r.active)
<1>1. r.claimed = FALSE /\ r.active \in BOOLEAN
    BY DEF ImportedRows
<1>2. row.content \in Nat /\ row.listing_type \in STRING /\ row.payment_wallet \in STRING
    BY RowsAreTyped DEF Importable
<1>3. /\ u \in ImportedRows /\ u.content = row.content /\ u.listing_type = row.listing_type
      /\ u.payment_wallet = row.payment_wallet /\ u.missing = FALSE /\ u.claimed = r.claimed /\ u.active = r.active
    BY <1>2 DEF ImportedRows, RefreshedBy
<1>4. w \in ImportedRows
    BY <1>1, WrittenRowIsTyped
<1>5. /\ w.content = row.content /\ w.listing_type = row.listing_type
      /\ w.payment_wallet = row.payment_wallet /\ w.missing = FALSE /\ w.claimed = FALSE /\ w.active = r.active
    BY DEF WrittenRow
<1> HIDE DEF u, w
<1>6. u = w
    BY <1>1, <1>3, <1>4, <1>5, SameRow
<1> QED
    BY <1>6 DEF u, w

LEMMA RewriteChangesNothing ==
    ASSUME batch \in Batches, NEW row \in Importable, NEW active \in BOOLEAN
    PROVE  /\ RefreshedBy(WrittenRow(row, active), row) = WrittenRow(row, active)
           /\ ~WrittenRow(row, active).claimed
<1>1. WrittenRow(row, active).active = active /\ ~WrittenRow(row, active).claimed
    BY DEF WrittenRow
<1> QED
    BY <1>1, WrittenRowIsTyped, RefreshWrites

(* A claimed row only loses its mark. *)
LEMMA UnmarkedIsTyped ==
    ASSUME NEW r \in ImportedRows
    PROVE  LET u == [r EXCEPT !.missing = FALSE]
           IN  u \in ImportedRows /\ u.claimed = r.claimed /\ [u EXCEPT !.missing = FALSE] = u
    BY DEF ImportedRows

LEMMA OwedToImported ==
    ASSUME batch \in Batches, NEW row \in Importable
    PROVE  Owed(Place(row)) =
             IF Exists(before, Place(row)) /\ before[Place(row)].claimed
             THEN [before[Place(row)] EXCEPT !.missing = FALSE]
             ELSE WrittenRow(row, ~Exists(before, Place(row)) \/ before[Place(row)].active)
<1>1. Supplying(Place(row)) # {} /\ Place(row) \notin doNotImport /\ row = RowAt(Max(Supplying(Place(row))))
    BY ImportedIsLast
<1> QED
    BY <1>1 DEF Owed, WrittenRow, RowAt

(* ... and an upsert leaves just that, before and after one that already   *)
(* did, and nothing else is touched.                                       *)
Pays(T, U, row) ==
    /\ U = [p \in Sources \X Keys |-> U[p]] /\ U[Place(row)] = Owed(Place(row))
    /\ \A p \in Sources \X Keys : p # Place(row) => U[p] = T[p]
    /\ Exists(U, Place(row))

LEMMA UpsertPays ==
    ASSUME batch \in Batches, before \in Tables, NEW row \in Importable,
           NEW T, T = [p \in Sources \X Keys |-> T[p]], T[Place(row)] \in {before[Place(row)], Owed(Place(row))}
    PROVE  Pays(T, Upserted(T, row), row)
<1> DEFINE q == Place(row)
           b == before[q]
           next == IF T[q] = Missing THEN WrittenRow(row, TRUE)
                   ELSE IF T[q].claimed THEN [T[q] EXCEPT !.missing = FALSE]
                   ELSE RefreshedBy(T[q], row)
<1>1. q \in Sources \X Keys /\ b \in ImportedRows \cup {Missing} /\ Missing \notin ImportedRows
    BY ImportedIsLast, PlanAssumption
<1>2. Upserted(T, row) = [T EXCEPT ![q] = next]
    BY DEF Upserted, WrittenRow, RefreshedBy
<1>3. Owed(q) = IF b # Missing /\ b.claimed THEN [b EXCEPT !.missing = FALSE]
                ELSE WrittenRow(row, b = Missing \/ b.active)
    BY OwedToImported DEF Exists
<1>4. \A active \in BOOLEAN : WrittenRow(row, active) \in ImportedRows
    BY WrittenRowIsTyped
<1>5. T[q] = b \/ T[q] = Owed(q)
    OBVIOUS
<1>6. next = IF T[q] = Missing THEN WrittenRow(row, TRUE)
             ELSE IF T[q].claimed THEN [T[q] EXCEPT !.missing = FALSE]
             ELSE RefreshedBy(T[q], row)
    OBVIOUS
<1> HIDE DEF q, next, b
<1>9. next = Owed(q) /\ Owed(q) # Missing
  <2>1. CASE b = Missing
    <3>1. Owed(q) = WrittenRow(row, TRUE)
        BY <1>3, <2>1
    <3>2. Owed(q) \in ImportedRows /\ ~Owed(q).claimed /\ RefreshedBy(Owed(q), row) = Owed(q)
        BY <1>4, <3>1, RewriteChangesNothing
    <3> QED
        BY <1>1, <1>5, <1>6, <2>1, <3>1, <3>2
  <2>2. CASE b # Missing /\ b.claimed
    <3>1. Owed(q) = [b EXCEPT !.missing = FALSE] /\ b \in ImportedRows
        BY <1>1, <1>3, <2>2
    <3>2. Owed(q) \in ImportedRows /\ Owed(q).claimed /\ [Owed(q) EXCEPT !.missing = FALSE] = Owed(q)
        BY <2>2, <3>1, UnmarkedIsTyped
    <3>3. CASE T[q] = b
        BY <1>1, <1>6, <2>2, <3>1, <3>2, <3>3
    <3>4. CASE T[q] = Owed(q)
        BY <1>1, <1>6, <3>2, <3>4
    <3> QED
        BY <1>5, <3>3, <3>4
  <2>3. CASE b # Missing /\ ~b.claimed
    <3>1. Owed(q) = WrittenRow(row, b.active) /\ b \in ImportedRows /\ b.active \in BOOLEAN
        BY <1>1, <1>3, <2>3 DEF ImportedRows
    <3>2. Owed(q) \in ImportedRows /\ ~Owed(q).claimed /\ RefreshedBy(Owed(q), row) = Owed(q)
        BY <1>4, <3>1, RewriteChangesNothing
    <3>3. RefreshedBy(b, row) = Owed(q)
        BY <2>3, <3>1, RefreshWrites
    <3>4. CASE T[q] = b
        BY <1>1, <1>6, <2>3, <3>2, <3>3, <3>4
    <3>5. CASE T[q] = Owed(q)
        BY <1>1, <1>6, <3>2, <3>5
    <3> QED
        BY <1>5, <3>4, <3>5
  <2> QED
      BY <2>1, <2>2, <2>3
<1> HIDE DEF next
<1>7. Upserted(T, row)[q] = next /\ \A p \in Sources \X Keys : p # q => Upserted(T, row)[p] = T[p]
    BY <1>1, <1>2
<1>8. Upserted(T, row) = [p \in Sources \X Keys |-> Upserted(T, row)[p]]
    BY <1>1, <1>2
<1> QED
    BY <1>9, <1>7, <1>8 DEF q, Exists, Pays

(* What a source does not supply any more. *)
LEMMA SuppliedHasARow ==
    ASSUME NEW src, NEW p, p[1] = src, NEW k, p = <<src, k>>
    PROVE  p \in {Place(row) : row \in RowsOf(src)} <=> Supplying(p) # {}
<1>1. ASSUME NEW n \in Supplying(p)
      PROVE  p \in {Place(row) : row \in RowsOf(src)}
  <2>1. n \in ValidRecords /\ Place(RowAt(n)) = p
      BY SupplyingAreValid
  <2>2. RowAt(n).source = src
      BY <2>1 DEF Place
  <2> QED
      BY <2>1, <2>2 DEF RowsOf
<1>2. ASSUME NEW row \in RowsOf(src), p = Place(row)
      PROVE  Supplying(p) # {}
  <2>1. PICK n \in ValidRecords : row = RowAt(n)
      BY DEF RowsOf
  <2> QED
      BY <1>2, <2>1, SupplyingAreValid
<1> QED
    BY <1>1, <1>2

LEMMA GoneAreUnsupplied ==
    ASSUME NEW T, NEW src \in Sources, NEW p
    PROVE  p \in NoLongerSupplied(T, src) <=>
             /\ p \in Sources \X Keys /\ p[1] = src
             /\ Exists(T, p) /\ T[p].active /\ ~T[p].missing /\ Supplying(p) = {}
<1>1. p \in {src} \X Keys <=> p \in Sources \X Keys /\ p[1] = src
    OBVIOUS
<1>2. p \in {src} \X Keys => (p \in {Place(row) : row \in RowsOf(src)} <=> Supplying(p) # {})
  <2> SUFFICES ASSUME NEW k \in Keys, p = <<src, k>>
               PROVE  p \in {Place(row) : row \in RowsOf(src)} <=> Supplying(p) # {}
      OBVIOUS
  <2>1. p[1] = src
      OBVIOUS
  <2> QED
      BY <2>1, SuppliedHasARow
<1> QED
    BY <1>1, <1>2 DEF NoLongerSupplied

LEMMA MarkedAreInSync ==
    ASSUME batch \in Batches
    PROVE  /\ ToMark \subseteq Sources
           /\ \A src \in Sources : src \in ToMark <=> IsInSync(src) /\ batch.mark_missing
<1>1. batch.source \in Sources \cup {NoSource}
    BY RecordsOfBatch
<1>2. \A n \in ValidRecords : RowAt(n).source = ResolveSource(batch.records[n])
    BY DEF RowAt, BuildImportRow
<1>3. \A n \in ValidRecords : RowAt(n).source \in Sources
    BY RecordsOfBatch DEF Place
<1>4. SourcesInSync \subseteq Sources
    BY <1>1, <1>3 DEF SourcesInSync
<1>5. \A src \in Sources : src \in SourcesInSync <=> IsInSync(src)
    BY <1>2, PlanAssumption DEF SourcesInSync, IsInSync, ValidRecords
<1> QED
    BY <1>4, <1>5 DEF ToMark

LEMMA OwedToUnsupplied ==
    ASSUME batch \in Batches, NEW p \in Sources \X Keys, Supplying(p) = {}
    PROVE  Owed(p) = IF p[1] \in ToMark /\ Exists(before, p) /\ before[p].active
                     THEN [before[p] EXCEPT !.missing = TRUE] ELSE before[p]
<1>1. p[1] \in Sources
    OBVIOUS
<1> QED
    BY <1>1, MarkedAreInSync DEF Owed

LEMMA OwedToListed ==
    ASSUME NEW p, Supplying(p) # {}, p \in doNotImport
    PROVE  Owed(p) = before[p]
    BY DEF Owed

(* Marking pays what is owed to what a source does not supply any more,    *)
(* before and after a marking that already did.                            *)
Marked(T, gone) == [p \in DOMAIN T |-> IF p \in gone THEN [T[p] EXCEPT !.missing = TRUE] ELSE T[p]]

LEMMA MarkedIsTyped ==
    ASSUME NEW r \in ImportedRows
    PROVE  LET u == [r EXCEPT !.missing = TRUE]
           IN  u \in ImportedRows /\ u.missing /\ u.active = r.active /\ (r.missing => u = r)
<1> DEFINE u == [r EXCEPT !.missing = TRUE]
<1>1. /\ u \in ImportedRows /\ u.content = r.content /\ u.listing_type = r.listing_type /\ u.missing = TRUE
      /\ u.payment_wallet = r.payment_wallet /\ u.claimed = r.claimed /\ u.active = r.active
    BY DEF ImportedRows
<1>2. r.missing => r.missing = TRUE
    BY DEF ImportedRows
<1> HIDE DEF u
<1>3. r.missing => u = r
    BY <1>1, <1>2, SameRow
<1> QED
    BY <1>1, <1>3 DEF u

LEMMA MarkPays ==
    ASSUME batch \in Batches, before \in Tables, NEW src \in ToMark,
           NEW T, T = [p \in Sources \X Keys |-> T[p]],
           NEW p \in Sources \X Keys, T[p] \in {before[p], Owed(p)}
    PROVE  Marked(T, NoLongerSupplied(T, src))[p] = IF p[1] = src /\ Supplying(p) = {} THEN Owed(p) ELSE T[p]
<1> DEFINE gone == NoLongerSupplied(T, src)
           b == before[p]
<1>1. b \in ImportedRows \cup {Missing} /\ Missing \notin ImportedRows
    BY PlanAssumption
<1>2. src \in Sources
    BY MarkedAreInSync
<1>3. p \in gone <=> p[1] = src /\ Exists(T, p) /\ T[p].active /\ ~T[p].missing /\ Supplying(p) = {}
    BY <1>2, GoneAreUnsupplied
<1> HIDE DEF gone
<1>4. Marked(T, gone)[p] = IF p \in gone THEN [T[p] EXCEPT !.missing = TRUE] ELSE T[p]
  <2>1. DOMAIN T = Sources \X Keys
      OBVIOUS
  <2> QED
      BY <2>1 DEF Marked
<1>5. CASE ~(p[1] = src /\ Supplying(p) = {})
    BY <1>3, <1>4, <1>5 DEF gone
<1>6. CASE p[1] = src /\ Supplying(p) = {}
  <2>1. Owed(p) = IF b # Missing /\ b.active THEN [b EXCEPT !.missing = TRUE] ELSE b
      BY <1>6, OwedToUnsupplied DEF Exists
  <2> HIDE DEF b
  <2>2. T[p] = b \/ T[p] = Owed(p)
      BY DEF b
  <2>3. CASE b = Missing
      BY <1>3, <1>4, <2>1, <2>2, <2>3 DEF Exists, gone
  <2>4. CASE b # Missing /\ ~b.active
      BY <1>3, <1>4, <2>1, <2>2, <2>4 DEF Exists, gone
  <2>5. CASE b # Missing /\ b.active
    <3>1. b \in ImportedRows /\ Owed(p) = [b EXCEPT !.missing = TRUE]
        BY <1>1, <2>1, <2>5
    <3>2. Owed(p) \in ImportedRows /\ Owed(p).missing /\ (b.missing => Owed(p) = b)
        BY <3>1, MarkedIsTyped
    <3>3. CASE T[p] = b /\ ~b.missing
        BY <1>1, <1>3, <1>4, <1>6, <2>5, <3>1, <3>3 DEF Exists, gone
    <3>4. CASE b.missing \/ T[p] = Owed(p)
      <4>1. T[p] = Owed(p) /\ T[p].missing
          BY <2>2, <3>2, <3>4
      <4> QED
          BY <1>3, <1>4, <1>6, <4>1 DEF gone
    <3> QED
        BY <2>2, <3>3, <3>4
  <2> QED
      BY <2>3, <2>4, <2>5
<1> QED
    BY <1>5, <1>6 DEF gone

(* The batch and all that follows from it alone stays. *)
LEMMA BatchStays ==
    ASSUME UNCHANGED <<doNotImport, batch, before>>
    PROVE  /\ Importable' = Importable /\ ToMark' = ToMark /\ Runs' = Runs
           /\ \A src : RowsOf(src)' = RowsOf(src)
           /\ \A p : Supplying(p)' = Supplying(p) /\ Owed(p)' = Owed(p)
<1>1. \A record : ResolveSource(record)' = ResolveSource(record)
    BY DEF ResolveSource
<1>2. \A record : IsValid(record)' = IsValid(record) /\ BuildImportRow(record)' = BuildImportRow(record)
    BY <1>1 DEF IsValid, BuildImportRow
<1>3. ValidRecords' = ValidRecords
    BY <1>2 DEF ValidRecords
<1>4. \A n : RowAt(n)' = RowAt(n)
    BY <1>2 DEF RowAt
<1>5. Importable' = Importable
    BY <1>3, <1>4 DEF Importable
<1>6. \A src : RowsOf(src)' = RowsOf(src)
    BY <1>3, <1>4 DEF RowsOf
<1>7. SourcesInSync' = SourcesInSync
    BY <1>3, <1>4 DEF SourcesInSync
<1>8. ToMark' = ToMark
    BY <1>7 DEF ToMark
<1>9. \A p : Supplying(p)' = Supplying(p)
    BY <1>2 DEF Supplying
<1>10. \A src : IsInSync(src)' = IsInSync(src)
    BY <1>1, <1>2 DEF IsInSync
<1>11. \A p : Owed(p)' = Owed(p)
    BY <1>2, <1>9, <1>10 DEF Owed
<1> QED
    BY <1>5, <1>6, <1>8, <1>9, <1>11 DEF Runs

(* A step of the sync seen with the batch fixed. *)
LEMMA PlanStays ==
    ASSUME PlanInv, UNCHANGED <<doNotImport, batch, before>>, run' \in Runs,
           listings' = [p \in Sources \X Keys |-> listings'[p]],
           \A p \in Sources \X Keys : listings'[p] \in {before[p], Owed(p)},
           run'.pc \in {"apply", "done"} =>
               /\ \A p \in Sources \X Keys :
                     \/ listings'[p] = Owed(p)
                     \/ \E row \in run'.toWrite : Place(row) = p
                     \/ Supplying(p) = {} /\ p[1] \in run'.toMark
               /\ run'.foretold.added = run'.done.added + Cardinality(NewAmong(listings', run'.toWrite))
               /\ run'.foretold.updated = run'.done.updated + Cardinality(OldAmong(listings', run'.toWrite))
               /\ run'.foretold.stale = run'.done.stale + Cardinality(GoneFrom(listings', run'.toMark)),
           run'.pc = "plan" => run'.done = NoCounts,
           run'.pc = "done" => run'.toWrite = {} /\ run'.toMark = {}
    PROVE  PlanInv'
<1>1. PlanTypeOK'
    BY BatchStays DEF PlanInv, PlanTypeOK
<1>2. EachAsBeforeOrOwed' /\ RestIsUnderWay'
    BY BatchStays DEF EachAsBeforeOrOwed, RestIsUnderWay
<1>3. \A src : NoLongerSupplied(listings, src)' = NoLongerSupplied(listings', src)
    BY BatchStays DEF NoLongerSupplied, Exists
<1>4. GoneFrom(listings, run.toMark)' = GoneFrom(listings', run'.toMark)
    BY <1>3 DEF GoneFrom
<1>5. CountsAddUp'
    BY <1>4 DEF CountsAddUp, NewAmong, OldAmong, Exists
<1> QED
    BY <1>1, <1>2, <1>5 DEF PlanInv, NoCounts

LEMMA PlanInitially == PlanInit => PlanInv
<1> SUFFICES ASSUME PlanInit PROVE PlanInv
    OBVIOUS
<1>1. listings \in [Sources \X Keys -> ImportedRows \cup {Missing}] /\ before = listings
    BY PlanAssumption DEF PlanInit
<1>2. NewRun(1) \in Runs /\ NewRun(1).pc = "plan" /\ NewRun(1).done = NoCounts
    BY DEF NewRun, Runs, NoCounts, Counts
<1>3. PlanTypeOK
    BY <1>1, <1>2 DEF PlanInit, PlanTypeOK
<1>4. EachAsBeforeOrOwed
    BY <1>1 DEF EachAsBeforeOrOwed
<1> QED
    BY <1>2, <1>3, <1>4 DEF PlanInit, PlanInv, RestIsUnderWay, CountsAddUp

(* What the counting rests on: the sets that are counted are finite.       *)
LEMMA CountedAreFinite ==
    ASSUME batch \in Batches, NEW T, NEW W \in SUBSET Importable, NEW M \in SUBSET Sources
    PROVE  /\ IsFiniteSet(NewAmong(T, W)) /\ IsFiniteSet(OldAmong(T, W)) /\ IsFiniteSet(GoneFrom(T, M))
           /\ Cardinality(NewAmong(T, W)) \in Nat /\ Cardinality(OldAmong(T, W)) \in Nat
           /\ Cardinality(GoneFrom(T, M)) \in Nat
<1>1. NewAmong(T, W) \in SUBSET Importable /\ OldAmong(T, W) \in SUBSET Importable
    BY DEF NewAmong, OldAmong
<1>2. GoneFrom(T, M) \in SUBSET (Sources \X Keys)
    BY GoneAreUnsupplied DEF GoneFrom
<1>3. IsFiniteSet(Sources \X Keys)
    BY BatchAssumption, FS_Product
<1>4. IsFiniteSet(NewAmong(T, W)) /\ IsFiniteSet(OldAmong(T, W)) /\ IsFiniteSet(GoneFrom(T, M))
    BY <1>1, <1>2, <1>3, FinitelyManyImported, FS_Subset
<1> QED
    BY <1>4, FS_CardinalityType

(* The dry run's counts are those of everything that is left to do. *)
LEMMA DryRunCountsTheRest ==
    ASSUME batch \in Batches, NEW T
    PROVE  /\ DryRunCounts(T) \in Counts
           /\ DryRunCounts(T).added = Cardinality(NewAmong(T, Importable))
           /\ DryRunCounts(T).updated = Cardinality(OldAmong(T, Importable))
           /\ DryRunCounts(T).stale = Cardinality(GoneFrom(T, ToMark))
<1>1. /\ Importable \ {row \in Importable : Exists(T, Place(row))} = NewAmong(T, Importable)
      /\ {row \in Importable : Exists(T, Place(row))} = OldAmong(T, Importable)
    BY DEF NewAmong, OldAmong
<1>2. DryRunCounts(T) = [added |-> Cardinality(NewAmong(T, Importable)),
                         updated |-> Cardinality(OldAmong(T, Importable)),
                         stale |-> Cardinality(GoneFrom(T, ToMark))]
    BY <1>1 DEF DryRunCounts, GoneFrom
<1>3. ToMark \in SUBSET Sources
    BY MarkedAreInSync
<1>4. /\ Cardinality(NewAmong(T, Importable)) \in Nat /\ Cardinality(OldAmong(T, Importable)) \in Nat
      /\ Cardinality(GoneFrom(T, ToMark)) \in Nat
    BY <1>3, CountedAreFinite
<1> QED
    BY <1>2, <1>4 DEF Counts

LEMMA PlanSyncStep ==
    ASSUME PlanInv, PlanSync
    PROVE  PlanInv'
<1> DEFINE r == [run EXCEPT !.pc = "apply", !.toWrite = Importable, !.toMark = ToMark,
                            !.foretold = DryRunCounts(listings)]
<1>1. /\ batch \in Batches /\ run \in Runs /\ run.done = NoCounts /\ before \in Tables
      /\ listings = [p \in Sources \X Keys |-> listings[p]]
      /\ \A p \in Sources \X Keys : listings[p] \in {before[p], Owed(p)}
    BY DEF PlanSync, PlanInv, PlanTypeOK, EachAsBeforeOrOwed
<1>2. run' = r /\ UNCHANGED <<listings, doNotImport, batch, before>>
    BY DEF PlanSync
<1>3. /\ r.pc = "apply" /\ r.toWrite = Importable /\ r.toMark = ToMark /\ r.done = NoCounts
      /\ r.foretold = DryRunCounts(listings) /\ r \in Runs
  <2>1. DryRunCounts(listings) \in Counts
      BY <1>1, DryRunCountsTheRest
  <2> QED
      BY <1>1, <2>1 DEF Runs
<1> HIDE DEF r
<1>4. ASSUME NEW p \in Sources \X Keys
      PROVE  \/ listings[p] = Owed(p)
             \/ \E row \in Importable : Place(row) = p
             \/ Supplying(p) = {} /\ p[1] \in ToMark
  <2>1. CASE Supplying(p) = {} /\ p[1] \notin ToMark
      BY <1>1, <2>1, OwedToUnsupplied
  <2>2. CASE Supplying(p) # {} /\ p \in doNotImport
      BY <1>1, <2>2, OwedToListed
  <2>3. CASE Supplying(p) # {} /\ p \notin doNotImport
      BY <1>1, <2>3, LastIsImported
  <2> QED
      BY <2>1, <2>2, <2>3
<1>5. /\ r.foretold.added = r.done.added + Cardinality(NewAmong(listings, r.toWrite))
      /\ r.foretold.updated = r.done.updated + Cardinality(OldAmong(listings, r.toWrite))
      /\ r.foretold.stale = r.done.stale + Cardinality(GoneFrom(listings, r.toMark))
  <2>1. ToMark \in SUBSET Sources
      BY <1>1, MarkedAreInSync
  <2>2. /\ Cardinality(NewAmong(listings, Importable)) \in Nat
        /\ Cardinality(OldAmong(listings, Importable)) \in Nat
        /\ Cardinality(GoneFrom(listings, ToMark)) \in Nat
      BY <1>1, <2>1, CountedAreFinite
  <2>3. r.done.added = 0 /\ r.done.updated = 0 /\ r.done.stale = 0
      BY <1>3 DEF NoCounts
  <2> QED
      BY <1>1, <1>3, <2>2, <2>3, DryRunCountsTheRest
<1>6. \A p \in Sources \X Keys : listings'[p] \in {before[p], Owed(p)}
    BY <1>1, <1>2
<1>7. /\ \A p \in Sources \X Keys :
            \/ listings'[p] = Owed(p)
            \/ \E row \in run'.toWrite : Place(row) = p
            \/ Supplying(p) = {} /\ p[1] \in run'.toMark
      /\ run'.foretold.added = run'.done.added + Cardinality(NewAmong(listings', run'.toWrite))
      /\ run'.foretold.updated = run'.done.updated + Cardinality(OldAmong(listings', run'.toWrite))
      /\ run'.foretold.stale = run'.done.stale + Cardinality(GoneFrom(listings', run'.toMark))
    BY <1>2, <1>3, <1>4, <1>5
<1>8. run' \in Runs /\ run'.pc = "apply" /\ listings' = [p \in Sources \X Keys |-> listings'[p]]
    BY <1>1, <1>2, <1>3
<1> QED
    BY <1>2, <1>6, <1>7, <1>8, PlanStays

(* The steps that only end an attempt or begin one. *)
LEMMA TurningStep ==
    ASSUME PlanInv, PlanRaises \/ FinishSync \/ BreakOff \/ RunAgain
                    \/ \E row \in run.toWrite : UpsertRefused(row)
    PROVE  PlanInv'
<1>1. /\ run \in Runs /\ listings = [p \in Sources \X Keys |-> listings[p]]
      /\ \A p \in Sources \X Keys : listings[p] \in {before[p], Owed(p)}
    BY DEF PlanInv, PlanTypeOK, EachAsBeforeOrOwed
<1>2. UNCHANGED <<listings, doNotImport, batch, before>>
    BY DEF PlanRaises, FinishSync, BreakOff, RunAgain, UpsertRefused
<1>3. \A p \in Sources \X Keys : listings'[p] \in {before[p], Owed(p)}
    BY <1>1, <1>2
<1>4. CASE PlanRaises \/ BreakOff \/ \E row \in run.toWrite : UpsertRefused(row)
  <2>1. PICK pc \in {"raised", "refused", "broken"} : run' = [run EXCEPT !.pc = pc]
      BY <1>4 DEF PlanRaises, BreakOff, UpsertRefused
  <2>2. run' \in Runs /\ run'.pc = pc
      BY <1>1, <2>1 DEF Runs
  <2> QED
      BY <1>1, <1>2, <1>3, <2>2, PlanStays
<1>5. CASE FinishSync
  <2>1. /\ run.pc = "apply" /\ run.toWrite = {} /\ run.toMark = {} /\ run' = [run EXCEPT !.pc = "done"]
      BY <1>5 DEF FinishSync
  <2>2. /\ run' \in Runs /\ run'.pc = "done" /\ run'.toWrite = run.toWrite /\ run'.toMark = run.toMark
        /\ run'.done = run.done /\ run'.foretold = run.foretold
      BY <1>1, <2>1 DEF Runs
  <2>3. /\ \A p \in Sources \X Keys :
              \/ listings'[p] = Owed(p)
              \/ \E row \in run'.toWrite : Place(row) = p
              \/ Supplying(p) = {} /\ p[1] \in run'.toMark
        /\ run'.foretold.added = run'.done.added + Cardinality(NewAmong(listings', run'.toWrite))
        /\ run'.foretold.updated = run'.done.updated + Cardinality(OldAmong(listings', run'.toWrite))
        /\ run'.foretold.stale = run'.done.stale + Cardinality(GoneFrom(listings', run'.toMark))
      BY <1>2, <2>1, <2>2 DEF PlanInv, RestIsUnderWay, CountsAddUp
  <2> QED
      BY <1>1, <1>2, <1>3, <2>1, <2>2, <2>3, PlanStays
<1>6. CASE RunAgain
  <2>1. run' = NewRun(run.attempt + 1)
      BY <1>6 DEF RunAgain
  <2>2. run' \in Runs /\ run'.pc = "plan" /\ run'.done = NoCounts
      BY <1>1, <2>1 DEF NewRun, Runs, NoCounts, Counts
  <2> QED
      BY <1>1, <1>2, <1>3, <2>2, PlanStays
<1> QED
    BY <1>4, <1>5, <1>6

(* Writing one row counts it, and leaves the others as they were counted. *)
CountsOne(T, U, W, row, M) ==
    /\ Exists(T, Place(row)) =>
         /\ Cardinality(NewAmong(U, W \ {row})) = Cardinality(NewAmong(T, W))
         /\ Cardinality(OldAmong(U, W \ {row})) + 1 = Cardinality(OldAmong(T, W))
    /\ ~Exists(T, Place(row)) =>
         /\ Cardinality(NewAmong(U, W \ {row})) + 1 = Cardinality(NewAmong(T, W))
         /\ Cardinality(OldAmong(U, W \ {row})) = Cardinality(OldAmong(T, W))
    /\ GoneFrom(U, M) = GoneFrom(T, M)

LEMMA WrittenIsCounted ==
    ASSUME batch \in Batches, NEW W \in SUBSET Importable, NEW row \in W, NEW M \in SUBSET Sources,
           NEW T, NEW U, Exists(U, Place(row)),
           \A p \in Sources \X Keys : p # Place(row) => U[p] = T[p]
    PROVE  CountsOne(T, U, W, row, M)
<1>1. \A other \in W \ {row} : Exists(U, Place(other)) <=> Exists(T, Place(other))
  <2> SUFFICES ASSUME NEW other \in W \ {row}
               PROVE  Exists(U, Place(other)) <=> Exists(T, Place(other))
      OBVIOUS
  <2>1. Place(other) # Place(row) /\ Place(other) \in Sources \X Keys
      BY OneImportedPerPlace, ImportedIsLast
  <2> QED
      BY <2>1 DEF Exists
<1>2. /\ NewAmong(U, W \ {row}) = NewAmong(T, W) \ {row}
      /\ OldAmong(U, W \ {row}) = OldAmong(T, W) \ {row}
      /\ row \in NewAmong(T, W) <=> ~Exists(T, Place(row))
      /\ row \in OldAmong(T, W) <=> Exists(T, Place(row))
    BY <1>1 DEF NewAmong, OldAmong
<1>3. /\ IsFiniteSet(NewAmong(T, W)) /\ IsFiniteSet(OldAmong(T, W))
      /\ Cardinality(NewAmong(T, W)) \in Nat /\ Cardinality(OldAmong(T, W)) \in Nat
    BY CountedAreFinite
<1>4. /\ Cardinality(NewAmong(T, W) \ {row}) =
           IF row \in NewAmong(T, W) THEN Cardinality(NewAmong(T, W)) - 1 ELSE Cardinality(NewAmong(T, W))
      /\ Cardinality(OldAmong(T, W) \ {row}) =
           IF row \in OldAmong(T, W) THEN Cardinality(OldAmong(T, W)) - 1 ELSE Cardinality(OldAmong(T, W))
    BY <1>3, FS_RemoveElement
<1>5. \A src \in M : NoLongerSupplied(U, src) = NoLongerSupplied(T, src)
  <2> SUFFICES ASSUME NEW src \in M, NEW p
               PROVE  p \in NoLongerSupplied(U, src) <=> p \in NoLongerSupplied(T, src)
      BY DEF NoLongerSupplied
  <2>1. Supplying(Place(row)) # {}
      BY ImportedIsLast
  <2>2. p \in Sources \X Keys /\ Supplying(p) = {} => U[p] = T[p]
      BY <2>1
  <2> QED
      BY <2>2, GoneAreUnsupplied DEF Exists
<1>6. GoneFrom(U, M) = GoneFrom(T, M)
    BY <1>5 DEF GoneFrom
<1>7. CASE Exists(T, Place(row))
  <2>1. row \in OldAmong(T, W) /\ row \notin NewAmong(T, W)
      BY <1>2, <1>7
  <2>2. /\ Cardinality(NewAmong(U, W \ {row})) = Cardinality(NewAmong(T, W))
        /\ Cardinality(OldAmong(U, W \ {row})) = Cardinality(OldAmong(T, W)) - 1
      BY <1>2, <1>4, <2>1
  <2> QED
      BY <1>3, <1>6, <1>7, <2>2 DEF CountsOne
<1>8. CASE ~Exists(T, Place(row))
  <2>1. row \in NewAmong(T, W) /\ row \notin OldAmong(T, W)
      BY <1>2, <1>8
  <2>2. /\ Cardinality(NewAmong(U, W \ {row})) = Cardinality(NewAmong(T, W)) - 1
        /\ Cardinality(OldAmong(U, W \ {row})) = Cardinality(OldAmong(T, W))
      BY <1>2, <1>4, <2>1
  <2> QED
      BY <1>3, <1>6, <1>8, <2>2 DEF CountsOne
<1> QED
    BY <1>7, <1>8

LEMMA UpsertStep ==
    ASSUME PlanInv, NEW row \in run.toWrite, Upsert(row)
    PROVE  PlanInv'
<1> DEFINE U == Upserted(listings, row)
<1>1. /\ batch \in Batches /\ run \in Runs /\ before \in Tables
      /\ listings = [p \in Sources \X Keys |-> listings[p]]
      /\ \A p \in Sources \X Keys : listings[p] \in {before[p], Owed(p)}
    BY DEF PlanInv, PlanTypeOK, EachAsBeforeOrOwed
<1>2. /\ run.pc = "apply" /\ listings' = U /\ UNCHANGED <<doNotImport, batch, before>>
      /\ run' = [run EXCEPT !.toWrite = @ \ {row},
                            !.done.added = IF Exists(listings, Place(row)) THEN @ ELSE @ + 1,
                            !.done.updated = IF Exists(listings, Place(row)) THEN @ + 1 ELSE @]
    BY DEF Upsert
<1>3. row \in Importable /\ run.toWrite \in SUBSET Importable /\ run.toMark \in SUBSET Sources
    BY <1>1, MarkedAreInSync DEF Runs
<1>4. Place(row) \in Sources \X Keys
    BY <1>1, <1>3, ImportedIsLast
<1>5. /\ U = [p \in Sources \X Keys |-> U[p]] /\ U[Place(row)] = Owed(Place(row))
      /\ \A p \in Sources \X Keys : p # Place(row) => U[p] = listings[p]
      /\ Exists(U, Place(row))
  <2>1. Pays(listings, U, row)
      BY <1>1, <1>3, <1>4, UpsertPays
  <2> HIDE DEF U
  <2> QED
      BY <2>1 DEF Pays
<1> HIDE DEF U
<1>6. /\ run'.pc = "apply" /\ run'.toWrite = run.toWrite \ {row} /\ run'.toMark = run.toMark
      /\ run'.foretold = run.foretold /\ run'.done.stale = run.done.stale
      /\ run'.done.added = IF Exists(listings, Place(row)) THEN run.done.added ELSE run.done.added + 1
      /\ run'.done.updated = IF Exists(listings, Place(row)) THEN run.done.updated + 1 ELSE run.done.updated
      /\ run' \in Runs
  <2>1. run.done \in Counts /\ run.done.added \in Nat /\ run.done.updated \in Nat
      BY <1>1 DEF Runs, Counts
  <2> DEFINE a == IF Exists(listings, Place(row)) THEN run.done.added ELSE run.done.added + 1
             u == IF Exists(listings, Place(row)) THEN run.done.updated + 1 ELSE run.done.updated
  <2>2. run' = [run EXCEPT !.toWrite = run.toWrite \ {row},
                           !.done = [run.done EXCEPT !.added = a, !.updated = u]]
      BY <1>1, <1>2, <2>1 DEF Runs, Counts
  <2>3. run'.done = [run.done EXCEPT !.added = a, !.updated = u]
      BY <1>1, <2>2 DEF Runs
  <2>4. run'.done \in Counts
    <3>1. a \in Nat /\ u \in Nat
        BY <2>1
    <3> HIDE DEF a, u
    <3> QED
        BY <2>1, <2>3, <3>1 DEF Counts
  <2>5. run' \in Runs
      BY <1>1, <2>2, <2>3, <2>4 DEF Runs
  <2> QED
      BY <1>1, <1>2, <2>1, <2>2, <2>3, <2>5 DEF Runs, Counts
<1>7. \A p \in Sources \X Keys : listings'[p] \in {before[p], Owed(p)}
    BY <1>1, <1>2, <1>5
<1>8. \A p \in Sources \X Keys :
         \/ listings'[p] = Owed(p)
         \/ \E other \in run'.toWrite : Place(other) = p
         \/ Supplying(p) = {} /\ p[1] \in run'.toMark
  <2> SUFFICES ASSUME NEW p \in Sources \X Keys, p # Place(row)
               PROVE  \/ listings'[p] = Owed(p)
                      \/ \E other \in run'.toWrite : Place(other) = p
                      \/ Supplying(p) = {} /\ p[1] \in run'.toMark
      BY <1>2, <1>5
  <2>1. \/ listings[p] = Owed(p)
        \/ \E other \in run.toWrite : Place(other) = p
        \/ Supplying(p) = {} /\ p[1] \in run.toMark
      BY <1>2 DEF PlanInv, RestIsUnderWay
  <2> QED
      BY <1>2, <1>5, <1>6, <2>1
<1>9. /\ run'.foretold.added = run'.done.added + Cardinality(NewAmong(listings', run'.toWrite))
      /\ run'.foretold.updated = run'.done.updated + Cardinality(OldAmong(listings', run'.toWrite))
      /\ run'.foretold.stale = run'.done.stale + Cardinality(GoneFrom(listings', run'.toMark))
  <2>1. /\ run.foretold.added = run.done.added + Cardinality(NewAmong(listings, run.toWrite))
        /\ run.foretold.updated = run.done.updated + Cardinality(OldAmong(listings, run.toWrite))
        /\ run.foretold.stale = run.done.stale + Cardinality(GoneFrom(listings, run.toMark))
      BY <1>2 DEF PlanInv, CountsAddUp
  <2>2. /\ Cardinality(NewAmong(U, run.toWrite \ {row})) \in Nat
        /\ Cardinality(OldAmong(U, run.toWrite \ {row})) \in Nat
        /\ run.done.added \in Nat /\ run.done.updated \in Nat
    <3>1. run.toWrite \ {row} \in SUBSET Importable
        BY <1>3
    <3> QED
        BY <1>1, <1>3, <3>1, CountedAreFinite DEF Runs, Counts
  <2>3. /\ Exists(listings, Place(row)) =>
             /\ Cardinality(NewAmong(U, run.toWrite \ {row})) = Cardinality(NewAmong(listings, run.toWrite))
             /\ Cardinality(OldAmong(U, run.toWrite \ {row})) + 1 = Cardinality(OldAmong(listings, run.toWrite))
        /\ ~Exists(listings, Place(row)) =>
             /\ Cardinality(NewAmong(U, run.toWrite \ {row})) + 1 = Cardinality(NewAmong(listings, run.toWrite))
             /\ Cardinality(OldAmong(U, run.toWrite \ {row})) = Cardinality(OldAmong(listings, run.toWrite))
        /\ GoneFrom(U, run.toMark) = GoneFrom(listings, run.toMark)
    <3>1. batch \in Batches
        BY <1>1
    <3>2. Exists(U, Place(row)) /\ \A p \in Sources \X Keys : p # Place(row) => U[p] = listings[p]
        BY <1>5
    <3>3. CountsOne(listings, U, run.toWrite, row, run.toMark)
        BY <1>3, <3>1, <3>2, WrittenIsCounted
    <3> QED
        BY <3>3 DEF CountsOne
  <2> QED
      BY <1>2, <1>6, <2>1, <2>2, <2>3
<1>10. listings' = [p \in Sources \X Keys |-> listings'[p]]
    BY <1>2, <1>5
<1> QED
    BY <1>2, <1>6, <1>7, <1>8, <1>9, <1>10, PlanStays

(* Marking for one source counts what it marks, and nothing of another's.  *)
LEMMA MarkStep ==
    ASSUME PlanInv, NEW src \in run.toMark, MarkMissing(src)
    PROVE  PlanInv'
<1> DEFINE gone == NoLongerSupplied(listings, src)
           U == Marked(listings, gone)
<1>1. /\ batch \in Batches /\ run \in Runs /\ before \in Tables
      /\ listings = [p \in Sources \X Keys |-> listings[p]]
      /\ \A p \in Sources \X Keys : listings[p] \in {before[p], Owed(p)}
    BY DEF PlanInv, PlanTypeOK, EachAsBeforeOrOwed
<1>2. /\ run.pc = "apply" /\ run.toWrite = {} /\ listings' = U /\ UNCHANGED <<doNotImport, batch, before>>
      /\ run' = [run EXCEPT !.toMark = @ \ {src}, !.done.stale = @ + Cardinality(gone)]
    BY DEF MarkMissing, Marked
<1>3. src \in ToMark /\ src \in Sources /\ run.toMark \in SUBSET Sources
    BY <1>1, MarkedAreInSync DEF Runs
<1>4. \A p \in Sources \X Keys : U[p] = IF p[1] = src /\ Supplying(p) = {} THEN Owed(p) ELSE listings[p]
  <2> SUFFICES ASSUME NEW p \in Sources \X Keys
               PROVE  U[p] = IF p[1] = src /\ Supplying(p) = {} THEN Owed(p) ELSE listings[p]
      OBVIOUS
  <2>1. listings[p] \in {before[p], Owed(p)}
      BY <1>1
  <2>2. batch \in Batches /\ before \in Tables /\ src \in ToMark /\ listings = [q \in Sources \X Keys |-> listings[q]]
      BY <1>1, <1>3
  <2> QED
      BY <2>1, <2>2, MarkPays
<1>5. U = [p \in Sources \X Keys |-> U[p]]
  <2>1. DOMAIN listings = Sources \X Keys
      BY <1>1
  <2> QED
      BY <2>1 DEF Marked
<1>6. \A M \in SUBSET Sources : src \notin M => GoneFrom(U, M) = GoneFrom(listings, M)
  <2> HIDE DEF U
  <2>1. ASSUME NEW other \in Sources, other # src
        PROVE  NoLongerSupplied(U, other) = NoLongerSupplied(listings, other)
    <3>1. \A p \in Sources \X Keys : p[1] = other => U[p] = listings[p]
        BY <1>4, <2>1
    <3>2. \A p : p \in NoLongerSupplied(U, other) <=> p \in NoLongerSupplied(listings, other)
        BY <3>1, GoneAreUnsupplied DEF Exists
    <3> QED
        BY <3>2
  <2> QED
      BY <2>1 DEF GoneFrom
<1>7. /\ GoneFrom(listings, run.toMark) = gone \cup GoneFrom(listings, run.toMark \ {src})
      /\ gone \cap GoneFrom(listings, run.toMark \ {src}) = {}
  <2>1. ASSUME NEW p \in gone, NEW other \in run.toMark \ {src}
        PROVE  p \notin NoLongerSupplied(listings, other)
      BY <1>3, GoneAreUnsupplied
  <2> HIDE DEF gone
  <2>2. gone \cap GoneFrom(listings, run.toMark \ {src}) = {}
      BY <2>1 DEF GoneFrom
  <2> QED
      BY <2>2 DEF GoneFrom, gone
<1>8. /\ Cardinality(gone) \in Nat
      /\ Cardinality(GoneFrom(listings, run.toMark \ {src})) \in Nat
      /\ Cardinality(GoneFrom(listings, run.toMark)) =
           Cardinality(gone) + Cardinality(GoneFrom(listings, run.toMark \ {src}))
  <2>1. gone = GoneFrom(listings, {src})
      BY DEF GoneFrom
  <2>2. {} \in SUBSET Importable /\ {src} \in SUBSET Sources /\ run.toMark \ {src} \in SUBSET Sources
      BY <1>3
  <2>3. /\ IsFiniteSet(gone) /\ IsFiniteSet(GoneFrom(listings, run.toMark \ {src}))
        /\ Cardinality(gone) \in Nat /\ Cardinality(GoneFrom(listings, run.toMark \ {src})) \in Nat
      BY <1>1, <2>1, <2>2, CountedAreFinite
  <2> DEFINE rest == GoneFrom(listings, run.toMark \ {src})
  <2> HIDE DEF gone
  <2>4. /\ GoneFrom(listings, run.toMark) = gone \cup rest /\ gone \cap rest = {}
        /\ IsFiniteSet(gone) /\ IsFiniteSet(rest)
      BY <1>7, <2>3
  <2> HIDE DEF rest
  <2>5. Cardinality(gone \cup rest) = Cardinality(gone) + Cardinality(rest)
      BY <2>4, DisjointCount
  <2> QED
      BY <2>3, <2>4, <2>5 DEF rest
<1> HIDE DEF U, gone
<1>9. /\ run'.pc = "apply" /\ run'.toWrite = {} /\ run'.toMark = run.toMark \ {src}
      /\ run'.foretold = run.foretold /\ run'.done.added = run.done.added /\ run'.done.updated = run.done.updated
      /\ run'.done.stale = run.done.stale + Cardinality(gone)
      /\ run' \in Runs
  <2>1. run.done \in Counts /\ run.done.stale \in Nat
      BY <1>1 DEF Runs, Counts
  <2>2. run' = [run EXCEPT !.toMark = run.toMark \ {src},
                           !.done = [run.done EXCEPT !.stale = run.done.stale + Cardinality(gone)]]
      BY <1>1, <1>2, <2>1 DEF Runs, Counts
  <2>3. run'.done = [run.done EXCEPT !.stale = run.done.stale + Cardinality(gone)]
      BY <1>1, <2>2 DEF Runs
  <2>4. run'.done \in Counts
      BY <1>8, <2>1, <2>3 DEF Counts
  <2>5. run' \in Runs
      BY <1>1, <2>2, <2>3, <2>4 DEF Runs
  <2> QED
      BY <1>1, <1>2, <2>1, <2>2, <2>3, <2>5 DEF Runs, Counts
<1>10. \A p \in Sources \X Keys : listings'[p] \in {before[p], Owed(p)}
    BY <1>1, <1>2, <1>4
<1>11. \A p \in Sources \X Keys :
         \/ listings'[p] = Owed(p)
         \/ \E row \in run'.toWrite : Place(row) = p
         \/ Supplying(p) = {} /\ p[1] \in run'.toMark
  <2> SUFFICES ASSUME NEW p \in Sources \X Keys, ~(p[1] = src /\ Supplying(p) = {})
               PROVE  \/ listings'[p] = Owed(p)
                      \/ Supplying(p) = {} /\ p[1] \in run'.toMark
      BY <1>2, <1>4
  <2>1. \/ listings[p] = Owed(p)
        \/ Supplying(p) = {} /\ p[1] \in run.toMark
      BY <1>2 DEF PlanInv, RestIsUnderWay
  <2> QED
      BY <1>2, <1>4, <1>9, <2>1
<1>12. /\ run'.foretold.added = run'.done.added + Cardinality(NewAmong(listings', run'.toWrite))
       /\ run'.foretold.updated = run'.done.updated + Cardinality(OldAmong(listings', run'.toWrite))
       /\ run'.foretold.stale = run'.done.stale + Cardinality(GoneFrom(listings', run'.toMark))
  <2>1. /\ run.foretold.added = run.done.added + Cardinality(NewAmong(listings, run.toWrite))
        /\ run.foretold.updated = run.done.updated + Cardinality(OldAmong(listings, run.toWrite))
        /\ run.foretold.stale = run.done.stale + Cardinality(GoneFrom(listings, run.toMark))
        /\ run.done.stale \in Nat
      BY <1>1, <1>2 DEF PlanInv, CountsAddUp, Runs, Counts
  <2>2. NewAmong(U, {}) = NewAmong(listings, {}) /\ OldAmong(U, {}) = OldAmong(listings, {})
      BY DEF NewAmong, OldAmong
  <2>3. GoneFrom(U, run.toMark \ {src}) = GoneFrom(listings, run.toMark \ {src})
      BY <1>3, <1>6
  <2>4. run.foretold.stale = run.done.stale + Cardinality(gone) + Cardinality(GoneFrom(listings, run.toMark \ {src}))
      BY <1>8, <2>1
  <2> QED
      BY <1>2, <1>9, <2>1, <2>2, <2>3, <2>4
<1>13. listings' = [p \in Sources \X Keys |-> listings'[p]]
    BY <1>2, <1>5
<1> QED
    BY <1>2, <1>9, <1>10, <1>11, <1>12, <1>13, PlanStays

LEMMA PlanInvStep == PlanInv /\ [PlanNext]_planVars => PlanInv'
<1> SUFFICES ASSUME PlanInv, [PlanNext]_planVars PROVE PlanInv'
    OBVIOUS
<1>1. CASE UNCHANGED planVars
  <2>1. UNCHANGED <<listings, doNotImport, batch, run, before>>
      BY <1>1 DEF planVars
  <2>2. /\ run' \in Runs /\ listings' = [p \in Sources \X Keys |-> listings'[p]]
        /\ \A p \in Sources \X Keys : listings'[p] \in {before[p], Owed(p)}
      BY <2>1 DEF PlanInv, PlanTypeOK, EachAsBeforeOrOwed
  <2>3. run'.pc \in {"apply", "done"} =>
           /\ \A p \in Sources \X Keys :
                 \/ listings'[p] = Owed(p)
                 \/ \E row \in run'.toWrite : Place(row) = p
                 \/ Supplying(p) = {} /\ p[1] \in run'.toMark
           /\ run'.foretold.added = run'.done.added + Cardinality(NewAmong(listings', run'.toWrite))
           /\ run'.foretold.updated = run'.done.updated + Cardinality(OldAmong(listings', run'.toWrite))
           /\ run'.foretold.stale = run'.done.stale + Cardinality(GoneFrom(listings', run'.toMark))
      BY <2>1 DEF PlanInv, RestIsUnderWay, CountsAddUp
  <2>4. /\ run'.pc = "plan" => run'.done = NoCounts
        /\ run'.pc = "done" => run'.toWrite = {} /\ run'.toMark = {}
      BY <2>1 DEF PlanInv
  <2> QED
      BY <2>1, <2>2, <2>3, <2>4, PlanStays
<1> QED
    BY <1>1, TurningStep, PlanSyncStep, UpsertStep, MarkStep DEF PlanNext

(* The inductive invariant of the sync of one batch: in every attempt each *)
(* listing is as before the first or as owed, what is not yet as owed has  *)
(* its turn to come, and the counts add up to the dry run's.               *)
THEOREM PlanIsSound == PlanSpec => []PlanInv
  BY PlanInitially, PlanInvStep, PTL DEF PlanSpec

(* However often a sync broke off or was run before, once it completes the *)
(* table is what one undisturbed sync owes (apply_plan).                   *)
THEOREM CompletedSyncIsWhole == PlanSpec => []CompletedSyncOwesNothing
<1>1. PlanInv => CompletedSyncOwesNothing
  <2> SUFFICES ASSUME PlanInv, run.pc = "done", NEW p \in DOMAIN listings
               PROVE  listings[p] = Owed(p)
      BY DEF CompletedSyncOwesNothing
  <2>1. p \in Sources \X Keys /\ run.toWrite = {} /\ run.toMark = {}
      BY DEF PlanInv, PlanTypeOK
  <2> QED
      BY <2>1 DEF PlanInv, RestIsUnderWay
<1> QED
    BY <1>1, PlanIsSound, PTL

(* A sync that completes did what its dry run counted (dry_run_counts).    *)
THEOREM CompletedSyncIsForetold == PlanSpec => []CompletedAsForetold
<1>1. PlanInv => CompletedAsForetold
  <2> SUFFICES ASSUME PlanInv, run.pc = "done"
               PROVE  run.done = run.foretold
      BY DEF CompletedAsForetold
  <2>1. run.done \in Counts /\ run.foretold \in Counts
      BY DEF PlanInv, PlanTypeOK, Runs
  <2>2. run.toWrite = {} /\ run.toMark = {}
      BY DEF PlanInv
  <2>3. NewAmong(listings, {}) = {} /\ OldAmong(listings, {}) = {} /\ GoneFrom(listings, {}) = {}
      BY DEF NewAmong, OldAmong, GoneFrom
  <2>4. /\ run.foretold.added = run.done.added + Cardinality({})
        /\ run.foretold.updated = run.done.updated + Cardinality({})
        /\ run.foretold.stale = run.done.stale + Cardinality({})
      BY <2>2, <2>3 DEF PlanInv, CountsAddUp
  <2>5. /\ run.foretold.added = run.done.added /\ run.foretold.updated = run.done.updated
        /\ run.foretold.stale = run.done.stale
      BY <2>1, <2>4, FS_EmptySet DEF Counts
  <2> QED
      BY <2>1, <2>5 DEF Counts
<1> QED
    BY <1>1, PlanIsSound, PTL

===============================================================================
