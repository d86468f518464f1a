---------------------------- MODULE MCBackground ----------------------------
(***************************************************************************)
(* The work a server does in threads behind its requests, for TLC: imports *)
(* over the board, and refreshes of what is known of the verifier.  They   *)
(* share no state, so one of them moves and the other stays as it began.   *)
(***************************************************************************)
EXTENDS MCBoard, MCVerifierInfo

VARIABLE part
backgroundVars == <<part, vars, verifierVars>>

(* Beside the imports the verifier's thread was never started.             *)
BackgroundInit ==
    /\ part \in {"imports", "verifier"}
    /\ Init
    /\ \/ part = "verifier" /\ VerifierInit
       \/ /\ part = "imports" /\ BeforeStart
          /\ refreshing = FALSE /\ thread = [t \in Threads |-> Idle]

BackgroundNext ==
    \/ part = "imports" /\ Next /\ UNCHANGED <<part, verifierVars>>
    \/ part = "verifier" /\ VerifierNext /\ UNCHANGED <<part, vars>>

(* Fair to an import that has its batch and to a running refresh, as       *)
(* FairSpec and VerifierFairSpec are.                                      *)
BackgroundSpec ==
    /\ BackgroundInit /\ [][BackgroundNext]_backgroundVars
    /\ \A p \in EndpointCalls : WF_vars(HasBatch(p) /\ SyncStep(p) /\ UNCHANGED <<lastPurge, req>>)
    /\ \A t \in Threads : WF_verifierVars(RefreshStep(t))
=============================================================================
