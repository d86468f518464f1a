----------------------------- MODULE MCImports -----------------------------
(***************************************************************************)
(* What happens to imports, for TLC: the calls of the import endpoint, the *)
(* sync of one batch, the repair of template links.  The three share no    *)
(* state here, so one of them moves and the others stay as they began.     *)
(***************************************************************************)
EXTENDS MCImportPlan, ImportEndpoint, TemplateRepair, TLC

CONSTANTS c1, c2, i1, i2, r1, github

VARIABLE part
importsVars == <<part, planVars, endpointVars, repairVars>>

ImportsInit ==
    /\ part \in {"endpoint", "batch", "repair"}
    /\ PlanInit
    /\ part # "batch" =>
         /\ \A p \in DOMAIN listings : listings[p] = Missing
         /\ doNotImport = {} /\ batch = CHOOSE b \in Batches : TRUE
    /\ EndpointInit
    /\ RepairInit
    /\ part # "repair" => \A i \in Listings : rows[i].pc = "absent"

(* A sync that was refused, or has no attempt left, is over. *)
SyncIsOver ==
    /\ run.pc \in {"raised", "refused", "broken", "done"}
    /\ run.pc \in {"broken", "done"} => run.attempt = MaxAttempts
    /\ UNCHANGED planVars

ImportsNext ==
    \/ part = "endpoint" /\ EndpointNext /\ UNCHANGED <<part, planVars, repairVars>>
    \/ part = "batch" /\ (PlanNext \/ SyncIsOver) /\ UNCHANGED <<part, endpointVars, repairVars>>
    \/ part = "repair" /\ RepairNext /\ UNCHANGED <<part, planVars, endpointVars>>

ImportsSpec == ImportsInit /\ [][ImportsNext]_importsVars

ImportsSymmetry == Permutations({c1, c2})
=============================================================================
