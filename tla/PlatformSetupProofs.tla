-------------------------- MODULE PlatformSetupProofs --------------------------
(***************************************************************************)
(* What the store says of the platform is true, and what a run has         *)
(* recorded is in place: proofs about PlatformSetup for any number of      *)
(* runs and versions of the module, with failed, repeated and killed       *)
(* attempts, dry runs, edits of the module and lost outputs.               *)
(***************************************************************************)
EXTENDS PlatformSetup, TLAPS

\* The engine is at a step.
AtStep == {"step", "isdone", "return", "record"} \cup CallNames

\* A command works on a run, at a step or past the last one.
Placed(e) == /\ e.pc \in AtStep => e.idx <= 9
             /\ e.pc # "idle" => e.run \in Runs

TypeInv == TypeOK /\ Placed(eng)

\* What the calls before have left when one that stores an ARN is reached.
CallSound ==
    /\ eng.pc = "StoreOrgID" => aws.org
    /\ eng.pc = "StoreAdminARN" => aws.role = "full"
    /\ eng.pc = "StoreProviderARN" => aws.provider
    /\ eng.pc = "StoreGitHubARN" => aws.github /\ "provider_arn" \in store.keys

IInv == TypeInv /\ StoredIsReal /\ CallSound

\* Before the first run nothing has been planned, stored or recorded.
Traces ==
    /\ eng.pc # "idle" => meta[eng.run] # "none"
    /\ \A r \in Runs : rec[r] # {} => meta[r] # "none"
    /\ (\A r \in Runs : meta[r] = "none") =>
           /\ ~dir.plan.made
           /\ store.plan_has_changes = "none"
           /\ store.applied = "none"

CallsOf(s) == {Calls[s][i] : i \in 1..Len(Calls[s])}

\* What the calls behind an attempt of step s have left.
AttemptOf(s) ==
    /\ eng.pc \in CallNames => eng.pc \in CallsOf(s) /\ eng.out = "none"
    /\ eng.pc = "StoreRootOU" => "org_id" \in store.keys
    /\ eng.pc = "WriteProviderARN" => "target_role_arn" \in store.keys
    /\ eng.pc \in {"return", "record"} => InPlace(s)
    /\ eng.pc = "return" /\ eng.out # "none"
           => s \in {"terraform_plan_org", "terraform_apply_org"}
    /\ eng.pc = "return" /\ s = "terraform_plan_org" /\ eng.out = "false"
           => aws.infra = dir.module

AttemptSound == \A s \in Steps : s = Step => AttemptOf(s)

\* What holds as long as there was no dry run and no edit between runs: the saved
\* plan leads to the module on disk, and the stored outputs are about it.
Level ==
    /\ eng.pc # "idle" => ~eng.dry
    /\ dir.plan.made => dir.plan.target = dir.module
    /\ store.plan_has_changes = "false" => aws.infra = dir.module
    /\ store.applied = "true" => aws.infra = dir.module
    /\ AttemptSound
    /\ \A r \in Runs : \A s \in rec[r] : InPlace(s)

LevelInv == IInv /\ Traces /\ (Clean => Level)

-------------------------------------------------------------------------------
(* The pipeline *)

LEMMA OrderLength == Len(Order) = 9
BY DEF Order

LEMMA CallsNamed == \A i \in 1..9 : /\ Order[i] \in Steps
                                    /\ Calls[Order[i]][1] \in CallNames
<1>. SUFFICES ASSUME NEW i \in 1..9
     PROVE  Order[i] \in Steps /\ Calls[Order[i]][1] \in CallNames
    OBVIOUS
<1>1. Order[i] \in Steps BY OrderLength DEF Steps
<1>2. 1 \in 1..Len(Calls[Order[i]]) BY DEF Order, Calls
<1>. QED BY <1>1, <1>2 DEF CallNames

\* The names of the calls, one by one.
LEMMA StepList ==
    Steps = {"create_org", "create_admin_role", "enable_scp", "terraform_init_org",
             "terraform_plan_org", "terraform_apply_org", "create_oidc_provider",
             "create_github_actions_role", "write_oidc_outputs"}
BY OrderLength DEF Steps, Order

LEMMA CallsByStep ==
    /\ CallsOf("create_org") = {"CreateOrganization", "StoreOrgID", "StoreRootOU"}
    /\ CallsOf("create_admin_role") =
           {"CreateRole", "AttachRolePolicy", "StoreAdminARN"}
    /\ CallsOf("enable_scp") = {"EnablePolicyType"}
    /\ CallsOf("terraform_init_org") = {"TerraformInit"}
    /\ CallsOf("terraform_plan_org") = {"TerraformPlan"}
    /\ CallsOf("terraform_apply_org") = {"TerraformApply"}
    /\ CallsOf("create_oidc_provider") = {"CreateProvider", "StoreProviderARN"}
    /\ CallsOf("create_github_actions_role") = {"CreateGitHubRole", "StoreGitHubARN"}
    /\ CallsOf("write_oidc_outputs") = {"WriteRoleARN", "WriteProviderARN"}
<1>1. /\ CallsOf("create_org") = {"CreateOrganization", "StoreOrgID", "StoreRootOU"}
      /\ CallsOf("create_admin_role") =
             {"CreateRole", "AttachRolePolicy", "StoreAdminARN"}
      /\ CallsOf("enable_scp") = {"EnablePolicyType"}
    BY DEF Calls, CallsOf
<1>2. /\ CallsOf("terraform_init_org") = {"TerraformInit"}
      /\ CallsOf("terraform_plan_org") = {"TerraformPlan"}
      /\ CallsOf("terraform_apply_org") = {"TerraformApply"}
    BY DEF Calls, CallsOf
<1>3. /\ CallsOf("create_oidc_provider") = {"CreateProvider", "StoreProviderARN"}
      /\ CallsOf("create_github_actions_role") = {"CreateGitHubRole", "StoreGitHubARN"}
      /\ CallsOf("write_oidc_outputs") = {"WriteRoleARN", "WriteProviderARN"}
    BY DEF Calls, CallsOf
<1>. QED BY <1>1, <1>2, <1>3

\* The names of the calls, one by one.
LEMMA CallList ==
    CallNames = {"CreateOrganization", "StoreOrgID", "StoreRootOU", "CreateRole",
                 "AttachRolePolicy", "StoreAdminARN", "EnablePolicyType",
                 "TerraformInit", "TerraformPlan", "TerraformApply",
                 "CreateProvider", "StoreProviderARN", "CreateGitHubRole",
                 "StoreGitHubARN", "WriteRoleARN", "WriteProviderARN"}
<1>1. CallNames = UNION {CallsOf(s) : s \in Steps} BY DEF CallNames, CallsOf
<1>. QED BY <1>1, StepList, CallsByStep

-------------------------------------------------------------------------------
(* Types *)

AwsStates == [org : BOOLEAN, scp : BOOLEAN, role : {"none", "bare", "full"},
              infra : Versions, provider : BOOLEAN, github : BOOLEAN]

\* An engine at a step may go anywhere in the attempt, or on to the next step.
LEMMA MoveType ==
    ASSUME TypeInv, eng.pc \in AtStep
    PROVE  /\ \A pc \in AtStep, attempt \in 1..3, out \in Outputs :
                 LET e == [eng EXCEPT !.pc = pc, !.out = out, !.attempt = attempt]
                 IN  e \in Engines /\ Placed(e)
           /\ \A pc \in AtStep, out \in Outputs :
                 LET e == [eng EXCEPT !.pc = pc, !.out = out]
                 IN  e \in Engines /\ Placed(e)
           /\ \A pc \in AtStep : LET e == [eng EXCEPT !.pc = pc]
                                IN  e \in Engines /\ Placed(e)
           /\ NextStep \in Engines /\ Placed(NextStep)
           /\ eng.run \in Runs
           /\ eng.idx \in 1..9
           /\ Step \in Steps
<1>1. eng \in Engines /\ Placed(eng) BY DEF TypeInv, TypeOK
<1>2. eng.pc # "idle" BY CallList DEF AtStep
<1>3. eng.run \in Runs /\ eng.idx \in 1..9
    BY <1>1, <1>2, OrderLength DEF Placed, Engines
<1>4. ASSUME NEW pc \in AtStep, NEW attempt \in 1..3, NEW out \in Outputs
      PROVE  LET e == [eng EXCEPT !.pc = pc, !.out = out, !.attempt = attempt]
             IN  e \in Engines /\ Placed(e)
    <2> DEFINE e == [eng EXCEPT !.pc = pc, !.out = out, !.attempt = attempt]
    <2>1. e \in Engines BY <1>1, <1>4 DEF Engines, AtStep
    <2>2. e.run = eng.run /\ e.idx = eng.idx BY <1>1 DEF Engines
    <2>. QED BY <1>3, <2>1, <2>2 DEF Placed
<1>5. ASSUME NEW pc \in AtStep, NEW out \in Outputs
      PROVE  LET e == [eng EXCEPT !.pc = pc, !.out = out]
             IN  e \in Engines /\ Placed(e)
    <2> DEFINE e == [eng EXCEPT !.pc = pc, !.out = out]
    <2>1. e \in Engines BY <1>1, <1>5 DEF Engines, AtStep
    <2>2. e.run = eng.run /\ e.idx = eng.idx BY <1>1 DEF Engines
    <2>. QED BY <1>3, <2>1, <2>2 DEF Placed
<1>6. ASSUME NEW pc \in AtStep
      PROVE  LET e == [eng EXCEPT !.pc = pc] IN e \in Engines /\ Placed(e)
    <2> DEFINE e == [eng EXCEPT !.pc = pc]
    <2>1. e \in Engines BY <1>1, <1>6 DEF Engines, AtStep
    <2>2. e.run = eng.run /\ e.idx = eng.idx BY <1>1 DEF Engines
    <2>. QED BY <1>3, <2>1, <2>2 DEF Placed
<1>7. NextStep \in Engines /\ Placed(NextStep)
    <2>1. NextStep.run = eng.run /\ NextStep.idx = eng.idx + 1
        BY <1>1 DEF NextStep, Engines
    <2>2. NextStep.pc = IF eng.idx < 9 THEN "step" ELSE "finish"
        BY <1>1, OrderLength DEF NextStep, Engines
    <2>3. NextStep \in Engines
        <3>1. eng.idx + 1 \in 1..(Len(Order) + 1) BY <1>3, OrderLength
        <3> DEFINE pc == IF eng.idx < Len(Order) THEN "step" ELSE "finish"
        <3>2. pc \in {"idle", "step", "isdone", "return", "record", "finish"}
                    \cup CallNames
            OBVIOUS
        <3>3. NextStep = [eng EXCEPT !.pc = pc, !.idx = eng.idx + 1,
                                     !.attempt = 1, !.out = "none"]
            BY <1>1 DEF NextStep
        <3>. HIDE DEF pc
        <3>4. NextStep = [pc |-> pc, run |-> eng.run, dry |-> eng.dry,
                          idx |-> eng.idx + 1, attempt |-> 1, out |-> "none"]
            BY <1>1, <3>3 DEF Engines
        <3>5. eng.dry \in BOOLEAN BY <1>1 DEF Engines
        <3>. QED BY <1>3, <3>1, <3>2, <3>4, <3>5 DEF Engines, Outputs
    <2>4. "finish" \notin AtStep BY CallList DEF AtStep
    <2>. QED BY <1>3, <2>1, <2>2, <2>3, <2>4 DEF Placed
<1>8. Step \in Steps BY <1>3, CallsNamed DEF Step
<1>. QED BY <1>3, <1>4, <1>5, <1>6, <1>7, <1>8

LEMMA IdleType == Idle \in Engines /\ Placed(Idle)
BY OrderLength, CallList DEF Idle, Engines, Placed, AtStep, Outputs

LEMMA EngineType ==
    ASSUME TypeInv, NEW next \in Engines, Placed(next), Engine(next)
    PROVE  TypeInv'
BY DEF TypeInv, TypeOK, Placed, Engine

LEMMA EnterType ==
    ASSUME TypeInv, eng.pc \in AtStep, NEW attempt \in 1..3, Enter(attempt)
    PROVE  TypeInv'
<1>1. eng.idx \in 1..9
    BY OrderLength DEF TypeInv, TypeOK, Placed, Engines
<1>2. Entry.pc \in AtStep /\ Entry.out \in Outputs
    BY <1>1, CallsNamed DEF Entry, DryOutput, Step, AtStep, Outputs
<1>3. PICK e \in Engines : Placed(e) /\ Engine(e)
    BY <1>2, MoveType DEF Enter
<1>. QED BY <1>3, EngineType

LEMMA PutType ==
    ASSUME TypeInv, NEW c \in CallNames, NEW k \in StoreKeys, NEW next \in AtStep,
           Put(c, k, next)
    PROVE  TypeInv'
<1>1. eng' \in Engines /\ Placed(eng')
    BY MoveType DEF Put, Calling, AtStep
<1>2. store' \in [keys : SUBSET StoreKeys, plan_has_changes : Outputs,
                  applied : Outputs]
    BY DEF TypeInv, TypeOK, Put
<1>. QED BY <1>1, <1>2 DEF TypeInv, TypeOK, Placed, Put, Calling

LEMMA CloudType ==
    ASSUME TypeInv, NEW c \in CallNames, NEW new \in AwsStates, NEW next \in AtStep,
           Cloud(c, new, next)
    PROVE  TypeInv'
<1>1. eng' \in Engines /\ Placed(eng')
    BY MoveType DEF Cloud, Calling, AtStep
<1>. QED BY <1>1 DEF TypeInv, TypeOK, Placed, Cloud, Calling, AwsStates

\* A command begins, at the first step.
LEMMA CommandType ==
    ASSUME TypeInv, Command
    PROVE  TypeInv'
<1>1. PICK r \in Runs, dry \in DryRunFlags : StartInit(r, dry) \/ Resume(r, dry)
    BY DEF Command
<1>2. dry \in BOOLEAN BY SetupAssumption
<1>3. Begin(r, dry) BY <1>1 DEF StartInit, Resume
<1>4. eng' \in Engines /\ Placed(eng')
    <2>. DEFINE e == [Idle EXCEPT !.pc = "step", !.run = r, !.dry = dry]
    <2>1. e \in Engines BY <1>2, IdleType DEF Engines
    <2>2. e.run = r /\ e.idx = 1 BY DEF Idle
    <2>3. eng' = e BY <1>3 DEF Begin
    <2>. HIDE DEF e
    <2>. QED BY <2>1, <2>2, <2>3 DEF Placed
<1>5. /\ meta' \in [Runs -> {"none", "running", "succeeded"}]
      /\ past' \in [fresh : SUBSET Runs, dried : SUBSET Runs]
    BY <1>1 DEF StartInit, Resume, DriedBy, TypeInv, TypeOK
<1>. QED BY <1>3, <1>4, <1>5 DEF Begin, TypeInv, TypeOK

\* The steps that only move the engine.
LEMMA EngineStepType ==
    ASSUME TypeInv,
           SkipRecorded \/ Resolve \/ ResolveFails \/ FoundNotDone \/ IsDoneFails
           \/ AttemptFails \/ Kill
    PROVE  TypeInv'
<1>1. CASE SkipRecorded
    <2>1. eng.pc \in AtStep BY <1>1 DEF SkipRecorded, AtStep
    <2>. QED BY <1>1, <2>1, MoveType, EngineType DEF SkipRecorded
<1>2. CASE Resolve
    <2>1. eng.pc \in AtStep BY <1>2 DEF Resolve, AtStep
    <2>2. "isdone" \in AtStep BY DEF AtStep
    <2>3. [eng EXCEPT !.pc = "isdone"] \in Engines
          /\ Placed([eng EXCEPT !.pc = "isdone"])
        BY <2>1, <2>2, MoveType
    <2>. QED BY <1>2, <2>3, EngineType DEF Resolve
<1>3. CASE ResolveFails BY <1>3, IdleType, EngineType DEF ResolveFails
<1>4. CASE Kill BY <1>4, IdleType, EngineType DEF Kill
<1>5. CASE FoundNotDone \/ IsDoneFails
    BY <1>5, EnterType DEF FoundNotDone, IsDoneFails, AtStep
<1>6. CASE AttemptFails
    <2>1. eng.pc \in AtStep BY <1>6 DEF AttemptFails, AtStep
    <2>2. CASE eng.attempt < MaxAttempts(Step) /\ Enter(eng.attempt + 1)
        <3>1. eng.attempt \in 1..3 BY DEF TypeInv, TypeOK, Engines
        <3>2. eng.attempt + 1 \in 1..3 BY <2>2, <3>1 DEF MaxAttempts
        <3>. QED BY <2>1, <2>2, <3>2, EnterType
    <2>3. CASE Engine(Idle) BY <2>3, IdleType, EngineType
    <2>. QED BY <1>6, <2>2, <2>3 DEF AttemptFails
<1>. QED BY <1>1, <1>2, <1>3, <1>4, <1>5, <1>6

\* The steps that record something, and the end of a run.
LEMMA RecordType ==
    ASSUME TypeInv,
           FoundDone \/ RecordSucceeded \/ Finish \/ \E ok \in BOOLEAN : PersistOutput(ok)
    PROVE  TypeInv'
<1>1. CASE FoundDone \/ RecordSucceeded
    <2>1. eng.pc \in AtStep BY <1>1 DEF FoundDone, RecordSucceeded, AtStep
    <2>2. rec' = [rec EXCEPT ![eng.run] = @ \cup {Step}]
        BY <1>1 DEF FoundDone, RecordSucceeded
    <2>3. eng.run \in Runs /\ Step \in Steps BY <2>1, MoveType
    <2>4. rec' \in [Runs -> SUBSET Steps] BY <2>2, <2>3 DEF TypeInv, TypeOK
    <2>5. eng' \in Engines /\ Placed(eng')
        BY <1>1, <2>1, MoveType DEF FoundDone, RecordSucceeded
    <2>. QED BY <1>1, <2>4, <2>5 DEF FoundDone, RecordSucceeded, TypeInv, TypeOK, Placed
<1>2. CASE Finish
    BY <1>2, IdleType DEF Finish, TypeInv, TypeOK, Placed
<1>3. ASSUME NEW ok \in BOOLEAN, PersistOutput(ok) PROVE TypeInv'
    <2>1. eng.pc \in AtStep /\ "record" \in AtStep BY <1>3 DEF PersistOutput, AtStep
    <2>2. eng' \in Engines /\ Placed(eng')
        BY <1>3, <2>1, MoveType DEF PersistOutput
    <2>3. eng.out \in Outputs BY DEF TypeInv, TypeOK, Engines
    <2>4. store' \in [keys : SUBSET StoreKeys, plan_has_changes : Outputs,
                      applied : Outputs]
        BY <1>3, <2>3 DEF PersistOutput, TypeInv, TypeOK
    <2>. QED BY <1>3, <2>2, <2>4 DEF PersistOutput, TypeInv, TypeOK, Placed
<1>. QED BY <1>1, <1>2, <1>3

\* The calls to terraform.
LEMMA TerraformType ==
    ASSUME TypeInv, TerraformInit \/ TerraformPlan \/ TerraformApply
    PROVE  TypeInv'
<1>1. eng.pc \in AtStep /\ "return" \in AtStep
    BY CallList DEF TerraformInit, TerraformPlan, TerraformApply, Calling, AtStep
<1>2. TypeOK BY DEF TypeInv
<1>3. CASE TerraformInit
    <2>1. eng' \in Engines /\ Placed(eng')
        BY <1>1, <1>3, MoveType DEF TerraformInit, Calling
    <2>2. dir' \in [module : Versions, init : BOOLEAN,
                    plan : [base : Versions, target : Versions, made : BOOLEAN]]
        BY <1>2, <1>3 DEF TerraformInit, TypeOK
    <2>. QED BY <1>2, <1>3, <2>1, <2>2 DEF TerraformInit, Calling, TypeInv, TypeOK
<1>4. CASE TerraformPlan
    <2>1. Changes \in Outputs BY DEF Changes, Outputs
    <2>2. eng' \in Engines /\ Placed(eng')
        BY <1>1, <1>4, <2>1, MoveType DEF TerraformPlan
    <2>3. dir' \in [module : Versions, init : BOOLEAN,
                    plan : [base : Versions, target : Versions, made : BOOLEAN]]
        BY <1>2, <1>4 DEF TerraformPlan, TypeOK
    <2>. QED BY <1>2, <1>4, <2>2, <2>3 DEF TerraformPlan, TypeInv, TypeOK
<1>5. CASE TerraformApply
    <2>1. eng' \in Engines /\ Placed(eng')
        BY <1>1, <1>5, MoveType DEF TerraformApply, Outputs
    <2>2. dir.plan.target \in Versions BY <1>2 DEF TypeOK
    <2>3. aws' \in AwsStates
        BY <1>2, <1>5, <2>2 DEF TerraformApply, TypeOK, AwsStates
    <2>. QED BY <1>2, <1>5, <2>1, <2>3 DEF TerraformApply, TypeInv, TypeOK, AwsStates
<1>. QED BY <1>3, <1>4, <1>5

\* The calls to AWS and to the store.
LEMMA CloudCallType ==
    ASSUME TypeInv,
           CreateOrganization \/ CreateRole \/ AttachRolePolicy \/ EnablePolicyType
           \/ CreateProvider \/ CreateGitHubRole
    PROVE  TypeInv'
<1>1. aws \in AwsStates BY DEF TypeInv, TypeOK, AwsStates
<1>2. /\ [aws EXCEPT !.org = TRUE] \in AwsStates
      /\ [aws EXCEPT !.scp = TRUE] \in AwsStates
      /\ [aws EXCEPT !.provider = TRUE] \in AwsStates
      /\ [aws EXCEPT !.github = TRUE] \in AwsStates
      /\ [aws EXCEPT !.role = "full"] \in AwsStates
      /\ [aws EXCEPT !.role = IF @ = "none" THEN "bare" ELSE @] \in AwsStates
    BY <1>1 DEF AwsStates
<1>3. {"StoreOrgID", "AttachRolePolicy", "StoreAdminARN", "return",
       "StoreProviderARN", "StoreGitHubARN"} \subseteq AtStep
    BY CallList DEF AtStep
<1>4. {"CreateOrganization", "CreateRole", "AttachRolePolicy", "EnablePolicyType",
       "CreateProvider", "CreateGitHubRole"} \subseteq CallNames
    BY CallList
<1>. QED BY <1>2, <1>3, <1>4, CloudType
         DEF CreateOrganization, CreateRole, AttachRolePolicy, EnablePolicyType,
             CreateProvider, CreateGitHubRole

LEMMA PutCallType ==
    ASSUME TypeInv,
           StoreOrgID \/ StoreRootOU \/ StoreAdminARN \/ StoreProviderARN
           \/ StoreGitHubARN \/ WriteRoleARN \/ WriteProviderARN
    PROVE  TypeInv'
<1>1. {"return", "StoreRootOU", "WriteProviderARN"} \subseteq AtStep
    BY CallList DEF AtStep
<1>2. {"StoreOrgID", "StoreRootOU", "StoreAdminARN", "StoreProviderARN",
       "StoreGitHubARN", "WriteRoleARN", "WriteProviderARN"} \subseteq CallNames
    BY CallList
<1>. QED BY <1>1, <1>2, PutType
         DEF StoreOrgID, StoreRootOU, StoreAdminARN, StoreProviderARN,
             StoreGitHubARN, WriteRoleARN, WriteProviderARN, StoreKeys

\* What happens around the command.
LEMMA EnvironmentType ==
    ASSUME TypeInv, EditModule \/ StoreOperatorARN
    PROVE  TypeInv'
<1>1. CASE EditModule
    BY <1>1 DEF EditModule, TypeInv, TypeOK, Placed
<1>2. CASE StoreOperatorARN
    BY <1>2 DEF StoreOperatorARN, StoreKeys, TypeInv, TypeOK, Placed
<1>. QED BY <1>1, <1>2

LEMMA InitType == Init => TypeInv
<1>. SUFFICES ASSUME Init PROVE TypeInv OBVIOUS
<1>1. eng \in Engines /\ Placed(eng) BY IdleType DEF Init
<1>2. NoPlan \in [base : Versions, target : Versions, made : BOOLEAN]
    BY SetupAssumption DEF NoPlan
<1>3. dir \in [module : Versions, init : {FALSE}, plan : {NoPlan}] BY DEF Init
<1>4. dir \in [module : Versions, init : BOOLEAN,
               plan : [base : Versions, target : Versions, made : BOOLEAN]]
    BY <1>2, <1>3
<1>. QED BY <1>1, <1>4, SetupAssumption DEF Init, TypeInv, TypeOK, Outputs

LEMMA NextType == TypeInv /\ [Next]_vars => TypeInv'
<1>. SUFFICES ASSUME TypeInv, [Next]_vars PROVE TypeInv' OBVIOUS
<1>1. CASE UNCHANGED vars BY <1>1 DEF vars, TypeInv, TypeOK, Placed
<1>2. CASE Call
    BY <1>2, TerraformType, CloudCallType, PutCallType DEF Call
<1>3. CASE Proceed
    BY <1>2, <1>3, EngineStepType, RecordType DEF Proceed, AttemptRefused
<1>4. CASE Fault
    BY <1>4, EngineStepType, RecordType DEF Fault
<1>. QED BY <1>1, <1>3, <1>4, CommandType, EnvironmentType DEF Next

\* Every variable keeps its type, for any set of runs, any versions of the module
\* and with every kind of failure.
THEOREM TypeCorrect == Spec => []TypeOK
<1>1. Spec => []TypeInv BY InitType, NextType, PTL DEF Spec
<1>2. TypeInv => TypeOK BY DEF TypeInv
<1>. QED BY <1>1, <1>2, PTL

-------------------------------------------------------------------------------
(* What the store says is true *)

\* The calls that store an ARN or an identifier.
ArnCalls == {"StoreOrgID", "StoreAdminARN", "StoreProviderARN", "StoreGitHubARN"}

\* No attempt begins with one of them.
LEMMA FirstCalls == \A i \in 1..9 : Calls[Order[i]][1] \notin ArnCalls
BY DEF Order, Calls, ArnCalls

\* What exists does not go away, and what the store says needs nothing else.
LEMMA NothingLost ==
    ASSUME TypeInv, StoredIsReal,
           aws.org => aws'.org,
           aws.role = "full" => aws'.role = "full",
           aws.provider => aws'.provider,
           aws.github => aws'.github,
           store'.keys \in {store.keys, store.keys \cup {"root_ou_id"},
                            store.keys \cup {"operator_arn"},
                            store.keys \cup {"target_provider_arn"}}
    PROVE  StoredIsReal'
BY DEF StoredIsReal

LEMMA CallsElsewhere ==
    ASSUME eng'.pc \notin ArnCalls
    PROVE  CallSound'
BY DEF CallSound, ArnCalls

\* Moves of the engine reach none of the calls.
LEMMA EnginePlaces ==
    ASSUME TypeInv,
           \/ Command
           \/ SkipRecorded \/ Resolve \/ ResolveFails \/ FoundNotDone \/ IsDoneFails
           \/ AttemptFails \/ Kill
           \/ FoundDone \/ RecordSucceeded \/ Finish
           \/ \E ok \in BOOLEAN : PersistOutput(ok)
    PROVE  eng'.pc \notin ArnCalls
<1>1. eng \in Engines BY DEF TypeInv, TypeOK
<1>2. NextStep.pc \notin ArnCalls /\ Idle.pc \notin ArnCalls
    BY <1>1 DEF NextStep, Idle, ArnCalls, Engines
<1>3. ASSUME NEW attempt, Enter(attempt), eng.pc \in AtStep
      PROVE  eng'.pc \notin ArnCalls
    <2>1. eng.idx \in 1..9 BY <1>3, MoveType
    <2>2. Entry.pc \notin ArnCalls
        BY <2>1, FirstCalls DEF Entry, Step, ArnCalls
    <2>. QED BY <1>1, <1>3, <2>2 DEF Enter, Engine, Engines
<1>4. CASE Command
    BY <1>4 DEF Command, StartInit, Resume, Begin, Idle, ArnCalls
<1>5. CASE SkipRecorded \/ ResolveFails \/ Kill \/ FoundDone \/ RecordSucceeded \/ Finish
    BY <1>2, <1>5 DEF SkipRecorded, ResolveFails, Kill, FoundDone, RecordSucceeded,
                      Finish, Engine
<1>6. CASE Resolve \/ \E ok \in BOOLEAN : PersistOutput(ok)
    BY <1>1, <1>6 DEF Resolve, PersistOutput, Engine, Engines, ArnCalls
<1>7. CASE FoundNotDone \/ IsDoneFails
    BY <1>3, <1>7 DEF FoundNotDone, IsDoneFails, AtStep
<1>8. CASE AttemptFails
    BY <1>2, <1>3, <1>8 DEF AttemptFails, AtStep, Engine
<1>. QED BY <1>4, <1>5, <1>6, <1>7, <1>8

\* They, and the environment, leave what exists and every stored ARN alone.
LEMMA EngineKeeps ==
    ASSUME IInv,
           \/ Command
           \/ SkipRecorded \/ Resolve \/ ResolveFails \/ FoundNotDone \/ IsDoneFails
           \/ AttemptFails \/ Kill
           \/ FoundDone \/ RecordSucceeded \/ Finish
           \/ \E ok \in BOOLEAN : PersistOutput(ok)
    PROVE  StoredIsReal' /\ CallSound'
<1>1. TypeInv /\ StoredIsReal BY DEF IInv
<1>2. aws' = aws
    BY DEF Command, StartInit, Resume, Begin, SkipRecorded, Resolve, ResolveFails,
           FoundNotDone, IsDoneFails, AttemptFails, Kill, FoundDone,
           RecordSucceeded, Finish, PersistOutput, Enter, Engine
<1>3. store'.keys = store.keys
    <2>1. ASSUME NEW ok \in BOOLEAN, PersistOutput(ok)
          PROVE  store'.keys = store.keys
        BY <1>1, <2>1 DEF PersistOutput, TypeInv, TypeOK
    <2>. QED BY <2>1
         DEF Command, StartInit, Resume, Begin, SkipRecorded, Resolve, ResolveFails,
             FoundNotDone, IsDoneFails, AttemptFails, Kill, FoundDone,
             RecordSucceeded, Finish, Enter, Engine
<1>4. eng'.pc \notin ArnCalls BY <1>1, EnginePlaces
<1>. QED BY <1>1, <1>2, <1>3, <1>4, NothingLost, CallsElsewhere

LEMMA EnvironmentKeeps ==
    ASSUME IInv, EditModule \/ StoreOperatorARN
    PROVE  StoredIsReal' /\ CallSound'
<1>1. eng' = eng /\ aws' = aws BY DEF EditModule, StoreOperatorARN
<1>2. store'.keys \in {store.keys, store.keys \cup {"operator_arn"}}
    BY DEF EditModule, StoreOperatorARN, IInv, TypeInv, TypeOK
<1>3. StoredIsReal' BY <1>1, <1>2, NothingLost DEF IInv
<1>4. CallSound' BY <1>1, <1>2 DEF CallSound, IInv
<1>. QED BY <1>3, <1>4

\* A call to AWS or to terraform takes nothing away, and leaves what the call that
\* stores the ARN relies on.
LEMMA CloudKeeps ==
    ASSUME IInv,
           \/ CreateOrganization \/ CreateRole \/ AttachRolePolicy
           \/ EnablePolicyType \/ CreateProvider \/ CreateGitHubRole
           \/ TerraformInit \/ TerraformPlan \/ TerraformApply
    PROVE  StoredIsReal' /\ CallSound'
<1>. USE DEF Cloud, Calling
<1>1. eng \in Engines /\ aws \in AwsStates /\ StoredIsReal /\ TypeInv
    BY DEF IInv, TypeInv, TypeOK, AwsStates
<1>2. store' = store
    BY DEF CreateOrganization, CreateRole, AttachRolePolicy, EnablePolicyType,
           CreateProvider, CreateGitHubRole, TerraformInit, TerraformPlan,
           TerraformApply
<1>3. /\ aws.org => aws'.org
      /\ aws.role = "full" => aws'.role = "full"
      /\ aws.provider => aws'.provider
      /\ aws.github => aws'.github
    BY <1>1 DEF CreateOrganization, CreateRole, AttachRolePolicy, EnablePolicyType,
           CreateProvider, CreateGitHubRole, TerraformInit, TerraformPlan,
           TerraformApply, AwsStates
<1>4. StoredIsReal' BY <1>1, <1>2, <1>3, NothingLost
<1>5. CASE CreateRole \/ EnablePolicyType \/ TerraformInit \/ TerraformPlan
           \/ TerraformApply
    <2>1. eng'.pc \in {"AttachRolePolicy", "return"}
        BY <1>1, <1>5 DEF CreateRole, EnablePolicyType, TerraformInit,
                          TerraformPlan, TerraformApply, Engines
    <2>. QED BY <2>1, CallsElsewhere, <1>4 DEF ArnCalls
<1>6. CASE CreateOrganization
    <2>1. eng'.pc = "StoreOrgID" /\ aws'.org
        BY <1>1, <1>6 DEF CreateOrganization, Engines, AwsStates
    <2>. QED BY <1>4, <2>1 DEF CallSound
<1>7. CASE AttachRolePolicy
    <2>1. eng'.pc = "StoreAdminARN" /\ aws'.role = "full"
        BY <1>1, <1>7 DEF AttachRolePolicy, Engines, AwsStates
    <2>. QED BY <1>4, <2>1 DEF CallSound
<1>8. CASE CreateProvider
    <2>1. eng'.pc = "StoreProviderARN" /\ aws'.provider
        BY <1>1, <1>8 DEF CreateProvider, Engines, AwsStates
    <2>. QED BY <1>4, <2>1 DEF CallSound
<1>9. CASE CreateGitHubRole
    <2>1. eng'.pc = "StoreGitHubARN" /\ aws'.github
        BY <1>1, <1>9 DEF CreateGitHubRole, Engines, AwsStates
    <2>2. "provider_arn" \in store'.keys BY <1>2, <1>9 DEF CreateGitHubRole
    <2>. QED BY <1>4, <2>1, <2>2 DEF CallSound
<1>. QED BY <1>5, <1>6, <1>7, <1>8, <1>9

\* A call that stores an ARN stores one of something that is there.
LEMMA PutKeeps ==
    ASSUME IInv,
           StoreOrgID \/ StoreRootOU \/ StoreAdminARN \/ StoreProviderARN
           \/ StoreGitHubARN \/ WriteRoleARN \/ WriteProviderARN
    PROVE  StoredIsReal' /\ CallSound'
<1>1. TypeInv /\ StoredIsReal /\ CallSound /\ eng \in Engines
    BY DEF IInv, TypeInv, TypeOK
<1>2. eng'.pc \in {"return", "StoreRootOU", "WriteProviderARN"} /\ aws' = aws
    BY <1>1 DEF StoreOrgID, StoreRootOU, StoreAdminARN, StoreProviderARN,
           StoreGitHubARN, WriteRoleARN, WriteProviderARN, Put, Calling, Engines
<1>3. CallSound' BY <1>2, CallsElsewhere DEF ArnCalls
<1>4. ASSUME NEW c, NEW k, NEW next, Put(c, k, next)
      PROVE  store'.keys = store.keys \cup {k} /\ eng.pc = c
    BY <1>1, <1>4 DEF Put, Calling, TypeInv, TypeOK
<1>5. CASE StoreRootOU \/ WriteProviderARN
    BY <1>1, <1>2, <1>3, <1>4, <1>5, NothingLost DEF StoreRootOU, WriteProviderARN
<1>6. CASE StoreOrgID
    <2>1. store'.keys = store.keys \cup {"org_id"} /\ aws.org
        BY <1>1, <1>4, <1>6 DEF StoreOrgID, CallSound
    <2>. QED BY <1>1, <1>2, <1>3, <2>1 DEF StoredIsReal
<1>7. CASE StoreAdminARN
    <2>1. store'.keys = store.keys \cup {"admin_arn"} /\ aws.role = "full"
        BY <1>1, <1>4, <1>7 DEF StoreAdminARN, CallSound
    <2>. QED BY <1>1, <1>2, <1>3, <2>1 DEF StoredIsReal
<1>8. CASE StoreProviderARN
    <2>1. store'.keys = store.keys \cup {"provider_arn"} /\ aws.provider
        BY <1>1, <1>4, <1>8 DEF StoreProviderARN, CallSound
    <2>. QED BY <1>1, <1>2, <1>3, <2>1 DEF StoredIsReal
<1>9. CASE StoreGitHubARN
    <2>1. store'.keys = store.keys \cup {"github_arn"} /\ aws.github
          /\ "provider_arn" \in store.keys
        BY <1>1, <1>4, <1>9 DEF StoreGitHubARN, CallSound
    <2>. QED BY <1>1, <1>2, <1>3, <2>1 DEF StoredIsReal
<1>10. CASE WriteRoleARN
    <2>1. store'.keys = store.keys \cup {"target_role_arn"}
          /\ "github_arn" \in store.keys
        BY <1>4, <1>10 DEF WriteRoleARN
    <2>. QED BY <1>1, <1>2, <1>3, <2>1 DEF StoredIsReal
<1>. QED BY <1>5, <1>6, <1>7, <1>8, <1>9, <1>10

LEMMA InitSound == Init => IInv
<1>. SUFFICES ASSUME Init PROVE IInv OBVIOUS
<1>1. StoredIsReal BY DEF Init, StoredIsReal
<1>2. CallSound BY DEF Init, Idle, CallSound
<1>. QED BY <1>1, <1>2, InitType DEF IInv

LEMMA NextSound == IInv /\ [Next]_vars => IInv'
<1>. SUFFICES ASSUME IInv, [Next]_vars PROVE IInv' OBVIOUS
<1>1. TypeInv' BY NextType DEF IInv
<1>2. CASE UNCHANGED vars
    BY <1>1, <1>2 DEF vars, IInv, StoredIsReal, CallSound
<1>3. CASE Call
    BY <1>1, <1>3, CloudKeeps, PutKeeps DEF Call, IInv
<1>4. CASE Proceed
    BY <1>1, <1>3, <1>4, EngineKeeps DEF Proceed, AttemptRefused, IInv
<1>5. CASE Fault
    BY <1>1, <1>5, EngineKeeps DEF Fault, IInv
<1>6. CASE Command BY <1>1, <1>6, EngineKeeps DEF IInv
<1>7. CASE EditModule \/ StoreOperatorARN
    BY <1>1, <1>7, EnvironmentKeeps DEF IInv
<1>. QED BY <1>2, <1>4, <1>5, <1>6, <1>7 DEF Next

\* An ARN or identifier in the store names something that exists and is finished,
\* in whatever order attempts fail, are repeated or are cut short, with dry runs and
\* lost outputs: what IsDone and the resolver of credentials rely on.
THEOREM ArnsAreReal == Spec => []StoredIsReal
<1>1. Spec => []IInv BY InitSound, NextSound, PTL DEF Spec
<1>2. IInv => StoredIsReal BY DEF IInv
<1>. QED BY <1>1, <1>2, PTL

-------------------------------------------------------------------------------
(* What is recorded is in place *)

\* No edit of the module: what is in place stays, and the plan is not out of date.
Lasts ==
    /\ aws.org => aws'.org
    /\ aws.role = "full" => aws'.role = "full"
    /\ aws.scp => aws'.scp
    /\ aws.provider => aws'.provider
    /\ aws.github => aws'.github
    /\ store.keys \subseteq store'.keys
    /\ dir.init => dir'.init
    /\ dir.plan.made => dir'.plan.made
    /\ dir'.plan.made => dir'.plan.target = dir'.module
    /\ aws.infra = dir.module => aws'.infra = dir'.module

LEMMA EffectsLast ==
    ASSUME Lasts
    PROVE  \A s \in Steps : InPlace(s) => InPlace(s)'
<1>. USE DEF Lasts, InPlace
<1>. SUFFICES ASSUME NEW s \in Steps, InPlace(s) PROVE InPlace(s)' OBVIOUS
<1>1. CASE s \in {"create_org", "create_admin_role", "enable_scp"} BY <1>1
<1>2. CASE s = "terraform_init_org" BY <1>2
<1>3. CASE s = "terraform_plan_org" BY <1>3
<1>4. CASE s = "terraform_apply_org" BY <1>4
<1>5. CASE s \in {"create_oidc_provider", "create_github_actions_role"} BY <1>5
<1>6. CASE s = "write_oidc_outputs" BY <1>6
<1>. QED BY <1>1, <1>2, <1>3, <1>4, <1>5, <1>6, StepList

\* Level is kept if what it says of the engine and of the two outputs is.
LEMMA LevelKept ==
    ASSUME Lasts, Level,
           eng'.pc # "idle" => ~eng'.dry,
           store'.plan_has_changes = "false" =>
               aws.infra = dir.module \/ aws'.infra = dir'.module,
           store'.applied = "true" =>
               aws.infra = dir.module \/ aws'.infra = dir'.module,
           AttemptSound',
           \A r \in Runs : \A s \in rec'[r] :
               s \in Steps /\ (s \in rec[r] \/ InPlace(s))
    PROVE  Level'
<1>1. \A r \in Runs : \A s \in rec'[r] : InPlace(s)'
    BY EffectsLast DEF Level
<1>. QED BY <1>1 DEF Level, Lasts

\* Outside the calls, "return" and "record" nothing is said of an attempt.
LEMMA QuietSound ==
    ASSUME eng'.pc \in {"idle", "step", "isdone", "finish"}
    PROVE  AttemptSound'
BY CallList DEF AttemptSound, AttemptOf

\* The steps of a command that works on a run, as far as runs are concerned.
LEMMA OwnStep ==
    ASSUME TypeInv, Proceed \/ Fault
    PROVE  /\ eng.pc # "idle"
           /\ eng'.pc # "idle" => eng'.run = eng.run /\ eng'.dry = eng.dry
           /\ past' = past
           /\ meta' = meta \/ meta' = [meta EXCEPT ![eng.run] = "succeeded"]
           /\ rec' = rec \/ rec' = [rec EXCEPT ![eng.run] = @ \cup {Step}]
<1>. USE DEF Cloud, Put, Calling
<1>1. eng \in Engines BY DEF TypeInv, TypeOK
<1>2. CASE Call
    <2>1. eng.pc \in CallNames /\ past' = past /\ meta' = meta /\ rec' = rec
        BY <1>2, CallList
        DEF Call, CreateOrganization, CreateRole, AttachRolePolicy,
            EnablePolicyType, CreateProvider, CreateGitHubRole, StoreOrgID,
            StoreRootOU, StoreAdminARN, StoreProviderARN, StoreGitHubARN,
            WriteRoleARN, WriteProviderARN, TerraformInit, TerraformPlan,
            TerraformApply
    <2>2. eng'.run = eng.run /\ eng'.dry = eng.dry
        BY <1>1, <1>2
        DEF Call, CreateOrganization, CreateRole, AttachRolePolicy,
            EnablePolicyType, CreateProvider, CreateGitHubRole, StoreOrgID,
            StoreRootOU, StoreAdminARN, StoreProviderARN, StoreGitHubARN,
            WriteRoleARN, WriteProviderARN, TerraformInit, TerraformPlan,
            TerraformApply, Engines
    <2>. QED BY <2>1, <2>2, CallList
<1>3. ASSUME NEW attempt, Enter(attempt)
      PROVE  eng'.run = eng.run /\ eng'.dry = eng.dry
    BY <1>1, <1>3 DEF Enter, Engine, Engines
<1>4. NextStep.run = eng.run /\ NextStep.dry = eng.dry /\ Idle.pc = "idle"
    BY <1>1 DEF NextStep, Idle, Engines
<1>5. CASE SkipRecorded \/ Resolve \/ ResolveFails \/ Kill
    BY <1>1, <1>4, <1>5
    DEF SkipRecorded, Resolve, ResolveFails, Kill, Engine, Engines
<1>6. CASE FoundNotDone \/ IsDoneFails
    BY <1>3, <1>6 DEF FoundNotDone, IsDoneFails, Enter, Engine
<1>7. CASE AttemptFails
    BY <1>3, <1>4, <1>7, CallList DEF AttemptFails, Enter, Engine
<1>8. CASE FoundDone \/ RecordSucceeded \/ Finish
    BY <1>4, <1>8 DEF FoundDone, RecordSucceeded, Finish
<1>9. ASSUME NEW ok \in BOOLEAN, PersistOutput(ok)
      PROVE  eng.pc = "return" /\ eng'.run = eng.run /\ eng'.dry = eng.dry
    BY <1>1, <1>9 DEF PersistOutput, Engines
<1>10. CASE \E ok \in BOOLEAN : PersistOutput(ok)
    BY <1>9, <1>10 DEF PersistOutput
<1>. QED BY <1>2, <1>5, <1>6, <1>7, <1>8, <1>10
         DEF Proceed, Fault, AttemptRefused

\* Only runs that have begun leave traces, and only an edit of the module makes a
\* history clean that was not.
LEMMA OwnTraces ==
    ASSUME TypeInv, Traces, Proceed \/ Fault
    PROVE  /\ Traces'
           /\ Clean' => Clean
           /\ Level => (eng'.pc # "idle" => ~eng'.dry)
<1>1. /\ eng.pc # "idle" /\ meta[eng.run] # "none" /\ eng.run \in Runs
      /\ meta \in [Runs -> {"none", "running", "succeeded"}]
      /\ rec \in [Runs -> SUBSET Steps]
    BY OwnStep DEF Traces, TypeInv, TypeOK, Placed
<1>2. \A r \in Runs : meta'[r] # "none" <=> meta[r] # "none" BY <1>1, OwnStep
<1>3. \A r \in Runs : rec'[r] # {} => meta'[r] # "none"
    BY <1>1, <1>2, OwnStep DEF Traces
<1>4. Traces' BY <1>1, <1>2, <1>3, OwnStep DEF Traces
<1>5. Clean' => Clean BY <1>2, OwnStep DEF Clean
<1>. QED BY <1>4, <1>5, OwnStep DEF Level

LEMMA OutsideTraces ==
    ASSUME TypeInv, Traces, Command \/ StoreOperatorARN
    PROVE  Traces' /\ (Clean' => Clean)
<1>1. CASE StoreOperatorARN
    BY <1>1 DEF StoreOperatorARN, Traces, Clean, TypeInv, TypeOK
<1>2. CASE Command
    <2>1. PICK r \in Runs, dry \in DryRunFlags : StartInit(r, dry) \/ Resume(r, dry)
        BY <1>2 DEF Command
    <2>2. eng'.run = r /\ rec' = rec /\ dir' = dir /\ store' = store
        BY <2>1 DEF StartInit, Resume, Begin, Idle
    <2>3. CASE StartInit(r, dry)
        <3>1. meta' = [meta EXCEPT ![r] = "running"] /\ meta[r] = "none"
              /\ past'.fresh = past.fresh \cup {r} /\ past.dried \subseteq past'.dried
            BY <2>3 DEF StartInit, DriedBy
        <3>. QED BY <2>2, <3>1 DEF Traces, Clean, TypeInv, TypeOK
    <2>4. CASE Resume(r, dry)
        <3>1. meta' = meta /\ meta[r] # "none"
              /\ past'.fresh = past.fresh /\ past.dried \subseteq past'.dried
            BY <2>4 DEF Resume, DriedBy, TypeInv, TypeOK
        <3>. QED BY <2>2, <3>1 DEF Traces, Clean
    <2>. QED BY <2>1, <2>3, <2>4
<1>. QED BY <1>1, <1>2

\* What IsDone finds is in place.
LEMMA FoundIsInPlace ==
    ASSUME StoredIsReal, Level, NEW s \in Steps, IsDone(s)
    PROVE  InPlace(s)
<1>. USE DEF IsDone, InPlace
<1>1. CASE s = "create_org" BY <1>1 DEF OrgDone
<1>2. CASE s = "create_admin_role" BY <1>2 DEF AdminRoleDone, StoredIsReal
<1>3. CASE s = "enable_scp" BY <1>3 DEF SCPDone
<1>4. CASE s = "terraform_init_org" BY <1>4 DEF InitDone
<1>5. CASE s = "terraform_plan_org" BY <1>5 DEF PlanDone, Level
<1>6. CASE s = "terraform_apply_org" BY <1>6 DEF ApplyDone, Level
<1>7. CASE s = "create_oidc_provider" BY <1>7 DEF ProviderDone
<1>8. CASE s = "create_github_actions_role" BY <1>8 DEF GitHubRoleDone
<1>9. CASE s = "write_oidc_outputs" BY <1>9 DEF OutputsDone, StoredIsReal
<1>. QED BY <1>1, <1>2, <1>3, <1>4, <1>5, <1>6, <1>7, <1>8, <1>9, StepList

\* An attempt begins with the first call, or ends where there is nothing to apply.
LEMMA EnterSound ==
    ASSUME TypeInv, Level, eng.pc \in AtStep, NEW attempt, Enter(attempt)
    PROVE  AttemptSound'
<1>1. eng \in Engines /\ Step \in Steps /\ eng.idx \in 1..9 /\ ~eng.dry
    BY MoveType, CallList DEF TypeInv, TypeOK, Level, AtStep
<1>2. /\ eng'.pc = Entry.pc /\ eng'.out = Entry.out /\ eng'.idx = eng.idx
      /\ aws' = aws /\ dir' = dir /\ store' = store
    BY <1>1 DEF Enter, Engine, Engines
<1>3. Step' = Step BY <1>2 DEF Step
<1>4. CASE NothingToApply
    <2>1. Step = "terraform_apply_org" /\ aws.infra = dir.module
        BY <1>4 DEF NothingToApply, Level
    <2>2. eng'.pc = "return" BY <1>2, <1>4 DEF Entry
    <2>3. InPlace("terraform_apply_org")' BY <1>2, <2>1 DEF InPlace
    <2>. QED BY <1>3, <2>1, <2>2, <2>3, CallList DEF AttemptSound, AttemptOf
<1>5. CASE ~NothingToApply
    <2>1. eng'.pc = Calls[Step][1] /\ eng'.out = "none"
        BY <1>1, <1>2, <1>5 DEF Entry, RunsReally
    <2>2. \A i \in 1..9 : /\ Calls[Order[i]][1] \in CallsOf(Order[i])
                          /\ Calls[Order[i]][1] \notin {"StoreRootOU", "WriteProviderARN",
                                                        "return", "record"}
        BY DEF Order, Calls, CallsOf
    <2>3. eng'.pc \in CallsOf(Step)
          /\ eng'.pc \notin {"StoreRootOU", "WriteProviderARN", "return", "record"}
        BY <1>1, <2>1, <2>2 DEF Step
    <2>. QED BY <1>3, <2>1, <2>3 DEF AttemptSound, AttemptOf
<1>. QED BY <1>4, <1>5

\* The steps that leave AWS, the directory and the store alone.
LEMMA EngineLevel ==
    ASSUME IInv, Level, eng'.pc # "idle" => ~eng'.dry,
           \/ SkipRecorded \/ Resolve \/ ResolveFails \/ FoundNotDone \/ IsDoneFails
           \/ AttemptFails \/ Kill
           \/ FoundDone \/ RecordSucceeded \/ Finish
           \/ Command
    PROVE  Level'
<1>1. TypeInv /\ eng \in Engines /\ StoredIsReal BY DEF IInv, TypeInv, TypeOK
<1>2. aws' = aws /\ dir' = dir /\ store' = store
    BY DEF SkipRecorded, Resolve, ResolveFails, FoundNotDone, IsDoneFails,
           AttemptFails, Kill, FoundDone, RecordSucceeded, Finish, Command,
           StartInit, Resume, Begin, Enter, Engine
<1>3. Lasts BY <1>2 DEF Lasts, Level
<1>4. CASE FoundNotDone \/ IsDoneFails
    <2>1. eng.pc \in AtStep BY <1>4 DEF FoundNotDone, IsDoneFails, AtStep
    <2>2. AttemptSound'
        BY <1>1, <1>4, <2>1, EnterSound DEF FoundNotDone, IsDoneFails
    <2>3. rec' = rec BY <1>4 DEF FoundNotDone, IsDoneFails, Enter, Engine
    <2>. QED BY <1>1, <1>2, <1>3, <2>2, <2>3, LevelKept DEF Level, TypeInv, TypeOK
<1>5. CASE AttemptFails
    <2>1. eng.pc \in AtStep BY <1>5 DEF AttemptFails, AtStep
    <2>2. Engine(Idle) => eng'.pc = "idle" BY DEF Engine, Idle
    <2>3. AttemptSound'
        BY <1>1, <1>5, <2>1, <2>2, EnterSound, QuietSound DEF AttemptFails
    <2>4. rec' = rec BY <1>5 DEF AttemptFails, Enter, Engine
    <2>. QED BY <1>1, <1>2, <1>3, <2>3, <2>4, LevelKept DEF Level, TypeInv, TypeOK
<1>6. NextStep.pc \in {"step", "finish"} /\ Idle.pc = "idle"
    BY <1>1 DEF NextStep, Idle, Engines
<1>7. CASE SkipRecorded \/ Resolve \/ ResolveFails \/ Kill \/ Finish \/ Command
    <2>1. eng'.pc \in {"idle", "step", "isdone", "finish"}
        BY <1>1, <1>6, <1>7
        DEF SkipRecorded, Resolve, ResolveFails, Kill, Finish, Command,
            StartInit, Resume, Begin, Idle, Engine, Engines
    <2>2. rec' = rec
        BY <1>7 DEF SkipRecorded, Resolve, ResolveFails, Kill, Finish, Command,
                    StartInit, Resume, Begin, Engine
    <2>3. AttemptSound' BY <2>1, QuietSound
    <2>. QED BY <1>1, <1>2, <1>3, <2>2, <2>3, LevelKept DEF Level, TypeInv, TypeOK
<1>8. CASE FoundDone \/ RecordSucceeded
    <2>1. eng.pc \in AtStep BY <1>8 DEF FoundDone, RecordSucceeded, AtStep
    <2>2. Step \in Steps BY <1>1, <2>1, MoveType
    <2>3. InPlace(Step)
        BY <1>1, <1>8, <2>2, FoundIsInPlace
        DEF FoundDone, RecordSucceeded, Level, AttemptSound, AttemptOf
    <2>4. rec' = [rec EXCEPT ![eng.run] = @ \cup {Step}] /\ eng' = NextStep
        BY <1>8 DEF FoundDone, RecordSucceeded
    <2>5. \A r \in Runs : \A s \in rec'[r] :
              s \in Steps /\ (s \in rec[r] \/ InPlace(s))
        BY <1>1, <2>2, <2>3, <2>4 DEF TypeInv, TypeOK
    <2>6. AttemptSound' BY <1>6, <2>4, QuietSound
    <2>. QED BY <1>2, <1>3, <2>5, <2>6, LevelKept DEF Level
<1>. QED BY <1>4, <1>5, <1>7, <1>8

LEMMA OutputLevel ==
    ASSUME IInv, Level, eng'.pc # "idle" => ~eng'.dry,
           NEW ok \in BOOLEAN, PersistOutput(ok)
    PROVE  Level'
<1>1. TypeInv /\ eng \in Engines /\ eng.pc = "return"
    BY DEF IInv, TypeInv, TypeOK, PersistOutput
<1>2. eng.pc \in AtStep BY <1>1 DEF AtStep
<1>3. Step \in Steps BY <1>1, <1>2, MoveType
<1>4. AttemptOf(Step) BY <1>3 DEF Level, AttemptSound
<1>5. aws' = aws /\ dir' = dir /\ rec' = rec BY DEF PersistOutput
<1>6. /\ store'.keys = store.keys
      /\ store'.plan_has_changes # store.plan_has_changes =>
             /\ Step = "terraform_plan_org"
             /\ store'.plan_has_changes = eng.out
      /\ store'.applied # store.applied =>
             /\ Step # "terraform_plan_org" /\ eng.out # "none"
    BY <1>1 DEF PersistOutput, TypeInv, TypeOK
<1>7. Lasts BY <1>5, <1>6 DEF Lasts, Level
<1>8. store'.plan_has_changes = "false" => aws.infra = dir.module
    BY <1>1, <1>4, <1>6 DEF AttemptOf, Level
<1>9. store'.applied = "true" => aws.infra = dir.module
    <2>1. CASE store'.applied # store.applied
        <3>1. Step = "terraform_apply_org" /\ InPlace(Step)
            BY <1>1, <1>4, <1>6, <2>1 DEF AttemptOf
        <3>. QED BY <3>1 DEF InPlace
    <2>2. CASE store'.applied = store.applied BY <2>2 DEF Level
    <2>. QED BY <2>1, <2>2
<1>10. AttemptSound'
    <2>1. eng'.pc = "record" /\ Step' = Step
        BY <1>1 DEF PersistOutput, Engines, Step
    <2>2. \A s \in Steps : s = Step => InPlace(s)'
        BY <1>1, <1>4, <1>7, EffectsLast DEF AttemptOf
    <2>. QED BY <2>1, <2>2, CallList DEF AttemptSound, AttemptOf
<1>. QED BY <1>1, <1>5, <1>7, <1>8, <1>9, <1>10, LevelKept DEF TypeInv, TypeOK

LEMMA OperatorLevel ==
    ASSUME IInv, Level, StoreOperatorARN
    PROVE  Level'
<1>1. TypeInv /\ store'.keys = store.keys \cup {"operator_arn"}
      /\ store'.plan_has_changes = store.plan_has_changes
      /\ store'.applied = store.applied
    BY DEF IInv, TypeInv, TypeOK, StoreOperatorARN
<1>2. eng' = eng /\ aws' = aws /\ dir' = dir /\ rec' = rec
    BY DEF StoreOperatorARN
<1>3. Lasts BY <1>1, <1>2 DEF Lasts, Level
<1>4. \A s \in Steps : AttemptOf(s) => AttemptOf(s)'
    BY <1>1, <1>2, <1>3, EffectsLast DEF AttemptOf
<1>5. AttemptSound' BY <1>2, <1>4 DEF Level, AttemptSound, Step
<1>. QED BY <1>1, <1>2, <1>3, <1>5, LevelKept DEF Level, TypeInv, TypeOK

\* No run has begun: nothing is said of what was there.
LEMMA EditLevel ==
    ASSUME IInv, Traces, EditModule
    PROVE  Traces' /\ (Clean' => Level')
<1>1. TypeInv BY DEF IInv
<1>2. /\ eng' = eng /\ rec' = rec /\ store' = store /\ meta' = meta
      /\ dir'.plan = dir.plan
    BY <1>1 DEF EditModule, TypeInv, TypeOK
<1>3. Traces' BY <1>2 DEF Traces
<1>4. ASSUME Clean' PROVE Level'
    <2>1. \A r \in Runs : meta[r] = "none"
        BY <1>1, <1>4 DEF EditModule, Clean, TypeInv, TypeOK
    <2>2. eng.pc = "idle" /\ ~dir.plan.made /\ store.plan_has_changes = "none"
          /\ store.applied = "none" /\ \A r \in Runs : rec[r] = {}
        BY <1>1, <2>1 DEF Traces, TypeInv, Placed
    <2>3. AttemptSound' BY <1>2, <2>2, QuietSound
    <2>. QED BY <1>2, <2>2, <2>3 DEF Level
<1>. QED BY <1>3, <1>4

\* A call that another one of the same step follows.
LEMMA ToCall ==
    ASSUME TypeInv, Level, eng.pc \in CallNames, Step \in Steps,
           NEW c \in CallsOf(Step), eng' = [eng EXCEPT !.pc = c],
           c = "StoreRootOU" => "org_id" \in store'.keys,
           c = "WriteProviderARN" => "target_role_arn" \in store'.keys
    PROVE  AttemptSound'
<1>1. eng \in Engines BY DEF TypeInv, TypeOK
<1>2. eng.out = "none" BY DEF Level, AttemptSound, AttemptOf
<1>3. eng'.pc = c /\ eng'.out = "none" /\ Step' = Step
    BY <1>1, <1>2 DEF Engines, Step
<1>4. c \in CallNames BY DEF CallNames, CallsOf
<1>. QED BY <1>3, <1>4, CallList DEF AttemptSound, AttemptOf

\* The last call of a step that sets no output.
LEMMA ToReturn ==
    ASSUME TypeInv, Level, eng.pc \in CallNames, Step \in Steps,
           eng' = [eng EXCEPT !.pc = "return"],
           \A s \in Steps : s = Step => InPlace(s)'
    PROVE  AttemptSound'
<1>1. eng \in Engines BY DEF TypeInv, TypeOK
<1>2. eng.out = "none" BY DEF Level, AttemptSound, AttemptOf
<1>3. eng'.pc = "return" /\ eng'.out = "none" /\ Step' = Step
    BY <1>1, <1>2 DEF Engines, Step
<1>. QED BY <1>3, CallList DEF AttemptSound, AttemptOf

\* The calls take nothing away.
LEMMA CallLasts ==
    ASSUME TypeInv, Level, Call
    PROVE  /\ Lasts
           /\ store'.plan_has_changes = store.plan_has_changes
           /\ store'.applied = store.applied
           /\ rec' = rec
           /\ eng.pc \in CallNames
<1>1. CASE \E c \in CallNames, k \in StoreKeys, next \in AtStep : Put(c, k, next)
    <2>1. /\ aws' = aws /\ dir' = dir /\ rec' = rec /\ eng.pc \in CallNames
          /\ store.keys \subseteq store'.keys
          /\ store'.plan_has_changes = store.plan_has_changes
          /\ store'.applied = store.applied
        BY <1>1 DEF Put, Calling, TypeInv, TypeOK
    <2>. QED BY <2>1 DEF Lasts, Level
<1>2. CASE \/ CreateOrganization \/ CreateRole \/ AttachRolePolicy
           \/ EnablePolicyType \/ CreateProvider \/ CreateGitHubRole
    <2>1. aws \in AwsStates BY DEF TypeInv, TypeOK, AwsStates
    <2>2. dir' = dir /\ store' = store /\ rec' = rec /\ eng.pc \in CallNames
        BY <1>2, CallList
        DEF CreateOrganization, CreateRole, AttachRolePolicy, EnablePolicyType,
            CreateProvider, CreateGitHubRole, Cloud, Calling
    <2>3. /\ aws.org => aws'.org
          /\ aws.role = "full" => aws'.role = "full"
          /\ aws.scp => aws'.scp
          /\ aws.provider => aws'.provider
          /\ aws.github => aws'.github
          /\ aws'.infra = aws.infra
        BY <1>2, <2>1
        DEF CreateOrganization, CreateRole, AttachRolePolicy, EnablePolicyType,
            CreateProvider, CreateGitHubRole, Cloud, AwsStates
    <2>. QED BY <2>2, <2>3 DEF Lasts, Level
<1>3. CASE TerraformInit \/ TerraformPlan
    <2>1. aws' = aws /\ store' = store /\ rec' = rec /\ eng.pc \in CallNames
        BY <1>3, CallList DEF TerraformInit, TerraformPlan, Calling
    <2>2. /\ dir.init => dir'.init
          /\ dir'.module = dir.module
          /\ dir.plan.made => dir'.plan.made
          /\ dir'.plan = dir.plan \/ dir'.plan.target = dir.module
        BY <1>3 DEF TerraformInit, TerraformPlan, Calling, TypeInv, TypeOK
    <2>. QED BY <2>1, <2>2 DEF Lasts, Level
<1>4. CASE TerraformApply
    <2>1. dir' = dir /\ store' = store /\ rec' = rec /\ eng.pc \in CallNames
        BY <1>4, CallList DEF TerraformApply
    <2>2. aws' = [aws EXCEPT !.infra = dir.plan.target]
          /\ dir.plan.target = dir.module
        BY <1>4 DEF TerraformApply, Applicable, Level
    <2>. QED BY <2>1, <2>2 DEF Lasts, Level, TypeInv, TypeOK
<1>5. CASE \/ StoreOrgID \/ StoreRootOU \/ StoreAdminARN \/ StoreProviderARN
           \/ StoreGitHubARN \/ WriteRoleARN \/ WriteProviderARN
    <2>1. {"return", "StoreRootOU", "WriteProviderARN"} \subseteq AtStep
        BY CallList DEF AtStep
    <2>2. {"StoreOrgID", "StoreRootOU", "StoreAdminARN", "StoreProviderARN",
           "StoreGitHubARN", "WriteRoleARN", "WriteProviderARN"} \subseteq CallNames
        BY CallList
    <2>. QED BY <1>1, <1>5, <2>1, <2>2
         DEF StoreOrgID, StoreRootOU, StoreAdminARN, StoreProviderARN,
             StoreGitHubARN, WriteRoleARN, WriteProviderARN, StoreKeys
<1>. QED BY <1>2, <1>3, <1>4, <1>5 DEF Call

\* The step is the one the call belongs to.
LEMMA Owner ==
    ASSUME Level, eng.pc \in CallNames, Step \in Steps
    PROVE  eng.pc \in CallsOf(Step)
BY DEF Level, AttemptSound, AttemptOf

\* The last call of a step leaves its effect in place, and a call before leads to
\* one of the same step.
LEMMA CallLevel ==
    ASSUME IInv, Level, eng'.pc # "idle" => ~eng'.dry, StoredIsReal', Call
    PROVE  Level'
<1>. USE DEF Cloud, Put, Calling
<1>1. TypeInv /\ eng \in Engines /\ eng.pc \in CallNames
    BY CallLasts DEF IInv, TypeInv, TypeOK
<1>2. eng.pc \in AtStep BY <1>1 DEF AtStep
<1>3. Step \in Steps BY <1>1, <1>2, MoveType
<1>4. eng.pc \in CallsOf(Step) BY <1>1, <1>3, Owner
<1>5. Lasts BY <1>1, CallLasts
<1>6. AttemptSound'
    <2>. USE CallsByStep, StepList
    <2>1. CASE CreateOrganization
        <3>1. Step = "create_org" BY <1>3, <1>4, <2>1 DEF CreateOrganization
        <3>. QED BY <1>1, <1>3, <2>1, <3>1, ToCall DEF CreateOrganization
    <2>2. CASE CreateRole
        <3>1. Step = "create_admin_role" BY <1>3, <1>4, <2>2 DEF CreateRole
        <3>. QED BY <1>1, <1>3, <2>2, <3>1, ToCall DEF CreateRole
    <2>3. CASE AttachRolePolicy
        <3>1. Step = "create_admin_role" BY <1>3, <1>4, <2>3 DEF AttachRolePolicy
        <3>. QED BY <1>1, <1>3, <2>3, <3>1, ToCall DEF AttachRolePolicy
    <2>4. CASE CreateProvider
        <3>1. Step = "create_oidc_provider" BY <1>3, <1>4, <2>4 DEF CreateProvider
        <3>. QED BY <1>1, <1>3, <2>4, <3>1, ToCall DEF CreateProvider
    <2>5. CASE CreateGitHubRole
        <3>1. Step = "create_github_actions_role"
            BY <1>3, <1>4, <2>5 DEF CreateGitHubRole
        <3>. QED BY <1>1, <1>3, <2>5, <3>1, ToCall DEF CreateGitHubRole
    <2>6. CASE StoreOrgID
        <3>1. Step = "create_org" BY <1>3, <1>4, <2>6 DEF StoreOrgID
        <3>2. "org_id" \in store'.keys
            BY <1>1, <2>6 DEF StoreOrgID, TypeInv, TypeOK
        <3>. QED BY <1>1, <1>3, <2>6, <3>1, <3>2, ToCall DEF StoreOrgID
    <2>7. CASE WriteRoleARN
        <3>1. Step = "write_oidc_outputs" BY <1>3, <1>4, <2>7 DEF WriteRoleARN
        <3>2. "target_role_arn" \in store'.keys
            BY <1>1, <2>7 DEF WriteRoleARN, TypeInv, TypeOK
        <3>. QED BY <1>1, <1>3, <2>7, <3>1, <3>2, ToCall DEF WriteRoleARN
    <2>8. CASE StoreRootOU
        <3>1. Step = "create_org" BY <1>3, <1>4, <2>8 DEF StoreRootOU
        <3>2. "org_id" \in store'.keys
            BY <1>1, <1>3, <1>5, <2>8 DEF StoreRootOU, Level, AttemptSound,
                                          AttemptOf, Lasts
        <3>3. InPlace("create_org")' BY <3>2 DEF InPlace, StoredIsReal
        <3>. QED BY <1>1, <1>3, <2>8, <3>1, <3>3, ToReturn DEF StoreRootOU
    <2>9. CASE StoreAdminARN
        <3>1. Step = "create_admin_role" BY <1>3, <1>4, <2>9 DEF StoreAdminARN
        <3>2. "admin_arn" \in store'.keys
            BY <1>1, <2>9 DEF StoreAdminARN, TypeInv, TypeOK
        <3>3. InPlace("create_admin_role")' BY <3>2 DEF InPlace, StoredIsReal
        <3>. QED BY <1>1, <1>3, <2>9, <3>1, <3>3, ToReturn DEF StoreAdminARN
    <2>10. CASE EnablePolicyType
        <3>1. Step = "enable_scp" BY <1>3, <1>4, <2>10 DEF EnablePolicyType
        <3>2. aws'.scp BY <1>1, <2>10 DEF EnablePolicyType, TypeInv, TypeOK
        <3>3. InPlace("enable_scp")' BY <3>2 DEF InPlace
        <3>. QED BY <1>1, <1>3, <2>10, <3>1, <3>3, ToReturn DEF EnablePolicyType
    <2>11. CASE TerraformInit
        <3>1. Step = "terraform_init_org" BY <1>3, <1>4, <2>11 DEF TerraformInit
        <3>2. dir'.init BY <1>1, <2>11 DEF TerraformInit, TypeInv, TypeOK
        <3>3. InPlace("terraform_init_org")' BY <3>2 DEF InPlace
        <3>. QED BY <1>1, <1>3, <2>11, <3>1, <3>3, ToReturn DEF TerraformInit
    <2>12. CASE StoreProviderARN
        <3>1. Step = "create_oidc_provider" BY <1>3, <1>4, <2>12 DEF StoreProviderARN
        <3>2. "provider_arn" \in store'.keys
            BY <1>1, <2>12 DEF StoreProviderARN, TypeInv, TypeOK
        <3>3. InPlace("create_oidc_provider")' BY <3>2 DEF InPlace, StoredIsReal
        <3>. QED BY <1>1, <1>3, <2>12, <3>1, <3>3, ToReturn DEF StoreProviderARN
    <2>13. CASE StoreGitHubARN
        <3>1. Step = "create_github_actions_role"
            BY <1>3, <1>4, <2>13 DEF StoreGitHubARN
        <3>2. "github_arn" \in store'.keys
            BY <1>1, <2>13 DEF StoreGitHubARN, TypeInv, TypeOK
        <3>3. InPlace("create_github_actions_role")'
            BY <3>2 DEF InPlace, StoredIsReal
        <3>. QED BY <1>1, <1>3, <2>13, <3>1, <3>3, ToReturn DEF StoreGitHubARN
    <2>14. CASE WriteProviderARN
        <3>1. Step = "write_oidc_outputs" BY <1>3, <1>4, <2>14 DEF WriteProviderARN
        <3>2. "target_role_arn" \in store'.keys
            BY <1>1, <1>3, <1>5, <2>14 DEF WriteProviderARN, Level, AttemptSound,
                                           AttemptOf, Lasts
        <3>3. InPlace("write_oidc_outputs")' BY <3>2 DEF InPlace, StoredIsReal
        <3>. QED BY <1>1, <1>3, <2>14, <3>1, <3>3, ToReturn DEF WriteProviderARN
    <2>15. CASE TerraformPlan
        <3>1. Step = "terraform_plan_org" BY <1>3, <1>4, <2>15 DEF TerraformPlan
        <3>2. eng'.pc = "return" /\ eng'.out = Changes /\ Step' = Step
            BY <1>1, <2>15 DEF TerraformPlan, Engines, Step
        <3>3. aws' = aws /\ dir'.module = dir.module /\ dir'.plan.made
            BY <1>1, <2>15 DEF TerraformPlan, TypeInv, TypeOK
        <3>4. InPlace("terraform_plan_org")' BY <1>5, <3>3 DEF InPlace, Lasts
        <3>. QED BY <3>1, <3>2, <3>3, <3>4, CallList
             DEF AttemptSound, AttemptOf, Changes
    <2>16. CASE TerraformApply
        <3>1. Step = "terraform_apply_org" BY <1>3, <1>4, <2>16 DEF TerraformApply
        <3>2. eng'.pc = "return" /\ Step' = Step
            BY <1>1, <2>16 DEF TerraformApply, Engines, Step
        <3>3. dir' = dir /\ aws'.infra = dir.module
            BY <1>1, <2>16 DEF TerraformApply, Applicable, Level, TypeInv, TypeOK
        <3>4. InPlace("terraform_apply_org")' BY <3>3 DEF InPlace
        <3>. QED BY <3>1, <3>2, <3>4, CallList DEF AttemptSound, AttemptOf
    <2>. QED BY <2>1, <2>2, <2>3, <2>4, <2>5, <2>6, <2>7, <2>8, <2>9, <2>10,
                <2>11, <2>12, <2>13, <2>14, <2>15, <2>16 DEF Call
<1>. QED BY <1>1, <1>5, <1>6, CallLasts, LevelKept DEF Level, TypeInv, TypeOK

LEMMA InitLevel == Init => LevelInv
<1>. SUFFICES ASSUME Init PROVE LevelInv OBVIOUS
<1>1. ~dir.plan.made BY DEF Init, NoPlan
<1>2. Traces BY <1>1 DEF Init, Idle, Traces
<1>3. AttemptSound BY CallList DEF Init, Idle, AttemptSound, AttemptOf
<1>4. Level BY <1>1, <1>3 DEF Init, Idle, Level
<1>. QED BY <1>2, <1>4, InitSound DEF LevelInv

LEMMA NextLevel == LevelInv /\ [Next]_vars => LevelInv'
<1>. SUFFICES ASSUME LevelInv, [Next]_vars PROVE LevelInv' OBVIOUS
<1>1. IInv /\ IInv' /\ TypeInv /\ StoredIsReal' /\ Traces
    BY NextSound DEF LevelInv, IInv
<1>2. CASE UNCHANGED vars
    BY <1>1, <1>2 DEF vars, LevelInv, Traces, Clean, Level, AttemptSound,
                      AttemptOf, InPlace, Step
<1>3. CASE Proceed \/ Fault
    <2>1. Traces' /\ (Clean' => Clean) /\ (Level => (eng'.pc # "idle" => ~eng'.dry))
        BY <1>1, <1>3, OwnTraces
    <2>2. ASSUME Clean' PROVE Level'
        <3>1. Level /\ (eng'.pc # "idle" => ~eng'.dry) BY <2>1, <2>2 DEF LevelInv
        <3>. QED BY <1>1, <1>3, <3>1, EngineLevel, OutputLevel, CallLevel
             DEF Proceed, Fault, AttemptRefused
    <2>. QED BY <1>1, <2>1, <2>2 DEF LevelInv
<1>4. CASE Command
    <2>1. Traces' /\ (Clean' => Clean) BY <1>1, <1>4, OutsideTraces
    <2>2. ASSUME Clean' PROVE Level'
        <3>1. Level BY <2>1, <2>2 DEF LevelInv
        <3>2. PICK r \in Runs, dry \in DryRunFlags :
                 StartInit(r, dry) \/ Resume(r, dry)
            BY <1>4 DEF Command
        <3>3. eng'.dry = dry BY <3>2 DEF StartInit, Resume, Begin, Idle
        <3>4. past'.dried = DriedBy(r, dry)
            BY <1>1, <3>2 DEF StartInit, Resume, TypeInv, TypeOK
        <3>5. ~dry BY <2>2, <3>4 DEF Clean, DriedBy
        <3>. QED BY <1>1, <1>4, <3>1, <3>3, <3>5, EngineLevel
    <2>. QED BY <1>1, <2>1, <2>2 DEF LevelInv
<1>5. CASE StoreOperatorARN
    BY <1>1, <1>5, OutsideTraces, OperatorLevel DEF LevelInv
<1>6. CASE EditModule
    BY <1>1, <1>6, EditLevel DEF LevelInv
<1>. QED BY <1>2, <1>3, <1>4, <1>5, <1>6 DEF Next

\* What any run has recorded is in place, whatever its commands and those of the
\* other runs went through, as long as there was no dry run and no edit of the
\* module between runs: IsDone and the checkpoints may be trusted on resume.
THEOREM RecordsAreInPlace == Spec => []RecordedIsInPlace
<1>1. Spec => []LevelInv BY InitLevel, NextLevel, PTL DEF Spec
<1>2. LevelInv => RecordedIsInPlace BY DEF LevelInv, Level, RecordedIsInPlace
<1>. QED BY <1>1, <1>2, PTL

-------------------------------------------------------------------------------
(* What a run recorded SUCCEEDED means *)

\* A command leaves a step behind only with a record of it, and a run is recorded
\* SUCCEEDED only past the last step.
Passed ==
    /\ eng.pc \in AtStep => \A i \in 1..(eng.idx - 1) : Order[i] \in rec[eng.run]
    /\ eng.pc = "finish" => Steps \subseteq rec[eng.run]
    /\ \A r \in Runs : meta[r] = "succeeded" => Steps \subseteq rec[r]

\* A run recorded SUCCEEDED has every step recorded, and as long as there was no
\* dry run and no edit between runs the effects of all nine are there (engine.go:185).
SucceededIsComplete ==
    \A r \in Runs : meta[r] = "succeeded" =>
        /\ rec[r] = Steps
        /\ Clean => /\ \A s \in Steps : InPlace(s)
                    /\ aws = [org |-> TRUE, scp |-> TRUE, role |-> "full",
                              infra |-> dir.module, provider |-> TRUE, github |-> TRUE]

\* A command stays at its step, goes on to the next once the step is recorded, or
\* ends.
LEMMA OwnMoves ==
    ASSUME TypeInv, Proceed \/ Fault
    PROVE  \/ /\ eng.pc \in AtStep /\ eng'.pc \in AtStep
              /\ eng'.run = eng.run /\ eng'.idx = eng.idx
              /\ rec' = rec /\ meta' = meta
           \/ /\ eng.pc \in AtStep /\ eng' = NextStep /\ meta' = meta
              /\ (rec' = rec /\ Step \in rec[eng.run])
                 \/ rec' = [rec EXCEPT ![eng.run] = @ \cup {Step}]
           \/ /\ eng' = Idle /\ rec' = rec
              /\ meta' = meta \/ (eng.pc = "finish"
                                 /\ meta' = [meta EXCEPT ![eng.run] = "succeeded"])
<1>. DEFINE Stays == /\ eng.pc \in AtStep /\ eng'.pc \in AtStep
                     /\ eng'.run = eng.run /\ eng'.idx = eng.idx
                     /\ rec' = rec /\ meta' = meta
<1>1. eng \in Engines BY DEF TypeInv, TypeOK
<1>2. CASE Call
  <2>1. eng.pc \in AtStep /\ meta' = meta /\ rec' = rec
      BY <1>2, CallList
      DEF Call, CreateOrganization, CreateRole, AttachRolePolicy, AtStep, Cloud, Put,
          Calling, EnablePolicyType, CreateProvider, CreateGitHubRole, StoreOrgID,
          StoreRootOU, StoreAdminARN, StoreProviderARN, StoreGitHubARN,
          WriteRoleARN, WriteProviderARN, TerraformInit, TerraformPlan,
          TerraformApply
  <2>2. eng'.pc \in AtStep /\ eng'.run = eng.run /\ eng'.idx = eng.idx
      BY <1>1, <1>2, CallList
      DEF Call, CreateOrganization, CreateRole, AttachRolePolicy, AtStep, Cloud, Put,
          Calling, EnablePolicyType, CreateProvider, CreateGitHubRole, StoreOrgID,
          StoreRootOU, StoreAdminARN, StoreProviderARN, StoreGitHubARN,
          WriteRoleARN, WriteProviderARN, TerraformInit, TerraformPlan,
          TerraformApply, Engines
  <2>. QED BY <2>1, <2>2
<1>3. ASSUME NEW attempt, Enter(attempt), eng.pc \in AtStep PROVE Stays
  <2>1. eng.idx \in 1..9 BY <1>3, MoveType
  <2>2. Entry.pc \in AtStep BY <2>1, CallsNamed DEF Entry, Step, AtStep
  <2>. QED BY <1>1, <1>3, <2>2 DEF Enter, Engine, Engines
<1>4. CASE SkipRecorded BY <1>4 DEF SkipRecorded, Engine, AtStep
<1>5. CASE Resolve BY <1>1, <1>5 DEF Resolve, Engine, Engines, AtStep
<1>6. CASE ResolveFails \/ Kill BY <1>6 DEF ResolveFails, Kill, Engine
<1>7. CASE FoundNotDone \/ IsDoneFails
    BY <1>3, <1>7 DEF FoundNotDone, IsDoneFails, AtStep
<1>8. CASE AttemptFails
    BY <1>3, <1>8 DEF AttemptFails, Engine, AtStep
<1>9. CASE FoundDone \/ RecordSucceeded
    BY <1>9 DEF FoundDone, RecordSucceeded, AtStep
<1>10. CASE Finish BY <1>10 DEF Finish
<1>11. ASSUME NEW ok \in BOOLEAN, PersistOutput(ok) PROVE Stays
    BY <1>1, <1>11 DEF PersistOutput, Engines, AtStep
<1>. QED BY <1>2, <1>4, <1>5, <1>6, <1>7, <1>8, <1>9, <1>10, <1>11
         DEF Proceed, Fault, AttemptRefused

LEMMA InitPassed == Init => Passed
<1>1. "idle" \notin AtStep BY CallList DEF AtStep
<1>. QED BY <1>1 DEF Init, Idle, Passed

LEMMA NextPassed == TypeInv /\ Passed /\ [Next]_vars => Passed'
<1>. SUFFICES ASSUME TypeInv, Passed, [Next]_vars PROVE Passed' OBVIOUS
<1>1. /\ eng \in Engines /\ rec \in [Runs -> SUBSET Steps]
      /\ meta \in [Runs -> {"none", "running", "succeeded"}]
    BY DEF TypeInv, TypeOK
<1>2. "idle" \notin AtStep /\ "finish" \notin AtStep BY CallList DEF AtStep
<1>3. CASE Proceed \/ Fault
  <2>1. eng.run \in Runs BY <1>3, OwnStep DEF TypeInv, Placed
  <2>2. CASE /\ eng.pc \in AtStep /\ eng'.pc \in AtStep
             /\ eng'.run = eng.run /\ eng'.idx = eng.idx
             /\ rec' = rec /\ meta' = meta
      BY <1>2, <2>2 DEF Passed
  <2>3. CASE /\ eng.pc \in AtStep /\ eng' = NextStep /\ meta' = meta
             /\ (rec' = rec /\ Step \in rec[eng.run])
                \/ rec' = [rec EXCEPT ![eng.run] = @ \cup {Step}]
    <3>1. eng.idx \in 1..9 BY <2>3, MoveType
    <3>2. /\ eng'.run = eng.run /\ eng'.idx = eng.idx + 1
          /\ eng'.pc = IF eng.idx < 9 THEN "step" ELSE "finish"
        BY <1>1, <2>3, OrderLength DEF NextStep, Engines
    <3>3. \A r \in Runs : rec[r] \subseteq rec'[r] BY <1>1, <2>1, <2>3
    <3>4. \A i \in 1..eng.idx : Order[i] \in rec'[eng.run]
      <4>1. Order[eng.idx] \in rec'[eng.run] BY <1>1, <2>1, <2>3 DEF Step
      <4>2. \A i \in 1..(eng.idx - 1) : Order[i] \in rec'[eng.run]
          BY <2>1, <2>3, <3>3 DEF Passed
      <4>. QED BY <3>1, <4>1, <4>2
    <3>5. eng'.pc = "finish" => Steps \subseteq rec'[eng.run]
        BY <3>1, <3>2, <3>4, OrderLength DEF Steps
    <3>6. \A r \in Runs : meta'[r] = "succeeded" => Steps \subseteq rec'[r]
        BY <2>3, <3>3 DEF Passed
    <3>. QED BY <3>1, <3>2, <3>4, <3>5, <3>6 DEF Passed
  <2>4. CASE /\ eng' = Idle /\ rec' = rec
             /\ meta' = meta \/ (eng.pc = "finish"
                                /\ meta' = [meta EXCEPT ![eng.run] = "succeeded"])
      BY <1>1, <1>2, <2>1, <2>4 DEF Passed, Idle
  <2>. QED BY <1>3, <2>2, <2>3, <2>4, OwnMoves
<1>4. CASE Command
  <2>1. /\ eng'.idx = 1 /\ eng'.pc = "step" /\ rec' = rec
        /\ \A r \in Runs : meta'[r] = "succeeded" => meta[r] = "succeeded"
      BY <1>1, <1>4 DEF Command, StartInit, Resume, Begin, Idle
  <2>. QED BY <2>1 DEF Passed
<1>5. CASE UNCHANGED <<eng, rec, meta>> BY <1>5 DEF Passed
<1>. QED BY <1>3, <1>4, <1>5 DEF Next, EditModule, StoreOperatorARN, vars

\* A run recorded SUCCEEDED has all nine steps recorded, whatever its commands went
\* through; without dry runs, and if nobody edits the module between runs, the
\* platform is then as the nine steps describe it.
THEOREM SucceededMeansComplete == Spec => []SucceededIsComplete
<1>1. Spec => []LevelInv BY InitLevel, NextLevel, PTL DEF Spec
<1>2. LevelInv => TypeInv /\ RecordedIsInPlace
    BY DEF LevelInv, IInv, Level, RecordedIsInPlace
<1>3. Spec => []Passed BY <1>1, <1>2, InitPassed, NextPassed, PTL DEF Spec
<1>4. TypeInv /\ RecordedIsInPlace /\ Passed => SucceededIsComplete
  <2>. SUFFICES ASSUME TypeInv, RecordedIsInPlace, Passed,
                       NEW r \in Runs, meta[r] = "succeeded"
       PROVE  /\ rec[r] = Steps
              /\ Clean => /\ \A s \in Steps : InPlace(s)
                          /\ aws = [org |-> TRUE, scp |-> TRUE, role |-> "full",
                                    infra |-> dir.module, provider |-> TRUE,
                                    github |-> TRUE]
      BY DEF SucceededIsComplete
  <2>1. rec[r] = Steps
    <3>1. rec \in [Runs -> SUBSET Steps] BY DEF TypeInv, TypeOK
    <3>. QED BY <3>1 DEF Passed
  <2>2. ASSUME Clean PROVE \A s \in Steps : InPlace(s)
      BY <2>1, <2>2 DEF RecordedIsInPlace
  <2>3. ASSUME Clean
        PROVE  aws = [org |-> TRUE, scp |-> TRUE, role |-> "full",
                      infra |-> dir.module, provider |-> TRUE, github |-> TRUE]
    <3>1. /\ InPlace("create_org") /\ InPlace("create_admin_role")
          /\ InPlace("enable_scp") /\ InPlace("terraform_apply_org")
          /\ InPlace("create_oidc_provider") /\ InPlace("create_github_actions_role")
        BY <2>2, <2>3, StepList
    <3>2. /\ aws.org /\ aws.role = "full" /\ aws.scp /\ aws.infra = dir.module
          /\ aws.provider /\ aws.github
        BY <3>1 DEF InPlace
    <3>3. aws \in AwsStates BY DEF TypeInv, TypeOK, AwsStates
    <3>. QED BY <3>2, <3>3 DEF AwsStates
  <2>. QED BY <2>1, <2>2, <2>3
<1>. QED BY <1>1, <1>2, <1>3, <1>4, PTL

\* What stale_plan shows to fail when the module is edited between two runs holds
\* otherwise: a run recorded SUCCEEDED has applied the module.
THEOREM LatestIsAppliedWhenClean == Spec => [](Clean => LatestIsApplied)
<1>1. SucceededIsComplete /\ TypeOK => (Clean => LatestIsApplied)
  <2>. SUFFICES ASSUME SucceededIsComplete, TypeOK, Clean,
                       NEW r \in past.fresh \ past.dried, meta[r] = "succeeded"
       PROVE  aws.infra = dir.module
      BY DEF LatestIsApplied
  <2>1. r \in Runs BY DEF TypeOK
  <2>. QED BY <2>1 DEF SucceededIsComplete
<1>. QED BY <1>1, SucceededMeansComplete, TypeCorrect, PTL

-------------------------------------------------------------------------------
(* Dry runs *)

\* Only write_oidc_outputs lets a dry run come to its calls.
DryPlaces == eng.dry => eng.pc \in {"idle", "step", "isdone", "return", "record",
                                    "finish", "WriteRoleARN", "WriteProviderARN"}

\* A command with --dry-run changes nothing in AWS and runs no terraform
\* (README.md:41, "describes the actions a run would take without executing
\* them"); of the store it writes the keys of the target project
\* (write_outputs.go:44-50) and the outputs of the steps, but no other key.  The
\* operator may work at the same time.
DryRunIsContained ==
    [][eng.pc # "idle" /\ eng.dry =>
           /\ aws' = aws
           /\ dir' = [dir EXCEPT !.module = dir'.module]
           /\ store'.keys \subseteq store.keys \cup
                  {"operator_arn", "target_role_arn", "target_provider_arn"}]_vars

\* The places where a dry run may be.
DryPC == {"idle", "step", "isdone", "return", "record", "finish",
          "WriteRoleARN", "WriteProviderARN"}

\* An attempt of a dry run ends where it begins, or is one of write_oidc_outputs.
LEMMA DryEntry == ASSUME eng.dry PROVE Entry.pc \in DryPC
<1>1. Calls["write_oidc_outputs"][1] = "WriteRoleARN" BY DEF Calls
<1>2. CASE NothingToApply BY <1>2 DEF Entry, DryPC
<1>3. CASE ~NothingToApply /\ RunsReally(Step)
  <2>1. Step = "write_oidc_outputs" BY <1>3 DEF RunsReally
  <2>. QED BY <1>1, <1>3, <2>1 DEF Entry, DryPC
<1>4. CASE ~NothingToApply /\ ~RunsReally(Step) BY <1>4 DEF Entry, DryPC
<1>. QED BY <1>2, <1>3, <1>4

\* What a dry run does by itself.
LEMMA DryStep ==
    ASSUME TypeInv, DryPlaces, eng.dry, Proceed \/ Fault
    PROVE  /\ eng'.dry => eng'.pc \in DryPC
           /\ UNCHANGED <<aws, dir>>
           /\ store'.keys \subseteq
                  store.keys \cup {"target_role_arn", "target_provider_arn"}
<1>. DEFINE Dry == /\ eng'.dry => eng'.pc \in DryPC
                   /\ UNCHANGED <<aws, dir>>
                   /\ store'.keys \subseteq
                          store.keys \cup {"target_role_arn", "target_provider_arn"}
<1>1. eng \in Engines /\ eng.pc \in DryPC BY DEF TypeInv, TypeOK, DryPlaces, DryPC
<1>2. CASE Call
  <2>1. WriteRoleARN \/ WriteProviderARN
      BY <1>1, <1>2
      DEF Call, CreateOrganization, CreateRole, AttachRolePolicy, Cloud, Put, Calling,
          EnablePolicyType, CreateProvider, CreateGitHubRole, StoreOrgID, StoreRootOU,
          StoreAdminARN, StoreProviderARN, StoreGitHubARN, TerraformInit,
          TerraformPlan, TerraformApply, DryPC
  <2>2. eng'.pc \in DryPC /\ UNCHANGED <<aws, dir>>
      BY <1>1, <2>1 DEF WriteRoleARN, WriteProviderARN, Put, Calling, Engines, DryPC
  <2>3. store'.keys \subseteq store.keys \cup {"target_role_arn", "target_provider_arn"}
      BY <2>1 DEF WriteRoleARN, WriteProviderARN, Put, TypeInv, TypeOK
  <2>. QED BY <2>2, <2>3
<1>3. ASSUME NEW next, Engine(next), next.pc \in DryPC PROVE Dry
    BY <1>3 DEF Engine
<1>4. NextStep.pc \in DryPC /\ Idle.pc \in DryPC
    BY <1>1 DEF NextStep, Idle, Engines, DryPC
<1>5. ASSUME NEW attempt, Enter(attempt) PROVE Dry
  <2>1. Engine(eng') /\ eng'.pc = Entry.pc BY <1>1, <1>5 DEF Enter, Engine, Engines
  <2>. QED BY <1>3, <2>1, DryEntry
<1>6. CASE SkipRecorded \/ ResolveFails \/ Kill
    BY <1>3, <1>4, <1>6 DEF SkipRecorded, ResolveFails, Kill
<1>7. CASE Resolve BY <1>1, <1>7 DEF Resolve, Engine, Engines, DryPC
<1>8. CASE FoundNotDone \/ IsDoneFails \/ AttemptFails
    BY <1>3, <1>4, <1>5, <1>8 DEF FoundNotDone, IsDoneFails, AttemptFails
<1>9. CASE FoundDone \/ RecordSucceeded \/ Finish
    BY <1>4, <1>9 DEF FoundDone, RecordSucceeded, Finish
<1>10. ASSUME NEW ok \in BOOLEAN, PersistOutput(ok) PROVE Dry
  <2>1. eng'.pc = "record" /\ UNCHANGED <<aws, dir>>
      BY <1>1, <1>10 DEF PersistOutput, Engines
  <2>2. store'.keys = store.keys BY <1>10 DEF PersistOutput, TypeInv, TypeOK
  <2>. QED BY <2>1, <2>2 DEF DryPC
<1>. QED BY <1>2, <1>6, <1>7, <1>8, <1>9, <1>10 DEF Proceed, Fault, AttemptRefused

\* The same with what happens around the command.
LEMMA NextDry ==
    ASSUME TypeInv, DryPlaces, [Next]_vars
    PROVE  /\ DryPlaces'
           /\ eng.pc # "idle" /\ eng.dry =>
                  /\ aws' = aws
                  /\ dir' = [dir EXCEPT !.module = dir'.module]
                  /\ store'.keys \subseteq store.keys \cup
                         {"operator_arn", "target_role_arn", "target_provider_arn"}
<1>1. dir = [dir EXCEPT !.module = dir.module] BY DEF TypeInv, TypeOK
<1>2. CASE Proceed \/ Fault
  <2>1. CASE eng.dry BY <1>1, <1>2, <2>1, DryStep DEF DryPlaces, DryPC
  <2>2. CASE ~eng.dry
    <3>1. eng'.dry => eng'.pc = "idle" BY <1>2, <2>2, OwnStep
    <3>. QED BY <2>2, <3>1 DEF DryPlaces
  <2>. QED BY <2>1, <2>2
<1>3. CASE Command BY <1>3 DEF Command, StartInit, Resume, Begin, Idle, DryPlaces
<1>4. CASE EditModule
    BY <1>4 DEF EditModule, DryPlaces, TypeInv, TypeOK
<1>5. CASE StoreOperatorARN
    BY <1>1, <1>5 DEF StoreOperatorARN, DryPlaces, TypeInv, TypeOK
<1>6. CASE UNCHANGED vars BY <1>1, <1>6 DEF vars, DryPlaces
<1>. QED BY <1>2, <1>3, <1>4, <1>5, <1>6 DEF Next

\* A dry run leaves AWS, terraform's files and every key but the target project's
\* alone, whichever of its steps fail or are repeated.
THEOREM DryRunsAreContained == Spec => DryRunIsContained
<1>1. Init => DryPlaces BY DEF Init, Idle, DryPlaces
<1>2. TypeInv /\ DryPlaces /\ [Next]_vars => DryPlaces' BY NextDry
<1>3. TypeInv /\ DryPlaces /\ [Next]_vars =>
          [eng.pc # "idle" /\ eng.dry =>
               /\ aws' = aws
               /\ dir' = [dir EXCEPT !.module = dir'.module]
               /\ store'.keys \subseteq store.keys \cup
                      {"operator_arn", "target_role_arn", "target_provider_arn"}]_vars
    BY NextDry
<1>. QED BY <1>1, <1>2, <1>3, InitType, NextType, PTL DEF Spec, DryRunIsContained

================================================================================
