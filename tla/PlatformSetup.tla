----------------------------- MODULE PlatformSetup -----------------------------
(***************************************************************************)
(* The nine steps of the platform-setup pipeline (internal/steps) as the   *)
(* engine runs them: what each IsDone looks at and what each Run changes,  *)
(* call by call, in AWS, in the module directory on disk and in the        *)
(* configuration store.  One command runs at a time; what several do to    *)
(* each other's records, and lost records, are the business of Engine.     *)
(*                                                                         *)
(* AWS and terraform are external and modelled from how the code uses      *)
(* them.  Of the Terraform module only its version counts: a plan leads    *)
(* from the version in place to that on disk, and terraform refuses to     *)
(* plan in a directory without init, and to apply a saved plan when        *)
(* something was applied since it was made.                                *)
(***************************************************************************)
EXTENDS Naturals, Sequences

CONSTANTS Runs,            \* the run identifiers
          NoRun,           \* "no run"; not a run identifier
          DryRunFlags,     \* the values of --dry-run the operators use
          Versions,        \* the versions the Terraform module goes through
          OutputsMayFail   \* may the engine fail to store an output?

ASSUME SetupAssumption == /\ NoRun \notin Runs
                          /\ DryRunFlags \subseteq BOOLEAN
                          /\ Versions \subseteq Nat
                          /\ 0 \in Versions
                          /\ OutputsMayFail \in BOOLEAN

VARIABLES eng,       \* the engine of the command that runs
          meta,      \* meta[r]: what is recorded of run r as a whole
          rec,       \* rec[r]: the steps run r has recorded SUCCEEDED or SKIPPED
          aws,       \* what exists in AWS
          dir,       \* the module directory on disk
          store,     \* the configuration store: keys present, and two outputs
          past       \* the runs started since the module was last edited, and
                     \* those that a dry run has worked on (history)

vars == <<eng, meta, rec, aws, dir, store, past>>

-------------------------------------------------------------------------------
(* The pipeline *)

\* What TopoSort makes of the nine Deps methods: create_admin_role comes before
\* enable_scp for its name.
Order == <<"create_org", "create_admin_role", "enable_scp", "terraform_init_org",
           "terraform_plan_org", "terraform_apply_org", "create_oidc_provider",
           "create_github_actions_role", "write_oidc_outputs">>

Steps == {Order[i] : i \in 1..Len(Order)}

\* The calls of each Run that change something, in order.
Calls == [create_org                 |-> <<"CreateOrganization", "StoreOrgID",
                                           "StoreRootOU">>,
          create_admin_role          |-> <<"CreateRole", "AttachRolePolicy",
                                           "StoreAdminARN">>,
          enable_scp                 |-> <<"EnablePolicyType">>,
          terraform_init_org         |-> <<"TerraformInit">>,
          terraform_plan_org         |-> <<"TerraformPlan">>,
          terraform_apply_org        |-> <<"TerraformApply">>,
          create_oidc_provider       |-> <<"CreateProvider", "StoreProviderARN">>,
          create_github_actions_role |-> <<"CreateGitHubRole", "StoreGitHubARN">>,
          write_oidc_outputs         |-> <<"WriteRoleARN", "WriteProviderARN">>]

CallNames == UNION {{Calls[s][i] : i \in 1..Len(Calls[s])} : s \in Steps}

\* RetryPolicy: RetryThrice for init and plan, NoRetry for the others.
MaxAttempts(s) == IF s \in {"terraform_init_org", "terraform_plan_org"} THEN 3 ELSE 1

\* The stored ARN a step's credential class is resolved from; none for root.
NeededARN(s) ==
    CASE s \in {"create_org", "create_admin_role", "enable_scp"} -> {}
      [] s = "write_oidc_outputs"                                -> {"operator_arn"}
      [] OTHER                                                   -> {"admin_arn"}

StoreKeys == {"org_id", "root_ou_id", "admin_arn", "operator_arn", "provider_arn",
              "github_arn", "target_role_arn", "target_provider_arn"}

Outputs == {"none", "true", "false"}

NoPlan == [base |-> 0, target |-> 0, made |-> FALSE]

Engines == [pc      : {"idle", "step", "isdone", "return", "record", "finish"}
                      \cup CallNames,
            run     : Runs \cup {NoRun},
            dry     : BOOLEAN,
            idx     : 1..(Len(Order) + 1),
            attempt : 1..3,
            out     : Outputs]                 \* the output this attempt has set

\* Every variable is of its type.
TypeOK == /\ eng \in Engines
          /\ meta \in [Runs -> {"none", "running", "succeeded"}]
          /\ rec \in [Runs -> SUBSET Steps]
          /\ aws \in [org : BOOLEAN, scp : BOOLEAN, role : {"none", "bare", "full"},
                      infra : Versions, provider : BOOLEAN, github : BOOLEAN]
          /\ dir \in [module : Versions, init : BOOLEAN,
                      plan : [base : Versions, target : Versions, made : BOOLEAN]]
          /\ store \in [keys : SUBSET StoreKeys, plan_has_changes : Outputs,
                        applied : Outputs]
          /\ past \in [fresh : SUBSET Runs, dried : SUBSET Runs]

-------------------------------------------------------------------------------
(* The engine around a step *)

Idle == [pc |-> "idle", run |-> NoRun, dry |-> FALSE, idx |-> 1, attempt |-> 1,
         out |-> "none"]

Step == Order[eng.idx]

\* A platform that nobody has touched.  The operator may or may not have stored
\* the operator role, which no step creates.
Init == /\ eng = Idle
        /\ meta = [r \in Runs |-> "none"]
        /\ rec = [r \in Runs |-> {}]
        /\ aws = [org |-> FALSE, scp |-> FALSE, role |-> "none", infra |-> 0,
                  provider |-> FALSE, github |-> FALSE]
        /\ dir \in [module : Versions, init : {FALSE}, plan : {NoPlan}]
        /\ store = [keys |-> {}, plan_has_changes |-> "none", applied |-> "none"]
        /\ past = [fresh |-> {}, dried |-> {}]

\* Only the engine moves.
Engine(next) == /\ eng' = next
                /\ UNCHANGED <<meta, rec, aws, dir, store, past>>

\* A command begins to work on run r.
Begin(r, dry) == /\ eng.pc = "idle"
                 /\ eng' = [Idle EXCEPT !.pc = "step", !.run = r, !.dry = dry]
                 /\ UNCHANGED <<rec, aws, dir, store>>

DriedBy(r, dry) == past.dried \cup (IF dry THEN {r} ELSE {})

StartInit(r, dry) == /\ meta[r] = "none"
                     /\ Begin(r, dry)
                     /\ meta' = [meta EXCEPT ![r] = "running"]
                     /\ past' = [fresh |-> past.fresh \cup {r},
                                 dried |-> DriedBy(r, dry)]

Resume(r, dry) == /\ meta[r] # "none"
                  /\ Begin(r, dry)
                  /\ past' = [past EXCEPT !.dried = DriedBy(r, dry)]
                  /\ UNCHANGED meta

NextStep == [eng EXCEPT !.pc = IF eng.idx < Len(Order) THEN "step" ELSE "finish",
                        !.idx = @ + 1, !.attempt = 1, !.out = "none"]

SkipRecorded == /\ eng.pc = "step"
                /\ Step \in rec[eng.run]
                /\ Engine(NextStep)

Resolve == /\ eng.pc = "step"
           /\ Step \notin rec[eng.run]
           /\ NeededARN(Step) \subseteq store.keys
           /\ Engine([eng EXCEPT !.pc = "isdone"])

\* The step is recorded FAILED and the command ends.
ResolveFails == /\ eng.pc = "step"
                /\ Step \notin rec[eng.run]
                /\ Engine(Idle)

\* The nine IsDone methods.
OrgDone        == aws.org /\ "org_id" \in store.keys
AdminRoleDone  == aws.role # "none" /\ "admin_arn" \in store.keys
SCPDone        == aws.scp
InitDone       == dir.init
PlanDone       == dir.plan.made /\ store.plan_has_changes = "false"
ApplyDone      == store.applied = "true"
ProviderDone   == aws.provider /\ "provider_arn" \in store.keys
GitHubRoleDone == aws.github /\ "github_arn" \in store.keys
OutputsDone    == "target_role_arn" \in store.keys

IsDone(s) == CASE s = "create_org"                 -> OrgDone
               [] s = "create_admin_role"          -> AdminRoleDone
               [] s = "enable_scp"                 -> SCPDone
               [] s = "terraform_init_org"         -> InitDone
               [] s = "terraform_plan_org"         -> PlanDone
               [] s = "terraform_apply_org"        -> ApplyDone
               [] s = "create_oidc_provider"       -> ProviderDone
               [] s = "create_github_actions_role" -> GitHubRoleDone
               [] s = "write_oidc_outputs"         -> OutputsDone

FoundDone == /\ eng.pc = "isdone"
             /\ IsDone(Step)
             /\ rec' = [rec EXCEPT ![eng.run] = @ \cup {Step}]
             /\ eng' = NextStep
             /\ UNCHANGED <<meta, aws, dir, store, past>>

-------------------------------------------------------------------------------
(* An attempt of Run *)

\* Does Run go past its look at DryRun?  That of write_oidc_outputs has none.
RunsReally(s) == ~eng.dry \/ s = "write_oidc_outputs"

\* The output that Run sets in a dry run.
DryOutput(s) == CASE s = "terraform_plan_org"  -> "false"
                  [] s = "terraform_apply_org" -> "true"
                  [] OTHER                     -> "none"

\* Apply looks at the stored plan_has_changes before it looks at DryRun.
NothingToApply == Step = "terraform_apply_org" /\ store.plan_has_changes = "false"

\* Where Run begins, and the output it has set when that is its end already.
Entry == IF NothingToApply        THEN [pc |-> "return", out |-> "false"]
         ELSE IF RunsReally(Step) THEN [pc |-> Calls[Step][1], out |-> "none"]
         ELSE [pc |-> "return", out |-> DryOutput(Step)]

Enter(attempt) == Engine([eng EXCEPT !.pc = Entry.pc, !.out = Entry.out,
                                     !.attempt = attempt])

FoundNotDone == /\ eng.pc = "isdone"
                /\ ~IsDone(Step)
                /\ Enter(1)

\* An error inside IsDone counts as "not done".
IsDoneFails == /\ eng.pc = "isdone"
               /\ Enter(1)

-------------------------------------------------------------------------------
(* Slips: definitions below as a plausible mistake would write them *)

\* Takes an existing role for a finished one.
CreateRoleSlip ==
    /\ eng.pc = "CreateRole"
    /\ aws' = [aws EXCEPT !.role = IF @ = "none" THEN "bare" ELSE @]
    /\ eng' = [eng EXCEPT !.pc = IF aws.role = "none" THEN "AttachRolePolicy"
                                                      ELSE "StoreAdminARN"]
    /\ UNCHANGED <<meta, rec, dir, store, past>>

\* Passes the last step without recording that the run is complete.
FinishSlip == /\ eng.pc = "finish"
              /\ Engine(Idle)

\* Takes the answer of terraform the wrong way round.
ChangesSlip == IF dir.module = aws.infra THEN "true" ELSE "false"

\* Counts attempts without limit.
AttemptFailsSlip == /\ eng.pc \in CallNames \cup {"return"}
                    /\ Enter(eng.attempt + 1)

-------------------------------------------------------------------------------
(* The calls of an attempt *)

\* The engine stands before call c, which leads to next.
Calling(c, next) == /\ eng.pc = c
                    /\ eng' = [eng EXCEPT !.pc = next]
                    /\ UNCHANGED <<meta, rec, past>>

\* A call that stores key k, which Run waits for before it goes on.
Put(c, k, next) == /\ Calling(c, next)
                   /\ store' = [store EXCEPT !.keys = @ \cup {k}]
                   /\ UNCHANGED <<aws, dir>>

\* A call to AWS that leaves it as "new".
Cloud(c, new, next) == /\ Calling(c, next)
                       /\ aws' = new
                       /\ UNCHANGED <<dir, store>>

\* create_org.  "Already in an organization" is a success.
CreateOrganization == Cloud("CreateOrganization", [aws EXCEPT !.org = TRUE],
                            "StoreOrgID")
StoreOrgID  == Put("StoreOrgID", "org_id", "StoreRootOU")
StoreRootOU == Put("StoreRootOU", "root_ou_id", "return")

\* create_admin_role.  A role that exists is looked up and used.
CreateRole       == Cloud("CreateRole",
                          [aws EXCEPT !.role = IF @ = "none" THEN "bare" ELSE @],
                          "AttachRolePolicy")
AttachRolePolicy == Cloud("AttachRolePolicy", [aws EXCEPT !.role = "full"],
                          "StoreAdminARN")
StoreAdminARN    == Put("StoreAdminARN", "admin_arn", "return")

EnablePolicyType == /\ "root_ou_id" \in store.keys
                    /\ Cloud("EnablePolicyType", [aws EXCEPT !.scp = TRUE], "return")

TerraformInit == /\ Calling("TerraformInit", "return")
                 /\ dir' = [dir EXCEPT !.init = TRUE]
                 /\ UNCHANGED <<aws, store>>

\* The exit code of "terraform plan -detailed-exitcode".
Changes == IF dir.module = aws.infra THEN "false" ELSE "true"

TerraformPlan ==
    /\ eng.pc = "TerraformPlan"
    /\ dir.init
    /\ eng' = [eng EXCEPT !.pc = "return", !.out = Changes]
    /\ dir' = [dir EXCEPT !.plan = [base |-> aws.infra, target |-> dir.module,
                                    made |-> TRUE]]
    /\ UNCHANGED <<meta, rec, aws, store, past>>

\* terraform takes the saved plan only if nothing was applied since.
Applicable == dir.plan.made /\ dir.plan.base = aws.infra

TerraformApply ==
    /\ eng.pc = "TerraformApply"
    /\ Applicable
    /\ eng' = [eng EXCEPT !.pc = "return", !.out = "true"]
    /\ aws' = [aws EXCEPT !.infra = dir.plan.target]
    /\ UNCHANGED <<meta, rec, dir, store, past>>

\* create_oidc_provider.  A provider that exists is used.
CreateProvider   == Cloud("CreateProvider", [aws EXCEPT !.provider = TRUE],
                          "StoreProviderARN")
StoreProviderARN == Put("StoreProviderARN", "provider_arn", "return")

CreateGitHubRole == /\ "provider_arn" \in store.keys
                    /\ Cloud("CreateGitHubRole", [aws EXCEPT !.github = TRUE],
                             "StoreGitHubARN")
StoreGitHubARN   == Put("StoreGitHubARN", "github_arn", "return")

\* write_oidc_outputs.  Both ARNs are read before the first is written.
WriteRoleARN     == /\ {"github_arn", "provider_arn"} \subseteq store.keys
                    /\ Put("WriteRoleARN", "target_role_arn", "WriteProviderARN")
WriteProviderARN == Put("WriteProviderARN", "target_provider_arn", "return")

\* What the next call needs is missing: it can only fail.
Refused == \/ eng.pc = "EnablePolicyType" /\ "root_ou_id" \notin store.keys
           \/ eng.pc = "TerraformPlan" /\ ~dir.init
           \/ eng.pc = "TerraformApply" /\ ~Applicable
           \/ eng.pc = "CreateGitHubRole" /\ "provider_arn" \notin store.keys
           \/ eng.pc = "WriteRoleARN"
              /\ ~ ({"github_arn", "provider_arn"} \subseteq store.keys)

\* The attempt fails, before its next call or after its last.  Another one starts
\* from the beginning of Run, or the step is recorded FAILED.
AttemptFails ==
    /\ eng.pc \in CallNames \cup {"return"}
    /\ IF eng.attempt < MaxAttempts(Step) THEN Enter(eng.attempt + 1)
                                          ELSE Engine(Idle)

AttemptRefused == Refused /\ AttemptFails

\* Run has returned without an error.  Its output is stored before the step is
\* recorded; a failure to store it is only logged.
PersistOutput(ok) ==
    /\ eng.pc = "return"
    /\ ok \/ OutputsMayFail
    /\ eng' = [eng EXCEPT !.pc = "record"]
    /\ store' = IF ~ok \/ eng.out = "none" THEN store
                ELSE IF Step = "terraform_plan_org"
                     THEN [store EXCEPT !.plan_has_changes = eng.out]
                     ELSE [store EXCEPT !.applied = eng.out]
    /\ UNCHANGED <<meta, rec, aws, dir, past>>

RecordSucceeded == /\ eng.pc = "record"
                   /\ rec' = [rec EXCEPT ![eng.run] = @ \cup {Step}]
                   /\ eng' = NextStep
                   /\ UNCHANGED <<meta, aws, dir, store, past>>

Finish == /\ eng.pc = "finish"
          /\ meta' = [meta EXCEPT ![eng.run] = "succeeded"]
          /\ eng' = Idle
          /\ UNCHANGED <<rec, aws, dir, store, past>>

-------------------------------------------------------------------------------
(* The environment *)

Kill == eng.pc # "idle" /\ Engine(Idle)

\* Somebody works on the Terraform module.
EditModule == /\ dir.module + 1 \in Versions
              /\ dir' = [dir EXCEPT !.module = @ + 1]
              /\ past' = [past EXCEPT !.fresh = {}]
              /\ UNCHANGED <<eng, meta, rec, aws, store>>

\* The operator stores the role of the operator class, which no step does.
StoreOperatorARN ==
    /\ "operator_arn" \notin store.keys
    /\ store' = [store EXCEPT !.keys = @ \cup {"operator_arn"}]
    /\ UNCHANGED <<eng, meta, rec, aws, dir, past>>

-------------------------------------------------------------------------------

Call == \/ CreateOrganization \/ StoreOrgID \/ StoreRootOU
        \/ CreateRole \/ AttachRolePolicy \/ StoreAdminARN
        \/ EnablePolicyType
        \/ TerraformInit
        \/ TerraformPlan
        \/ TerraformApply
        \/ CreateProvider \/ StoreProviderARN
        \/ CreateGitHubRole \/ StoreGitHubARN
        \/ WriteRoleARN \/ WriteProviderARN

\* The ARN of the role to assume is not in the store.
CannotResolve == /\ eng.pc = "step"
                 /\ ~(NeededARN(Step) \subseteq store.keys)

\* What the engine does by itself when all goes well.
Proceed == \/ SkipRecorded
           \/ Resolve
           \/ CannotResolve /\ ResolveFails
           \/ FoundDone
           \/ FoundNotDone
           \/ Call
           \/ AttemptRefused
           \/ PersistOutput(TRUE)
           \/ RecordSucceeded
           \/ Finish

Fault == \/ ResolveFails
         \/ IsDoneFails
         \/ AttemptFails
         \/ PersistOutput(FALSE)
         \/ Kill

Command == \E r \in Runs, dry \in DryRunFlags : StartInit(r, dry) \/ Resume(r, dry)

Next == \/ Proceed
        \/ Fault
        \/ Command
        \/ EditModule
        \/ StoreOperatorARN

Spec == Init /\ [][Next]_vars

\* A command that runs goes on.
FairSpec == Spec /\ WF_vars(Proceed)

-------------------------------------------------------------------------------
(* Properties *)

\* An ARN or identifier in the store names something that exists and is finished:
\* the admin role with its policy attached, the provider, the GitHub role made for
\* the stored provider.  Each Run that is cut short, failed or repeated keeps this
\* (create_admin_role.go:97-129, create_provider.go:61-111, create_role.go:61-118,
\* write_outputs.go:31-50), and IsDone and Resolve rely on it.
StoredIsReal ==
    /\ "org_id" \in store.keys => aws.org
    /\ "admin_arn" \in store.keys => aws.role = "full"
    /\ "provider_arn" \in store.keys => aws.provider
    /\ "github_arn" \in store.keys => aws.github /\ "provider_arn" \in store.keys
    /\ "target_role_arn" \in store.keys => "github_arn" \in store.keys

\* The effect of step s is there.
InPlace(s) ==
    CASE s = "create_org"           -> aws.org /\ "org_id" \in store.keys
      [] s = "create_admin_role"    -> aws.role = "full" /\ "admin_arn" \in store.keys
      [] s = "enable_scp"           -> aws.scp
      [] s = "terraform_init_org"   -> dir.init
      [] s = "terraform_plan_org"   -> dir.plan.made /\ dir.plan.target = dir.module
      [] s = "terraform_apply_org"  -> aws.infra = dir.module
      [] s = "create_oidc_provider" -> aws.provider /\ "provider_arn" \in store.keys
      [] s = "create_github_actions_role"
                                    -> aws.github /\ "github_arn" \in store.keys
      [] s = "write_oidc_outputs"   -> {"target_role_arn", "github_arn",
                                        "provider_arn"} \subseteq store.keys

\* So far no dry run, and no edit of the module since the first run started.
Clean == past.dried = {} /\ \A r \in Runs : meta[r] # "none" => r \in past.fresh

\* What a run has recorded is in place, in whichever order its commands and those
\* of another run were cut short, as long as nobody made a dry run or edited the
\* module in between: what IsDone infers from the store and from AWS is enough
\* (step.go:34-36, "IsDone reports whether the step's effect already exists in the
\* world").
RecordedIsInPlace ==
    Clean => \A r \in Runs : \A s \in rec[r] : InPlace(s)

\* A call finds what it needs to be missing for good: root_ou_id was never stored,
\* or the saved plan has been applied already.
Wedged == eng.pc \in {"EnablePolicyType", "TerraformApply"} /\ Refused

\* From some moment on nothing goes wrong and nobody interferes any more.
Calm == <>[][Proceed \/ Command]_vars

\* The two ways in which a run can get stuck, both in Wedged, are the only ones:
\* otherwise a run that is resumed for real again and again is completed once the
\* operator role is stored (README.md:9-11, "a run that fails partway through can be
\* continued from the last successful step").
CompletesUnlessWedged ==
    \A r \in Runs :
        /\ Calm
        /\ [](Clean /\ ~Wedged)
        /\ <>("operator_arn" \in store.keys)
        /\ []<><<Resume(r, FALSE)>>_vars
        => <>(meta[r] = "succeeded")

\* A run that started after the last edit of the module, that only real commands
\* have worked on, and that is recorded SUCCEEDED has applied the module, whatever
\* other runs left behind (step.go:34-35, "IsDone reports whether the step's effect
\* already exists in the world.  When true the engine marks the step Skipped").
LatestIsApplied ==
    \A r \in past.fresh \ past.dried :
        meta[r] = "succeeded" => aws.infra = dir.module
================================================================================
