-------------------------------- MODULE Targets --------------------------------
(***************************************************************************)
(* Several targets (a project and an environment) on one platform, and     *)
(* commands for them at the same time: the steps of the pipeline whose     *)
(* keys belong partly to the target and partly to _platform/global.  These *)
(* are create_admin_role, create_github_actions_role and                   *)
(* write_oidc_outputs; PlatformSetup has all nine steps for one target.    *)
(*                                                                         *)
(* A target's commands work on one run.  An ARN is the name of its role.   *)
(* Roles are in AWS, which is external: a role has one trust policy, given *)
(* when it is created, and CreateRole of a role that exists is an error.   *)
(***************************************************************************)
EXTENDS Naturals, Sequences

CONSTANTS Procs,
          Targets,
          Names,         \* of roles
          Absent,        \* "nothing there"; not a name
          Default,       \* defaultRoleName
          HandNames,     \* the names somebody may store for the admin role
          CollectedRole  \* CollectedRole[t]: oidc/role_name of target t

ASSUME TargetsAssumption == /\ Absent \notin Names \cup Targets \cup {"account"}
                            /\ "account" \notin Targets
                            /\ Default \in Names
                            /\ HandNames \subseteq Names
                            /\ CollectedRole \in [Targets -> Names]

VARIABLES cmd,       \* cmd[p]: the command in process p
          trust,     \* trust[n]: what the role of name n trusts: the repository of
                     \* a target, or the account; Absent when there is no role
          attached,  \* the roles with AdministratorAccess
          global,    \* the keys of _platform/global
          out,       \* out[t]: the role ARN among the outputs of target t
          rec        \* rec[t]: the steps recorded SUCCEEDED or SKIPPED

vars == <<cmd, trust, attached, global, out, rec>>

Order == <<"create_admin_role", "create_github_actions_role", "write_oidc_outputs">>

Steps == {Order[i] : i \in 1..Len(Order)}

MaybeName == Names \cup {Absent}

Commands == [pc     : {"idle", "step", "isdone", "look", "run", "create", "attach",
                       "store", "record"},
             target : Targets,
             at     : 1..Len(Order),
             name   : MaybeName,        \* the role name Run or IsDone has read
             arn    : MaybeName]        \* the ARN Run has in hand

\* Every variable is of its type.
TypeOK == /\ cmd \in [Procs -> Commands]
          /\ trust \in [Names -> Targets \cup {"account", Absent}]
          /\ attached \subseteq Names
          /\ global \in [admin_role_name : MaybeName, admin_role_arn : MaybeName,
                         github_role_arn : MaybeName]
          /\ out \in [Targets -> MaybeName]
          /\ rec \in [Targets -> SUBSET Steps]

-------------------------------------------------------------------------------
(* The engine around a step *)

Idle(t) == [pc |-> "idle", target |-> t, at |-> 1, name |-> Absent, arn |-> Absent]

Init == /\ cmd \in [Procs -> {Idle(t) : t \in Targets}]
        /\ trust = [n \in Names |-> Absent]
        /\ attached = {}
        /\ global = [admin_role_name |-> Absent, admin_role_arn |-> Absent,
                     github_role_arn |-> Absent]
        /\ out = [t \in Targets |-> Absent]
        /\ rec = [t \in Targets |-> {}]

Target(p) == cmd[p].target
Step(p)   == Order[cmd[p].at]

Becomes(p, next) == cmd' = [cmd EXCEPT ![p] = next]

\* Only the command moves.
Moves(p, next) == Becomes(p, next) /\ UNCHANGED <<trust, attached, global, out, rec>>

\* p stands before pc of step s.
At(p, s, pc) == Step(p) = s /\ cmd[p].pc = pc

\* A slip, as those below: counts on behind the last step.
NextStepSlip(p) == [Idle(Target(p)) EXCEPT !.pc = "step", !.at = cmd[p].at + 1]

NextStep(p) == IF cmd[p].at < Len(Order)
               THEN [Idle(Target(p)) EXCEPT !.pc = "step", !.at = cmd[p].at + 1]
               ELSE Idle(Target(p))

\* init or resume for target t.
Begin(p, t) == /\ cmd[p].pc = "idle"
               /\ Moves(p, [Idle(t) EXCEPT !.pc = "step"])

Skip(p) == /\ cmd[p].pc = "step"
           /\ Step(p) \in rec[Target(p)]
           /\ Moves(p, NextStep(p))

\* The admin class needs the stored ARN.  The operator's is nobody's output here.
Resolve(p) == /\ cmd[p].pc = "step"
              /\ Step(p) \notin rec[Target(p)]
              /\ Step(p) = "create_github_actions_role" => global.admin_role_arn # Absent
              /\ Moves(p, [cmd[p] EXCEPT !.pc = "isdone"])

Record(p) == /\ rec' = [rec EXCEPT ![Target(p)] = @ \cup {Step(p)}]
             /\ Becomes(p, NextStep(p))
             /\ UNCHANGED <<trust, attached, global, out>>

Succeed(p) == cmd[p].pc = "record" /\ Record(p)

\* A call fails, or the process is killed.
Stop(p) == /\ cmd[p].pc # "idle"
           /\ Moves(p, Idle(Target(p)))

-------------------------------------------------------------------------------
(* Slips: definitions below as a plausible mistake would write them *)

\* Stores the ARN of a role as soon as it is there.
CreatedSlip(p) == "store"

\* Asks for the stored ARN only.
GitHubRoleDoneSlip(p) == global.github_role_arn # Absent

\* Reads the ARN beside it.
ReadARNSlip(p) == /\ At(p, "write_oidc_outputs", "run")
                  /\ Moves(p, [cmd[p] EXCEPT !.pc = "store", !.arn = global.admin_role_arn])

-------------------------------------------------------------------------------
(* IsDone *)

\* The name of the admin role comes from _platform/global.  The collector stores
\* what it asks for under the target (collector.go:87), and nothing else writes it.
AdminRoleName == IF global.admin_role_name = Absent THEN Default
                                                    ELSE global.admin_role_name

RoleName(p) == IF Step(p) = "create_admin_role" THEN AdminRoleName
                                                ELSE CollectedRole[Target(p)]

\* IsDone and Run begin by reading the name, each for itself.
ReadName(p) == /\ cmd[p].pc \in {"isdone", "run"}
               /\ Step(p) # "write_oidc_outputs"
               /\ Moves(p, [cmd[p] EXCEPT !.name = RoleName(p),
                                          !.pc = IF @ = "isdone" THEN "look" ELSE "create"])

\* A role of the name, and any ARN in the store.  What was seen stays: GetRole and
\* Get can be one action.
Exists(p) == trust[cmd[p].name] # Absent

AdminRoleDone(p)  == Exists(p) /\ global.admin_role_arn # Absent
GitHubRoleDone(p) == Exists(p) /\ global.github_role_arn # Absent
OutputsDone(p)    == out[Target(p)] # Absent

Looks(p) == At(p, "write_oidc_outputs", "isdone") \/ cmd[p].pc = "look"

IsDone(p) == CASE Step(p) = "create_admin_role"          -> AdminRoleDone(p)
               [] Step(p) = "create_github_actions_role" -> GitHubRoleDone(p)
               [] Step(p) = "write_oidc_outputs"         -> OutputsDone(p)

FoundDone(p) == Looks(p) /\ IsDone(p) /\ Record(p)

\* An error of GetRole or Get counts as "not done".
FoundNotDone(p) == Looks(p) /\ Moves(p, [cmd[p] EXCEPT !.pc = "run"])

-------------------------------------------------------------------------------
(* Run *)

\* What a new role trusts.
Trusted(p) == IF Step(p) = "create_admin_role" THEN "account" ELSE Target(p)

Created(p) == IF Step(p) = "create_admin_role" THEN "attach" ELSE "store"

\* CreateRole, and GetRole when there is such a role already.
CreateRole(p) ==
    /\ cmd[p].pc = "create"
    /\ trust' = [trust EXCEPT ![cmd[p].name] = IF @ = Absent THEN Trusted(p) ELSE @]
    /\ Becomes(p, [cmd[p] EXCEPT !.pc = Created(p), !.arn = cmd[p].name])
    /\ UNCHANGED <<attached, global, out, rec>>

AttachRolePolicy(p) == /\ cmd[p].pc = "attach"
                       /\ attached' = attached \cup {cmd[p].name}
                       /\ Becomes(p, [cmd[p] EXCEPT !.pc = "store"])
                       /\ UNCHANGED <<trust, global, out, rec>>

\* write_oidc_outputs reads the ARN from _platform/global, and later writes it.
ReadARN(p) == /\ At(p, "write_oidc_outputs", "run")
              /\ global.github_role_arn # Absent
              /\ Moves(p, [cmd[p] EXCEPT !.pc = "store", !.arn = global.github_role_arn])

StoreAdminARN(p) == /\ At(p, "create_admin_role", "store")
                    /\ global' = [global EXCEPT !.admin_role_arn = cmd[p].arn]
                    /\ UNCHANGED out

StoreGitHubARN(p) == /\ At(p, "create_github_actions_role", "store")
                     /\ global' = [global EXCEPT !.github_role_arn = cmd[p].arn]
                     /\ UNCHANGED out

WriteOutput(p) == /\ At(p, "write_oidc_outputs", "store")
                  /\ out' = [out EXCEPT ![Target(p)] = cmd[p].arn]
                  /\ UNCHANGED global

Store(p) == /\ StoreAdminARN(p) \/ StoreGitHubARN(p) \/ WriteOutput(p)
            /\ Becomes(p, [cmd[p] EXCEPT !.pc = "record"])
            /\ UNCHANGED <<trust, attached, rec>>

-------------------------------------------------------------------------------

\* Somebody stores the name under the key the step reads, by hand.
StoreAdminName(n) == /\ global' = [global EXCEPT !.admin_role_name = n]
                     /\ UNCHANGED <<cmd, trust, attached, out, rec>>

Proceed(p) == \/ Skip(p) \/ Resolve(p) \/ Succeed(p) \/ Stop(p)
              \/ ReadName(p) \/ FoundDone(p) \/ FoundNotDone(p)
              \/ CreateRole(p) \/ AttachRolePolicy(p) \/ ReadARN(p) \/ Store(p)

Next == \/ \E p \in Procs : Proceed(p) \/ \E t \in Targets : Begin(p, t)
        \/ \E n \in HandNames : StoreAdminName(n)

Spec == Init /\ [][Next]_vars

-------------------------------------------------------------------------------
(* Properties *)

\* Whoever works at the same time, for whichever targets, and wherever a command is
\* cut short or the name of the admin role is changed: the stored admin ARN names a
\* role with its policy, and the GitHub ARNs, global and in the outputs, a role that
\* trusts a repository (create_admin_role.go:97-129, create_role.go:99-118,
\* write_outputs.go:33-45).
ArnsNameRoles ==
    /\ global.admin_role_arn # Absent => global.admin_role_arn \in attached
    /\ \A n \in {global.github_role_arn} \cup {out[t] : t \in Targets} :
           n # Absent => trust[n] \in Targets

\* If no two targets share a role name, a recorded create_github_actions_role means
\* that there is a role of the target's name that trusts the target's repository,
\* although its IsDone asks of the ARN only that there is one, which any target may
\* have stored (create_role.go:50).
OwnRoleExists ==
    \A t \in Targets : "create_github_actions_role" \in rec[t] =>
                           trust[CollectedRole[t]] = t

\* Whatever is cut short, repeated or done at the same time, a target gets its own
\* role among its outputs, although the ARN passes through a key that all targets
\* write, as long as no other target has a role yet (create_role.go:116,
\* write_outputs.go:33-43).
OutputIsOwn ==
    \A t \in Targets :
        \/ "write_oidc_outputs" \in rec[t] => out[t] = CollectedRole[t]
        \/ \E u \in Targets \ {t} : trust[CollectedRole[u]] = u
================================================================================
