----------------------------- MODULE TargetsProofs -----------------------------
(***************************************************************************)
(* Role ARNs lead to the right roles: proofs about Targets for any number  *)
(* of targets and processes, wherever a command is cut short.              *)
(***************************************************************************)
EXTENDS Targets, TLAPS

AdminNames == HandNames \cup {Default}

\* No target shares the name of its role, with another or with the admin role.
RolesApart == /\ \A t, u \in Targets : CollectedRole[t] = CollectedRole[u] => t = u
              /\ \A t \in Targets : CollectedRole[t] \notin AdminNames

\* n is the name of a target's role, which trusts that target.
OwnRole(n) == \E u \in Targets : n = CollectedRole[u] /\ trust[n] = u

NamesOf(c) == IF c.at = 1 THEN AdminNames ELSE {CollectedRole[c.target]}

\* What a command has in hand, and what its calls have left.
Held(c) ==
    /\ c.pc \in {"look", "create"} => c.at \in {1, 2} /\ c.name \in NamesOf(c)
    /\ c.pc = "attach" => c.at = 1 /\ c.arn = c.name /\ c.name \in AdminNames
    /\ c.pc = "store" /\ c.at = 1 => c.arn \in attached
    /\ c.pc = "store" /\ c.at = 2 =>
           c.arn = CollectedRole[c.target] /\ trust[c.arn] = c.target
    /\ c.pc = "store" /\ c.at = 3 => OwnRole(c.arn)
    /\ c.pc = "record" /\ c.at = 2 => trust[CollectedRole[c.target]] = c.target
    /\ c.pc = "record" /\ c.at = 3 => out[c.target] # Absent

\* What the store, AWS and the records say of each other.
Kept ==
    /\ global.admin_role_name \in HandNames \cup {Absent}
    /\ \A t \in Targets : trust[CollectedRole[t]] \in {t, Absent}
    /\ global.admin_role_arn # Absent => global.admin_role_arn \in attached
    /\ global.github_role_arn # Absent => OwnRole(global.github_role_arn)
    /\ \A t \in Targets : out[t] # Absent => OwnRole(out[t])
    /\ \A t \in Targets : /\ Order[2] \in rec[t] => trust[CollectedRole[t]] = t
                          /\ Order[3] \in rec[t] => out[t] # Absent

\* A role is only looked for, created or given its policy by a name.
Named == \A p \in Procs : cmd[p].pc \in {"look", "create", "attach"}
                              => cmd[p].name \in Names

TypeInv == TypeOK /\ Named

IInv == TypeInv /\ Kept /\ \A p \in Procs : Held(cmd[p])

-------------------------------------------------------------------------------
(* Types *)

LEMMA OrderIs ==
    /\ Len(Order) = 3
    /\ Order[1] = "create_admin_role"
    /\ Order[2] = "create_github_actions_role"
    /\ Order[3] = "write_oidc_outputs"
    /\ Steps = {Order[1], Order[2], Order[3]}
BY DEF Order, Steps

LEMMA IdleType == \A t \in Targets : Idle(t) \in Commands
BY OrderIs DEF Idle, Commands, MaybeName

LEMMA NextStepType == ASSUME TypeOK, NEW p \in Procs
                      PROVE  NextStep(p) \in Commands /\ Target(p) \in Targets
<1>1. cmd[p] \in Commands BY DEF TypeOK
<1>2. cmd[p].target \in Targets /\ cmd[p].at \in 1..3 BY <1>1, OrderIs DEF Commands
<1>3. CASE cmd[p].at < 3
  <2>1. cmd[p].at + 1 \in 1..3 BY <1>2, <1>3
  <2>2. [Idle(cmd[p].target) EXCEPT !.pc = "step", !.at = cmd[p].at + 1] \in Commands
      BY <1>2, <2>1, IdleType, OrderIs DEF Commands
  <2>. QED BY <1>2, <1>3, <2>2, OrderIs DEF NextStep, Target
<1>. QED BY <1>2, <1>3, OrderIs, IdleType DEF NextStep, Target

LEMMA BecomesType == ASSUME TypeOK, NEW p \in Procs, NEW next \in Commands,
                            Becomes(p, next)
                     PROVE  cmd' \in [Procs -> Commands]
BY DEF TypeOK, Becomes

LEMMA MovesType == ASSUME TypeOK, NEW p \in Procs, NEW next \in Commands,
                          Moves(p, next)
                   PROVE  TypeOK'
BY BecomesType DEF TypeOK, Moves

LEMMA RecordType == ASSUME TypeOK, NEW p \in Procs, Record(p)
                    PROVE  TypeOK'
<1>1. Step(p) \in Steps
    BY OrderIs DEF TypeOK, Commands, Step
<1>2. rec' \in [Targets -> SUBSET Steps]
    BY <1>1 DEF TypeOK, Record
<1>. QED BY <1>2, NextStepType, BecomesType DEF TypeOK, Record

\* Every action keeps the types.
LEMMA NextType == TypeInv /\ [Next]_vars => TypeOK'
<1> SUFFICES ASSUME TypeInv, [Next]_vars PROVE TypeOK'
    OBVIOUS
<1>. TypeOK BY DEF TypeInv
<1>1. ASSUME NEW p \in Procs, NEW t \in Targets, Begin(p, t) PROVE TypeOK'
  <2>1. [Idle(t) EXCEPT !.pc = "step"] \in Commands
      BY IdleType DEF Commands
  <2>. QED BY <1>1, <2>1, MovesType DEF Begin
<1>2. ASSUME NEW n \in HandNames, StoreAdminName(n) PROVE TypeOK'
    BY <1>2, TargetsAssumption DEF StoreAdminName, TypeOK, MaybeName
<1>3. ASSUME NEW p \in Procs, Proceed(p) PROVE TypeOK'
  <2>. cmd[p] \in Commands BY DEF TypeOK
  <2>1. CASE Skip(p) BY <2>1, NextStepType, MovesType DEF Skip
  <2>2. CASE Resolve(p) \/ FoundNotDone(p) \/ ReadARN(p)
    <3>1. /\ [cmd[p] EXCEPT !.pc = "isdone"] \in Commands
          /\ [cmd[p] EXCEPT !.pc = "run"] \in Commands
          /\ [cmd[p] EXCEPT !.pc = "store", !.arn = global.github_role_arn] \in Commands
        BY DEF Commands, TypeOK
    <3>. QED BY <2>2, <3>1, MovesType DEF Resolve, FoundNotDone, ReadARN
  <2>3. CASE Succeed(p) \/ FoundDone(p)
      BY <2>3, RecordType DEF Succeed, FoundDone
  <2>4. CASE Stop(p)
      BY <2>4, NextStepType, IdleType, MovesType DEF Stop
  <2>5. CASE ReadName(p)
    <3>1. RoleName(p) \in MaybeName
        BY NextStepType, TargetsAssumption DEF RoleName, AdminRoleName, TypeOK, MaybeName
    <3>2. [cmd[p] EXCEPT !.name = RoleName(p),
                         !.pc = IF @ = "isdone" THEN "look" ELSE "create"] \in Commands
        BY <3>1 DEF Commands
    <3>. QED BY <2>5, <3>2, MovesType DEF ReadName
  <2>6. CASE CreateRole(p)
    <3>1. [cmd[p] EXCEPT !.pc = Created(p), !.arn = cmd[p].name] \in Commands
        BY DEF Commands, Created
    <3>2. Trusted(p) \in Targets \cup {"account"}
        BY NextStepType DEF Trusted
    <3>3. trust' \in [Names -> Targets \cup {"account", Absent}]
        BY <2>6, <3>2 DEF CreateRole, TypeOK
    <3>. QED BY <2>6, <3>1, <3>3, BecomesType DEF CreateRole, TypeOK
  <2>7. CASE AttachRolePolicy(p)
    <3>1. [cmd[p] EXCEPT !.pc = "store"] \in Commands BY DEF Commands
    <3>2. cmd[p].name \in Names BY <2>7 DEF AttachRolePolicy, TypeInv, Named
    <3>. QED BY <2>7, <3>1, <3>2, BecomesType DEF AttachRolePolicy, TypeOK
  <2>8. CASE Store(p)
    <3>1. [cmd[p] EXCEPT !.pc = "record"] \in Commands /\ cmd[p].arn \in MaybeName
        BY DEF Commands
    <3>2. /\ global' \in [admin_role_name : MaybeName, admin_role_arn : MaybeName,
                          github_role_arn : MaybeName]
          /\ out' \in [Targets -> MaybeName]
        BY <2>8, <3>1, NextStepType
        DEF Store, StoreAdminARN, StoreGitHubARN, WriteOutput, TypeOK
    <3>. QED BY <2>8, <3>1, <3>2, BecomesType DEF Store, TypeOK
  <2>. QED BY <1>3, <2>1, <2>2, <2>3, <2>4, <2>5, <2>6, <2>7, <2>8 DEF Proceed
<1>4. CASE UNCHANGED vars
    BY <1>4 DEF vars, TypeOK
<1>. QED BY <1>1, <1>2, <1>3, <1>4 DEF Next

\* A step of a process leaves the others where they are.
LEMMA OthersStay ==
    ASSUME TypeOK, NEW p \in Procs, Proceed(p) \/ \E t \in Targets : Begin(p, t)
    PROVE  \A q \in Procs \ {p} : cmd'[q] = cmd[q]
<1>1. ASSUME NEW next, Becomes(p, next) PROVE \A q \in Procs \ {p} : cmd'[q] = cmd[q]
    BY <1>1 DEF Becomes, TypeOK
<1>2. CASE Skip(p) \/ Resolve(p) \/ Succeed(p) \/ Stop(p) \/ \E t \in Targets : Begin(p, t)
    BY <1>1, <1>2 DEF Skip, Resolve, Succeed, Record, Stop, Begin, Moves
<1>3. CASE ReadName(p) \/ FoundDone(p) \/ FoundNotDone(p)
    BY <1>1, <1>3 DEF ReadName, FoundDone, Record, FoundNotDone, Moves
<1>4. CASE CreateRole(p) \/ AttachRolePolicy(p) \/ ReadARN(p) \/ Store(p)
    BY <1>1, <1>4 DEF CreateRole, AttachRolePolicy, ReadARN, Store, Moves
<1>. QED BY <1>2, <1>3, <1>4 DEF Proceed

\* Where a step leaves its own process.
LEMMA Lands ==
    ASSUME TypeOK, NEW p \in Procs
    PROVE  /\ \A t \in Targets : Begin(p, t) => cmd'[p].pc = "step"
           /\ Skip(p) \/ Stop(p) \/ Record(p) => cmd'[p].pc \in {"idle", "step"}
           /\ Resolve(p) => cmd'[p].pc = "isdone"
           /\ FoundNotDone(p) => cmd'[p].pc = "run"
           /\ ReadName(p) => cmd'[p] = [cmd[p] EXCEPT !.name = RoleName(p),
                                  !.pc = IF @ = "isdone" THEN "look" ELSE "create"]
           /\ CreateRole(p) =>
                  cmd'[p] = [cmd[p] EXCEPT !.pc = Created(p), !.arn = cmd[p].name]
           /\ AttachRolePolicy(p) => cmd'[p] = [cmd[p] EXCEPT !.pc = "store"]
           /\ ReadARN(p) =>
                  cmd'[p] = [cmd[p] EXCEPT !.pc = "store", !.arn = global.github_role_arn]
           /\ Store(p) => cmd'[p] = [cmd[p] EXCEPT !.pc = "record"]
<1>. cmd[p] \in Commands /\ p \in DOMAIN cmd BY DEF TypeOK
<1>1. NextStep(p).pc \in {"idle", "step"}
    BY OrderIs DEF NextStep, Idle
<1>2. \A next : Becomes(p, next) => cmd'[p] = next
    BY DEF Becomes
<1>3. \A t \in Targets : Begin(p, t) => cmd'[p].pc = "step"
    BY <1>2 DEF Begin, Moves, Idle
<1>4. Skip(p) \/ Stop(p) \/ Record(p) => cmd'[p].pc \in {"idle", "step"}
    BY <1>1, <1>2 DEF Skip, Stop, Record, Moves, Idle
<1>5. /\ Resolve(p) => cmd'[p].pc = "isdone"
      /\ FoundNotDone(p) => cmd'[p].pc = "run"
    BY <1>2 DEF Resolve, FoundNotDone, Moves, Commands
<1>6. /\ ReadName(p) => cmd'[p] = [cmd[p] EXCEPT !.name = RoleName(p),
                             !.pc = IF @ = "isdone" THEN "look" ELSE "create"]
      /\ ReadARN(p) =>
             cmd'[p] = [cmd[p] EXCEPT !.pc = "store", !.arn = global.github_role_arn]
    BY <1>2 DEF ReadName, ReadARN, Moves
<1>7. /\ CreateRole(p) =>
             cmd'[p] = [cmd[p] EXCEPT !.pc = Created(p), !.arn = cmd[p].name]
      /\ AttachRolePolicy(p) => cmd'[p] = [cmd[p] EXCEPT !.pc = "store"]
      /\ Store(p) => cmd'[p] = [cmd[p] EXCEPT !.pc = "record"]
    BY <1>2 DEF CreateRole, AttachRolePolicy, Store
<1>. QED BY <1>3, <1>4, <1>5, <1>6, <1>7

\* What has been read as a name is one.
LEMMA NextNamed == TypeInv /\ [Next]_vars => Named'
<1> SUFFICES ASSUME TypeInv, [Next]_vars PROVE Named'
    OBVIOUS
<1>. TypeOK /\ Named BY DEF TypeInv
<1>1. ASSUME NEW p \in Procs, Proceed(p) \/ \E t \in Targets : Begin(p, t)
      PROVE  Named'
  <2>. cmd[p] \in Commands BY DEF TypeOK
  <2>1. RoleName(p) \in Names
      BY NextStepType, TargetsAssumption DEF RoleName, AdminRoleName, TypeOK, MaybeName
  <2>2. cmd'[p].pc \in {"look", "create", "attach"} => cmd'[p].name \in Names
    <3>1. CASE ReadName(p)
        BY <2>1, <3>1, Lands DEF Commands
    <3>2. CASE CreateRole(p)
        BY <3>2, Lands DEF Commands, Named, CreateRole
    <3>3. CASE AttachRolePolicy(p) \/ ReadARN(p) \/ Store(p)
        BY <3>3, Lands DEF Commands
    <3>4. CASE \/ \E t \in Targets : Begin(p, t)
               \/ Skip(p) \/ Stop(p) \/ Succeed(p) \/ FoundDone(p)
               \/ Resolve(p) \/ FoundNotDone(p)
        BY <3>4, Lands DEF Succeed, FoundDone
    <3>. QED BY <1>1, <3>1, <3>2, <3>3, <3>4 DEF Proceed
  <2>. QED BY <1>1, <2>2, OthersStay DEF Named
<1>2. CASE UNCHANGED cmd
    BY <1>2 DEF Named
<1>. QED BY <1>1, <1>2 DEF Next, vars, StoreAdminName

\* Every variable keeps its type.
THEOREM TypeCorrect == Spec => []TypeOK
<1>1. Init => TypeInv
    BY OrderIs, IdleType DEF Init, TypeInv, TypeOK, Named, Idle, MaybeName
<1>2. TypeInv /\ [Next]_vars => TypeInv'
    BY NextType, NextNamed DEF TypeInv
<1>3. TypeInv => TypeOK
    BY DEF TypeInv
<1>. QED BY <1>1, <1>2, <1>3, PTL DEF Spec

-------------------------------------------------------------------------------
(* ARNs, roles and records *)

\* Roles, policies and outputs do not go away.
LEMMA Grows ==
    ASSUME IInv, [Next]_vars
    PROVE  /\ \A n \in Names : trust[n] # Absent => trust'[n] = trust[n]
           /\ attached \subseteq attached'
           /\ \A t \in Targets : out[t] # Absent => out'[t] # Absent
<1>. TypeOK BY DEF IInv, TypeInv
<1>1. \A p \in Procs : CreateRole(p) =>
          \A n \in Names : trust[n] # Absent => trust'[n] = trust[n]
    BY DEF CreateRole, TypeOK
<1>2. \A p \in Procs : AttachRolePolicy(p) => attached \subseteq attached'
    BY DEF AttachRolePolicy
<1>3. ASSUME NEW p \in Procs, Store(p)
      PROVE  \A t \in Targets : out[t] # Absent => out'[t] # Absent
  <2>1. CASE StoreAdminARN(p) \/ StoreGitHubARN(p)
      BY <2>1 DEF StoreAdminARN, StoreGitHubARN
  <2>2. CASE WriteOutput(p)
    <3>1. OwnRole(cmd[p].arn)
        BY <2>2, OrderIs DEF WriteOutput, At, Step, IInv, Held, TypeOK, Commands
    <3>2. cmd[p].arn # Absent
        BY <3>1, TargetsAssumption DEF OwnRole
    <3>. QED BY <2>2, <3>2 DEF WriteOutput, TypeOK
  <2>. QED BY <1>3, <2>1, <2>2 DEF Store
<1>4. /\ UNCHANGED trust \/ \E p \in Procs : CreateRole(p)
      /\ UNCHANGED attached \/ \E p \in Procs : AttachRolePolicy(p)
      /\ UNCHANGED out \/ \E p \in Procs : Store(p)
    BY DEF Next, vars, Proceed, StoreAdminName, Begin, Moves, Skip, Resolve, Succeed, Record,
           Stop, ReadName, FoundDone, FoundNotDone, CreateRole, AttachRolePolicy, ReadARN,
           Store
<1>. QED BY <1>1, <1>2, <1>3, <1>4

\* So what a command that does not move has in hand stays true.
LEMMA HeldGrows ==
    ASSUME IInv, [Next]_vars, NEW q \in Procs, cmd'[q] = cmd[q]
    PROVE  Held(cmd[q])'
<1>. TypeOK /\ Held(cmd[q]) /\ cmd[q].target \in Targets
    BY DEF IInv, TypeInv, TypeOK, Commands
<1>1. \A n : OwnRole(n) => OwnRole(n)'
    BY Grows, TargetsAssumption DEF OwnRole
<1>2. \A t \in Targets : trust[CollectedRole[t]] = t => trust'[CollectedRole[t]] = t
    BY Grows, TargetsAssumption
<1>3. NamesOf(cmd[q])' = NamesOf(cmd[q])
    BY DEF NamesOf
<1>. QED BY <1>1, <1>2, <1>3, Grows DEF Held

\* The name IsDone or Run reads.
LEMMA NameRead ==
    ASSUME IInv, NEW p \in Procs, ReadName(p)
    PROVE  cmd[p].at \in {1, 2} /\ RoleName(p) \in NamesOf(cmd[p])
<1>1. cmd[p].at \in {1, 2}
    BY OrderIs DEF ReadName, Step, IInv, TypeInv, TypeOK, Commands
<1>. QED BY <1>1, OrderIs DEF RoleName, AdminRoleName, NamesOf, AdminNames, Step, Target,
                           IInv, Kept

\* The role that CreateRole makes or finds.
LEMMA RoleMade ==
    ASSUME IInv, RolesApart, NEW p \in Procs, CreateRole(p)
    PROVE  /\ cmd[p].at = 1 => /\ cmd[p].name \in AdminNames
                               /\ \A t \in Targets : trust'[CollectedRole[t]] =
                                                      trust[CollectedRole[t]]
           /\ cmd[p].at = 2 => /\ cmd[p].name = CollectedRole[Target(p)]
                               /\ trust'[cmd[p].name] = Target(p)
                               /\ \A t \in Targets : trust'[CollectedRole[t]] \in {t, Absent}
           /\ cmd[p].at \in {1, 2}
<1>. TypeOK /\ Held(cmd[p]) /\ cmd[p] \in Commands
    BY DEF IInv, TypeInv, TypeOK
<1>. Target(p) \in Targets BY NextStepType
<1>1. cmd[p].at \in {1, 2} /\ cmd[p].name \in NamesOf(cmd[p])
    BY DEF CreateRole, Held
<1>2. \A n \in Names : trust'[n] = IF n = cmd[p].name /\ trust[n] = Absent
                                   THEN Trusted(p) ELSE trust[n]
    BY DEF CreateRole, TypeOK
<1>3. CASE cmd[p].at = 1
    BY <1>1, <1>2, <1>3, TargetsAssumption DEF NamesOf, RolesApart
<1>4. CASE cmd[p].at = 2
  <2>1. cmd[p].name = CollectedRole[Target(p)] /\ Trusted(p) = Target(p)
      BY <1>1, <1>4, OrderIs DEF NamesOf, Target, Trusted, Step
  <2>2. \A t \in Targets : trust[CollectedRole[t]] \in {t, Absent}
      BY DEF IInv, Kept
  <2>. QED BY <1>2, <1>4, <2>1, <2>2, TargetsAssumption DEF RolesApart
<1>. QED BY <1>1, <1>3, <1>4

\* What a command has in hand after its own step.
LEMMA HeldStep ==
    ASSUME IInv, RolesApart, NEW p \in Procs,
           Proceed(p) \/ \E t \in Targets : Begin(p, t)
    PROVE  Held(cmd[p])'
<1>. TypeOK /\ Held(cmd[p]) /\ Kept /\ cmd[p] \in Commands /\ cmd[p].at \in 1..3
    BY OrderIs DEF IInv, TypeInv, TypeOK, Commands
<1>. Target(p) \in Targets BY NextStepType
<1>1. CASE cmd'[p].pc \in {"idle", "step", "isdone", "run"}
    BY <1>1 DEF Held
<1>2. CASE ReadName(p)
  <2>1. cmd'[p] = [cmd[p] EXCEPT !.name = RoleName(p),
                                 !.pc = IF @ = "isdone" THEN "look" ELSE "create"]
      BY <1>2, Lands
  <2>2. /\ cmd'[p].at = cmd[p].at /\ cmd'[p].target = cmd[p].target
        /\ cmd'[p].name = RoleName(p) /\ cmd'[p].pc \in {"look", "create"}
      BY <2>1 DEF Commands
  <2>. QED BY <1>2, <2>2, NameRead DEF Held, NamesOf
<1>3. CASE CreateRole(p)
  <2>1. cmd'[p] = [cmd[p] EXCEPT !.pc = Created(p), !.arn = cmd[p].name]
      BY <1>3, Lands
  <2>2. /\ cmd'[p].at = cmd[p].at /\ cmd'[p].target = cmd[p].target
        /\ cmd'[p].name = cmd[p].name /\ cmd'[p].arn = cmd[p].name
        /\ cmd'[p].pc = IF cmd[p].at = 1 THEN "attach" ELSE "store"
      BY <2>1, OrderIs DEF Commands, Created, Step
  <2>. QED BY <1>3, <2>2, RoleMade DEF Held, Target
<1>4. CASE AttachRolePolicy(p)
  <2>1. cmd'[p] = [cmd[p] EXCEPT !.pc = "store"]
      BY <1>4, Lands
  <2>2. cmd'[p].at = 1 /\ cmd'[p].pc = "store" /\ cmd'[p].arn \in attached'
      BY <1>4, <2>1 DEF Commands, AttachRolePolicy, Held
  <2>. QED BY <2>2 DEF Held
<1>5. CASE ReadARN(p)
  <2>1. cmd'[p] = [cmd[p] EXCEPT !.pc = "store", !.arn = global.github_role_arn]
      BY <1>5, Lands
  <2>2. /\ cmd'[p].at = 3 /\ cmd'[p].pc = "store"
        /\ cmd'[p].arn = global.github_role_arn /\ OwnRole(global.github_role_arn)
      BY <1>5, <2>1, OrderIs DEF Commands, ReadARN, At, Step, Kept
  <2>3. UNCHANGED trust
      BY <1>5 DEF ReadARN, Moves
  <2>. QED BY <2>2, <2>3 DEF Held, OwnRole
<1>6. CASE Store(p)
  <2>1. cmd'[p] = [cmd[p] EXCEPT !.pc = "record"]
      BY <1>6, Lands
  <2>2. /\ cmd'[p].pc = "record" /\ cmd'[p].at = cmd[p].at
        /\ cmd'[p].target = cmd[p].target /\ UNCHANGED trust /\ cmd[p].pc = "store"
      BY <1>6, <2>1 DEF Commands, Store, StoreAdminARN, StoreGitHubARN, WriteOutput, At
  <2>3. ASSUME cmd[p].at = 2 PROVE trust[CollectedRole[cmd[p].target]] = cmd[p].target
      BY <2>2, <2>3 DEF Held
  <2>4. ASSUME cmd[p].at = 3 PROVE out'[cmd[p].target] # Absent
    <3>1. cmd[p].arn # Absent
        BY <2>2, <2>4, TargetsAssumption DEF Held, OwnRole
    <3>2. WriteOutput(p)
        BY <1>6, <2>4, OrderIs DEF Store, StoreAdminARN, StoreGitHubARN, At, Step
    <3>. QED BY <3>1, <3>2 DEF WriteOutput, TypeOK, Target
  <2>. QED BY <2>2, <2>3, <2>4 DEF Held
<1>7. CASE \/ \E t \in Targets : Begin(p, t)
           \/ Skip(p) \/ Stop(p) \/ Succeed(p) \/ FoundDone(p)
           \/ Resolve(p) \/ FoundNotDone(p)
    BY <1>1, <1>7, Lands DEF Succeed, FoundDone
<1>. QED BY <1>2, <1>3, <1>4, <1>5, <1>6, <1>7 DEF Proceed

\* Recording a step, which was found done or has just been carried out.
LEMMA RecordKept ==
    ASSUME IInv, NEW p \in Procs, Succeed(p) \/ FoundDone(p)
    PROVE  Kept'
<1>. TypeOK /\ Held(cmd[p]) /\ Kept /\ cmd[p] \in Commands /\ cmd[p].at \in 1..3
    BY OrderIs DEF IInv, TypeInv, TypeOK, Commands
<1>. Target(p) \in Targets BY NextStepType
<1>1. /\ UNCHANGED <<trust, attached, global, out>>
      /\ rec' = [rec EXCEPT ![Target(p)] = @ \cup {Step(p)}]
    BY DEF Succeed, FoundDone, Record
<1>2. ASSUME Step(p) = Order[2]
      PROVE  trust[CollectedRole[Target(p)]] = Target(p)
  <2>1. cmd[p].at = 2 BY <1>2, OrderIs DEF Step
  <2>2. CASE Succeed(p) BY <2>1, <2>2 DEF Succeed, Held, Target
  <2>3. CASE FoundDone(p)
    <3>1. cmd[p].pc = "look" /\ GitHubRoleDone(p)
        BY <2>1, <2>3, OrderIs DEF FoundDone, Looks, At, Step, IsDone
    <3>2. cmd[p].name = CollectedRole[Target(p)]
        BY <2>1, <3>1 DEF Held, NamesOf, Target
    <3>. QED BY <3>1, <3>2 DEF GitHubRoleDone, Exists, Kept
  <2>. QED BY <2>2, <2>3
<1>3. ASSUME Step(p) = Order[3]
      PROVE  out[Target(p)] # Absent
  <2>1. cmd[p].at = 3 BY <1>3, OrderIs DEF Step
  <2>2. CASE Succeed(p) BY <2>1, <2>2 DEF Succeed, Held, Target
  <2>3. CASE FoundDone(p)
      BY <1>3, <2>3, OrderIs DEF FoundDone, IsDone, OutputsDone
  <2>. QED BY <2>2, <2>3
<1>4. \A t \in Targets : rec'[t] \subseteq rec[t] \cup (IF t = Target(p) THEN {Step(p)} ELSE {})
    BY <1>1 DEF TypeOK
<1>. QED BY <1>1, <1>2, <1>3, <1>4 DEF Kept, OwnRole

\* Storing an ARN.
LEMMA StoreKept ==
    ASSUME IInv, NEW p \in Procs, Store(p)
    PROVE  Kept'
<1>. TypeOK /\ Held(cmd[p]) /\ Kept /\ cmd[p] \in Commands
    BY DEF IInv, TypeInv, TypeOK
<1>. Target(p) \in Targets BY NextStepType
<1>1. UNCHANGED <<trust, attached, rec>>
    BY DEF Store
<1>2. CASE StoreAdminARN(p)
  <2>1. cmd[p].arn \in attached
      BY <1>2, OrderIs DEF StoreAdminARN, At, Step, Held, Commands
  <2>2. /\ global'.admin_role_arn = cmd[p].arn
        /\ global'.admin_role_name = global.admin_role_name
        /\ global'.github_role_arn = global.github_role_arn
        /\ UNCHANGED out
      BY <1>2 DEF StoreAdminARN, TypeOK
  <2>. QED BY <1>1, <2>1, <2>2 DEF Kept, OwnRole
<1>3. CASE StoreGitHubARN(p)
  <2>1. OwnRole(cmd[p].arn)
      BY <1>3, OrderIs DEF StoreGitHubARN, At, Step, Held, Commands, OwnRole
  <2>2. /\ global'.github_role_arn = cmd[p].arn
        /\ global'.admin_role_name = global.admin_role_name
        /\ global'.admin_role_arn = global.admin_role_arn
        /\ UNCHANGED out
      BY <1>3 DEF StoreGitHubARN, TypeOK
  <2>. QED BY <1>1, <2>1, <2>2 DEF Kept, OwnRole
<1>4. CASE WriteOutput(p)
  <2>1. OwnRole(cmd[p].arn)
      BY <1>4, OrderIs DEF WriteOutput, At, Step, Held, Commands
  <2>2. /\ \A t \in Targets : out'[t] = IF t = Target(p) THEN cmd[p].arn ELSE out[t]
        /\ UNCHANGED global
      BY <1>4 DEF WriteOutput, TypeOK
  <2>3. cmd[p].arn # Absent
      BY <2>1, TargetsAssumption DEF OwnRole
  <2>. QED BY <1>1, <2>1, <2>2, <2>3 DEF Kept, OwnRole
<1>. QED BY <1>2, <1>3, <1>4 DEF Store

LEMMA NextKept == IInv /\ RolesApart /\ [Next]_vars => Kept'
<1> SUFFICES ASSUME IInv, RolesApart, [Next]_vars PROVE Kept'
    OBVIOUS
<1>. TypeOK /\ Kept BY DEF IInv, TypeInv
<1>1. CASE UNCHANGED <<trust, attached, global, out, rec>>
    BY <1>1 DEF Kept, OwnRole
<1>2. ASSUME NEW p \in Procs, CreateRole(p) PROVE Kept'
  <2>1. UNCHANGED <<attached, global, out, rec>>
      BY <1>2 DEF CreateRole
  <2>2. \A t \in Targets : trust[CollectedRole[t]] = t => trust'[CollectedRole[t]] = t
      BY Grows, TargetsAssumption
  <2>3. \A t \in Targets : trust'[CollectedRole[t]] \in {t, Absent}
      BY <1>2, RoleMade DEF Kept
  <2>4. \A n : OwnRole(n) => OwnRole(n)'
      BY <2>2 DEF OwnRole
  <2>. QED BY <2>1, <2>2, <2>3, <2>4 DEF Kept
<1>3. ASSUME NEW p \in Procs, AttachRolePolicy(p) PROVE Kept'
    BY <1>3 DEF AttachRolePolicy, Kept, OwnRole
<1>4. ASSUME NEW n \in HandNames, StoreAdminName(n) PROVE Kept'
  <2>1. /\ global'.admin_role_name = n
        /\ global'.admin_role_arn = global.admin_role_arn
        /\ global'.github_role_arn = global.github_role_arn
        /\ UNCHANGED <<trust, attached, out, rec>>
      BY <1>4 DEF StoreAdminName, TypeOK
  <2>. QED BY <2>1 DEF Kept, OwnRole
<1>5. ASSUME NEW p \in Procs, Proceed(p) PROVE Kept'
  <2>1. CASE Skip(p) \/ Resolve(p) \/ Stop(p) \/ ReadName(p) \/ FoundNotDone(p) \/ ReadARN(p)
      BY <1>1, <2>1 DEF Skip, Resolve, Stop, ReadName, FoundNotDone, ReadARN, Moves
  <2>. QED BY <1>2, <1>3, <1>5, <2>1, RecordKept, StoreKept DEF Proceed
<1>6. ASSUME NEW p \in Procs, NEW t \in Targets, Begin(p, t) PROVE Kept'
    BY <1>1, <1>6 DEF Begin, Moves
<1>. QED BY <1>1, <1>4, <1>5, <1>6 DEF Next, vars

LEMMA NextHeld == IInv /\ RolesApart /\ [Next]_vars => \A q \in Procs : Held(cmd[q])'
<1> SUFFICES ASSUME IInv, RolesApart, [Next]_vars, NEW q \in Procs
             PROVE  Held(cmd[q])'
    OBVIOUS
<1>. TypeOK BY DEF IInv, TypeInv
<1>1. CASE cmd'[q] = cmd[q]
    BY <1>1, HeldGrows
<1>2. ASSUME NEW p \in Procs, Proceed(p) \/ \E t \in Targets : Begin(p, t)
      PROVE  Held(cmd[q])'
    BY <1>1, <1>2, OthersStay, HeldStep
<1>. QED BY <1>1, <1>2 DEF Next, vars, StoreAdminName

\* If the roles have names of their own, what the store and the records say of them
\* is true, and what every command has in hand.
THEOREM Sound == ASSUME RolesApart PROVE Spec => []IInv
<1>1. Init => IInv
  <2> SUFFICES ASSUME Init PROVE IInv
      OBVIOUS
  <2>1. TypeInv
      BY OrderIs, IdleType DEF Init, TypeInv, TypeOK, Named, Idle, MaybeName
  <2>2. Kept
      BY TargetsAssumption DEF Init, Kept
  <2>3. \A p \in Procs : Held(cmd[p])
      BY DEF Init, Idle, Held
  <2>. QED BY <2>1, <2>2, <2>3 DEF IInv
<1>2. IInv /\ [Next]_vars => IInv'
  <2> SUFFICES ASSUME IInv, [Next]_vars PROVE IInv'
      OBVIOUS
  <2>1. TypeInv' BY NextType, NextNamed DEF IInv, TypeInv
  <2>. QED BY <2>1, NextKept, NextHeld DEF IInv
<1>. QED BY <1>1, <1>2, PTL DEF Spec

\* The stored ARNs name finished roles, the GitHub ones roles of targets.
THEOREM ArnsAreRight == ASSUME RolesApart PROVE Spec => []ArnsNameRoles
<1>1. IInv => ArnsNameRoles
    BY DEF IInv, Kept, OwnRole, ArnsNameRoles
<1>. QED BY <1>1, Sound, PTL

\* A recorded create_github_actions_role means that the target has its own role.
THEOREM RolesAreOwn == ASSUME RolesApart PROVE Spec => []OwnRoleExists
<1>1. IInv => OwnRoleExists
    BY OrderIs DEF IInv, Kept, OwnRoleExists
<1>. QED BY <1>1, Sound, PTL

\* A target's outputs name its own role as long as no other target has one.
THEOREM OutputsAreOwn == ASSUME RolesApart PROVE Spec => []OutputIsOwn
<1>1. IInv => OutputIsOwn
    BY OrderIs DEF IInv, Kept, OwnRole, OutputIsOwn
<1>. QED BY <1>1, Sound, PTL
================================================================================
