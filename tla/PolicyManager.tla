---------------------------- MODULE PolicyManager ----------------------------
(***************************************************************************)
(* src/lib/policy/manager.ts, the life cycle of the policy versions of one *)
(* process, driven by the route src/app/api/policy/route.ts, which is the  *)
(* only caller outside the tests.  Every operation is synchronous, so a    *)
(* call is one step; a call that throws keeps what it wrote before.        *)
(*                                                                         *)
(* A version is the sequence of the names it is put together from: the     *)
(* version of a rollback is the active version, "-rollback-to-" and the    *)
(* target's, so two rollbacks collide exactly when these sequences do.     *)
(* The verdict of a shadow replay (executeStreamingShadowReplay) depends   *)
(* on both rule sets and the sample; it is left open.                      *)
(***************************************************************************)
EXTENDS Naturals, Sequences, FiniteSets

CONSTANTS
  DraftName,   \* version strings a draft is created with
  Default,     \* the version of DEFAULT_POLICY
  Person,      \* createdBy and actorId of the requests
  Override,    \* "CONTROLLER_OVERRIDE", the approver of a rollback
  MaxPolicies  \* bound: versions kept

\* approvedBy of a version nobody approved yet
NoOne == "none"

ASSUME PolicyAssumption ==
  /\ Default \notin DraftName
  /\ NoOne \notin Person \cup {Override}
  /\ MaxPolicies \in Nat \ {0}

VARIABLES
  policies,      \* version -> status, createdBy, approvedBy, parentVersion
  activeVersion,
  reports        \* version -> canPromote of the latest report

policyVars == <<policies, activeVersion, reports>>

PolicyStatus == {"DRAFT", "SHADOW", "APPROVED", "ACTIVE", "SUPERSEDED"}

Known == DOMAIN policies

\* Map.set
Put(map, key, value) ==
  [k \in DOMAIN map \cup {key} |-> IF k = key THEN value ELSE map[k]]

PolicyInit ==
  /\ policies = [v \in {<<Default>>} |->
                   [status |-> "ACTIVE", createdBy |-> "SYSTEM",
                    approvedBy |-> "CRO", parentVersion |-> << >>]]
  /\ activeVersion = <<Default>>
  /\ reports = << >>

\* create_draft with a fresh version; an existing one throws.
Drafted(v, author) ==
  Put(policies, v, [status |-> "DRAFT", createdBy |-> author, approvedBy |-> NoOne,
                    parentVersion |-> activeVersion])

CreateDraftPolicy(v, author) ==
  /\ v \notin Known /\ Cardinality(Known) < MaxPolicies
  /\ policies' = Drafted(v, author)
  /\ UNCHANGED <<activeVersion, reports>>

\* run_shadow_replay: a draft moves to SHADOW first; a policy in any other
\* status is replayed too, and the report replaces the one before.
RunShadowReplay(v, verdict) ==
  /\ v \in Known
  /\ policies' = [policies EXCEPT ![v].status = IF @ = "DRAFT" THEN "SHADOW" ELSE @]
  /\ reports' = Put(reports, v, verdict)
  /\ UNCHANGED activeVersion

\* Mutant: the author may approve.
MayApproveOwn(p, actor, canPromote) == p.status = "SHADOW" /\ canPromote

\* transitionStatus(APPROVED): status, separation of duties and a passing report.
MayApprove(p, actor, canPromote) ==
  p.status = "SHADOW" /\ actor # p.createdBy /\ canPromote

Approve(v, actor) ==
  /\ v \in DOMAIN reports /\ MayApprove(policies[v], actor, reports[v])
  /\ policies' = [policies EXCEPT ![v].status = "APPROVED", ![v].approvedBy = actor]
  /\ UNCHANGED <<activeVersion, reports>>

\* transitionStatus(ACTIVE): the active version is superseded.
Activated(ps, v) ==
  [ps EXCEPT ![activeVersion].status = "SUPERSEDED", ![v].status = "ACTIVE"]

MayActivate(p) == p.status = "APPROVED"

Activate(v) ==
  /\ v \in Known /\ MayActivate(policies[v])
  /\ policies' = Activated(policies, v)
  /\ activeVersion' = v
  /\ UNCHANGED reports

\* rollbackToVersion: a draft with the target's rules, shadowed and replayed;
\* approved by the override and activated, or, when the approval throws, left
\* in SHADOW.
RollbackToVersion(target, actor, verdict) ==
  LET v == activeVersion \o target
      drafted == Drafted(v, actor)
      shadowed == [drafted EXCEPT ![v].status = "SHADOW"]
  IN /\ target \in Known /\ v \notin Known /\ Cardinality(Known) < MaxPolicies
     /\ reports' = Put(reports, v, verdict)
     /\ IF MayApprove(shadowed[v], Override, verdict)
          THEN /\ policies' = Activated([shadowed EXCEPT ![v].approvedBy = Override], v)
               /\ activeVersion' = v
          ELSE policies' = shadowed /\ UNCHANGED activeVersion

PolicyNext ==
  \/ \E d \in DraftName, p \in Person : CreateDraftPolicy(<<d>>, p)
  \/ \E v \in Known, verdict \in BOOLEAN : RunShadowReplay(v, verdict)
  \/ \E v \in Known, p \in Person : Approve(v, p)
  \/ \E v \in Known : Activate(v)
  \/ \E v \in Known, p \in Person, verdict \in BOOLEAN : RollbackToVersion(v, p, verdict)

PolicySpec == PolicyInit /\ [][PolicyNext]_policyVars

-----------------------------------------------------------------------------

\* The fields of the manager; reports exist for known versions only, and every
\* version past SHADOW names its approver.
PolicyTypeOK ==
  /\ Cardinality(Known) <= MaxPolicies /\ activeVersion \in Known
  /\ \A v \in Known :
       /\ policies[v].status \in PolicyStatus
       /\ policies[v].createdBy \in Person \cup {"SYSTEM"}
       /\ policies[v].approvedBy \in Person \cup {Override, "CRO", NoOne}
       /\ policies[v].parentVersion \in Known \cup {<< >>}
       /\ (policies[v].approvedBy = NoOne) = (policies[v].status \in {"DRAFT", "SHADOW"})
  /\ DOMAIN reports \subseteq Known

\* Exactly one version is ACTIVE, it is the one getActivePolicy returns, and the
\* versions it descends from are no longer in force, whatever drafts, rollbacks
\* and activations are interleaved.
OneActive ==
  /\ {v \in Known : policies[v].status = "ACTIVE"} = {activeVersion}
  /\ \/ activeVersion = <<Default>>
     \/ policies[policies[activeVersion].parentVersion].status = "SUPERSEDED"

\* The separation of duties that transitionStatus enforces, on what is recorded:
\* a version that is or was in force has a replay report and an approver who is
\* not its author, and a version that was drafted, unlike one made by a rollback,
\* was approved on the request of a second person.  A rollback's approver may be
\* the literal CONTROLLER_OVERRIDE, which is nobody (RulesWereVetted).
InForceWasVetted ==
  \A v \in Known \ {<<Default>>} :
    policies[v].status \in {"APPROVED", "ACTIVE", "SUPERSEDED"} =>
      /\ v \in DOMAIN reports
      /\ policies[v].approvedBy # policies[v].createdBy
      /\ Len(v) = 1 => policies[v].approvedBy \in Person

\* What decides which rules are in force: one version, which descends from
\* versions no longer in force, and has a recorded approver other than its
\* recorded author.  Whether two people stand behind a rollback it does not say.
InForceIsSound == PolicyTypeOK /\ OneActive /\ InForceWasVetted

\* Not kept: the rules in force were approved, under the version they were drafted
\* as, by a person other than the one who wrote them ("Author cannot approve their
\* own policy").  The author of a draft can roll back to it: rollbackToVersion
\* takes any version, and approves its copy as CONTROLLER_OVERRIDE.
RulesWereVetted ==
  LET drafted == <<activeVersion[Len(activeVersion)]>>
  IN drafted # <<Default>> =>
       policies[drafted].approvedBy \in Person \ {policies[drafted].createdBy}

\* Not kept: a version in force passed its latest shadow replay.  A replay after
\* the approval replaces the report, and activation does not look at it.
InForcePasses == activeVersion \in DOMAIN reports => reports[activeVersion]

\* Not kept: a rollback activates rules that were in force before.  The target
\* may be a draft nobody approved.
RollbackToFormerActive ==
  [][\A v \in Known : activeVersion' = activeVersion \o v =>
       policies[v].status \in {"ACTIVE", "SUPERSEDED"}]_policyVars
=============================================================================
