----------------------------- MODULE Releases -----------------------------
(***************************************************************************)
(* Release proposals and decisions over the catalog (release.service.ts,   *)
(* release.repository.ts, tables releases and release_history).            *)
(*                                                                         *)
(* The service decides on a policy that it reads from the catalog before   *)
(* the transaction that writes the release, so a request is two steps, and *)
(* the start of an API process may change the row in between.  The         *)
(* transaction itself is one step: its unique key or its row lock makes    *)
(* every other writer of the release wait for its end.                     *)
(***************************************************************************)
EXTENDS Catalog

CONSTANTS
  Ids,          \* release identifiers that may be drawn
  Versions,     \* versions of releases
  Environments, \* target environments
  Proposers,    \* subjects that may propose: owners and administrators
  Approvers,    \* subjects that may decide: approvers and administrators
  Requests      \* requests that may be in progress at once

VARIABLES
  releases,     \* releases[id]: the row, or Null
  history,      \* history[id]: its history records in the order of their id
  request,      \* request[r]: what r has checked and not yet written, or Null
  tiers         \* history variable: risk tiers in force while id was undecided

releasesVars == <<vars, releases, history, request, tiers>>

Proposal == [automation : Automations, version : Versions,
             manifestVersion : {m.version : m \in Manifests},
             environment : Environments, checksum : Checksums,
             proposer : Proposers]

Status == {"PROPOSED", "APPROVED", "REJECTED"}

Release == [proposal : Proposal, status : Status, approver : Approvers \cup {Null}]

HistoryRecord == [event : Status, actor : Proposers \cup Approvers]

Decision == [id : Ids, decision : {"APPROVE", "REJECT"}, approver : Approvers]

ASSUME ReleasesAssumption ==
  /\ \A m \in Manifests :
       /\ m.tier \in {"LOW", "MEDIUM", "HIGH", "CRITICAL"}
       /\ m.targets \subseteq Environments
  /\ Null \notin Ids \cup Approvers \cup Release \cup Proposal \cup Decision

ReleasesTypeOK ==
  /\ TypeOK
  /\ releases \in [Ids -> Release \cup {Null}]
  /\ history \in [Ids -> Seq(HistoryRecord)]
  /\ request \in [Requests -> Proposal \cup Decision \cup {Null}]
  /\ tiers \in [Ids -> SUBSET {m.tier : m \in Manifests}]

ReleasesInit ==
  /\ Init
  /\ releases = [id \in Ids |-> Null]
  /\ history = [id \in Ids |-> <<>>]
  /\ request = [r \in Requests |-> Null]
  /\ tiers = [id \in Ids |-> {}]

Exists(id) == releases[id] # Null

Undecided(id) == Exists(id) /\ releases[id].status = "PROPOSED"

EndRequest(r) == request' = [request EXCEPT ![r] = Null]

InsertHistory(id, event, actor) ==
  history' = [history EXCEPT ![id] = Append(@, [event |-> event, actor |-> actor])]

-----------------------------------------------------------------------------
(* propose.                                                                *)

\* Mutant: the artifact is not compared.
MatchesVersionOnly(proposal, policy) ==
  /\ proposal.environment \in policy.targets
  /\ proposal.manifestVersion = policy.version

\* The proposal names a registered target, the registered manifest version and
\* the checksum of the artifact that was observed with it.
Matches(proposal, policy) ==
  /\ proposal.environment \in policy.targets
  /\ proposal.manifestVersion = policy.version
  /\ proposal.checksum = policy.checksum

\* The service reads the policy and accepts the proposal.  A proposal it refuses
\* leaves no trace.
CheckProposal(r) ==
  /\ request[r] = Null
  /\ \E proposal \in Proposal :
       /\ automations[proposal.automation] # Null
       /\ Matches(proposal, automations[proposal.automation])
       /\ request' = [request EXCEPT ![r] = proposal]
  /\ UNCHANGED <<vars, releases, history, tiers>>

\* unique (automation_id, version, target_environment).
NewTarget(proposal) ==
  \A id \in Ids :
    Exists(id) =>
      \/ releases[id].proposal.automation # proposal.automation
      \/ releases[id].proposal.version # proposal.version
      \/ releases[id].proposal.environment # proposal.environment

\* The transaction of create.  Its foreign key may make it wait for a start that
\* holds the row of the automation; it tests nothing there, so a release written
\* before that start's commit stands for one written before its select.
CreateRelease(r) ==
  /\ request[r] \in Proposal
  /\ NewTarget(request[r])
  /\ \E id \in Ids :
       /\ ~Exists(id)
       /\ releases' = [releases EXCEPT ![id] =
            [proposal |-> request[r], status |-> "PROPOSED", approver |-> Null]]
       /\ InsertHistory(id, "PROPOSED", request[r].proposer)
       /\ tiers' = [tiers EXCEPT ![id] = {automations[request[r].automation].tier}]
  /\ EndRequest(r)
  /\ UNCHANGED vars

-----------------------------------------------------------------------------
(* decide.                                                                 *)

\* Mutant: only critical automations need a second person.
requiresIndependentApprovalIfCritical(tier, proposer, approver) ==
  tier = "CRITICAL" /\ proposer = approver

requiresIndependentApproval(tier, proposer, approver) ==
  tier \in {"HIGH", "CRITICAL"} /\ proposer = approver

\* The service reads the release, whatever its status, and then the policy.  One
\* step, because what it takes from the release never changes.
CheckDecision(r) ==
  /\ request[r] = Null
  /\ \E d \in Decision :
       /\ Exists(d.id)
       /\ LET proposal == releases[d.id].proposal
              policy == automations[proposal.automation]
          IN  ~ /\ d.decision = "APPROVE"
                /\ policy # Null
                /\ requiresIndependentApproval(policy.tier, proposal.proposer, d.approver)
       /\ request' = [request EXCEPT ![r] = d]
  /\ UNCHANGED <<vars, releases, history, tiers>>

DecidedStatus(decision) == IF decision = "APPROVE" THEN "APPROVED" ELSE "REJECTED"

\* "where id = $1 and status = 'PROPOSED'".
Updatable(id) == Undecided(id)

\* The transaction of decide.
DecideRelease(r) ==
  /\ request[r] \in Decision
  /\ LET d == request[r] IN
       /\ Updatable(d.id)
       /\ releases' = [releases EXCEPT ![d.id].status = DecidedStatus(d.decision),
                                       ![d.id].approver = d.approver]
       /\ InsertHistory(d.id, DecidedStatus(d.decision), d.approver)
  /\ EndRequest(r)
  /\ UNCHANGED <<vars, tiers>>

\* Mutant: the history is written although no row was updated.
RefuseDecisionRecorded(r) ==
  /\ request[r] \in Decision
  /\ ~Updatable(request[r].id)
  /\ InsertHistory(request[r].id, DecidedStatus(request[r].decision), request[r].approver)
  /\ EndRequest(r)
  /\ UNCHANGED <<vars, releases, tiers>>

\* No row was updated: rollback and "already been decided".
RefuseDecision(r) ==
  /\ request[r] \in Decision
  /\ ~Updatable(request[r].id)
  /\ EndRequest(r)
  /\ UNCHANGED <<vars, releases, history, tiers>>

\* The transaction is refused by the unique key, fails, or its process ends:
\* rollback.
Abandon(r) ==
  /\ request[r] # Null
  /\ EndRequest(r)
  /\ UNCHANGED <<vars, releases, history, tiers>>

Handle(r) ==
  \/ CheckProposal(r)
  \/ CreateRelease(r)
  \/ CheckDecision(r)
  \/ DecideRelease(r)
  \/ RefuseDecision(r)
  \/ Abandon(r)

\* An API process starts and synchronises the catalog meanwhile.
StartProcess(p) ==
  /\ Start(p)
  /\ tiers' = [id \in Ids |->
       IF Undecided(id)
         THEN tiers[id] \cup {automations'[releases[id].proposal.automation].tier}
         ELSE tiers[id]]
  /\ UNCHANGED <<releases, history, request>>

ReleasesNext ==
  \/ \E r \in Requests : Handle(r)
  \/ \E p \in Processes : StartProcess(p)

ReleasesSpec == ReleasesInit /\ [][ReleasesNext]_releasesVars

-----------------------------------------------------------------------------
(* Properties.                                                             *)

\* One decision per release: of two that were both checked while it was open the
\* second is refused.  The history tells the whole story of a release and nothing
\* else, with the people who acted.
HistoryMatchesRelease ==
  \A id \in Ids :
    LET row == releases[id]
        proposed == [event |-> "PROPOSED", actor |-> row.proposal.proposer]
        decided == [event |-> row.status, actor |-> row.approver]
    IN  history[id] = IF ~Exists(id) THEN <<>>
                      ELSE IF Undecided(id) THEN <<proposed>>
                      ELSE <<proposed, decided>>

\* What is released was observed: the audit trail of the automation has the
\* artifact of every release, although the catalog may have moved on before the
\* release was written.
ReleasedArtifactWasObserved ==
  \A id \in Ids :
    Exists(id) =>
      \E n \in DOMAIN audit[releases[id].proposal.automation] :
        audit[releases[id].proposal.automation][n].current
          = releases[id].proposal.checksum

\* Whoever approves a release of their own does so under a tier that allowed it
\* at some time between the proposal and the decision.
SelfApprovalWasAllowed ==
  \A id \in Ids :
    /\ Exists(id) /\ releases[id].status = "APPROVED"
    /\ releases[id].approver = releases[id].proposal.proposer
    => tiers[id] \cap {"LOW", "MEDIUM"} # {}

\* docs/implementation-roadmap.md:99 "proposers cannot approve their own high-risk
\* release": no release becomes approved by its proposer while its automation
\* has a high risk tier.
NoOwnHighRiskApproval ==
  [][\A id \in Ids :
       Undecided(id) /\ releases'[id].status = "APPROVED" =>
         ~requiresIndependentApproval(automations[releases[id].proposal.automation].tier,
                                      releases[id].proposal.proposer,
                                      releases'[id].approver)]_releasesVars
=============================================================================
