--------------------------- MODULE ReleasesProofs ---------------------------
(***************************************************************************)
(* Theorems about Releases, for every set of requests, people, releases    *)
(* and starting API processes.  A request checks first and writes later,   *)
(* and the catalog may change in between: what the check has seen is either*)
(* kept (the audit trail never shrinks) or remembered (the tiers).         *)
(* CatalogProofs also declares what Startup adds to Catalog; nothing below *)
(* speaks of it.                                                           *)
(***************************************************************************)
EXTENDS Releases, CatalogProofs, SequenceTheorems

\* The rows and the requests.
RowTypes ==
  /\ releases \in [Ids -> Release \cup {Null}]
  /\ history = [id \in Ids |-> history[id]]
  /\ request \in [Requests -> Proposal \cup Decision \cup {Null}]
  /\ tiers = [id \in Ids |-> tiers[id]]

LowTiers == {"LOW", "MEDIUM"}

Observed(proposal) ==
  \E n \in DOMAIN audit[proposal.automation] :
    audit[proposal.automation][n].current = proposal.checksum

\* A proposal that was checked, or written, names an automation of the catalog and
\* an artifact of its audit trail.
ProposalStands(proposal) ==
  Registered(proposal.automation) /\ Observed(proposal)

ProposalsStand ==
  /\ \A r \in Requests : request[r] \in Proposal => ProposalStands(request[r])
  /\ \A id \in Ids : Exists(id) => ProposalStands(releases[id].proposal)

\* The tiers of a release that may still be decided go with the catalog.
TiersFollow ==
  \A id \in Ids :
    Undecided(id) => automations[releases[id].proposal.automation].tier \in tiers[id]

\* A decision that was checked is about a release there is; if it approves the
\* decider's own, a tier of its time allowed that, or it will be refused.
OwnApproval(d) ==
  d.decision = "APPROVE" /\ d.approver = releases[d.id].proposal.proposer

DecisionsChecked ==
  \A r \in Requests :
    request[r] \in Decision =>
      /\ Exists(request[r].id)
      /\ Undecided(request[r].id) /\ OwnApproval(request[r]) =>
           tiers[request[r].id] \cap LowTiers # {}

ReleasesInv ==
  RowTypes /\ ProposalsStand /\ TiersFollow /\ DecisionsChecked
    /\ HistoryMatchesRelease /\ SelfApprovalWasAllowed

\* A second record appended to a first one makes the pair of the two.
LEMMA TwoRecords ==
  ASSUME NEW S, NEW x \in S, NEW y \in S
  PROVE  Append(<<x>>, y) = <<x, y>>
<1> DEFINE s == Append(<<x>>, y)
           t == <<x, y>>
<1>1. t \in Seq(S) /\ Len(t) = 2 /\ t[1] = x /\ t[2] = y
  OBVIOUS
<1>2. <<x>> \in Seq(S) /\ Len(<<x>>) = 1 /\ <<x>>[1] = x
  OBVIOUS
<1>3. s \in Seq(S) /\ Len(s) = 2 /\ s[1] = x /\ s[2] = y
  BY <1>2
<1> HIDE DEF s, t
<1>4. \A i \in 1..2 : s[i] = t[i]
  BY <1>1, <1>3
<1>5. s = t
  BY <1>1, <1>3, <1>4, SeqEqual
<1> QED
  BY <1>5 DEF s, t

-----------------------------------------------------------------------------
\* What the rows are made of.
LEMMA Parts ==
  /\ \A p \in Proposal : p.automation \in Automations /\ p \notin Decision /\ p # Null
  /\ \A d \in Decision : d.id \in Ids /\ d.approver \in Approvers /\ d # Null
                      /\ d.decision \in {"APPROVE", "REJECT"}
  /\ \A row \in Release : row.proposal \in Proposal /\ row.status \in Status /\ row # Null
<1>1. \A p \in Proposal : p.automation \in Automations /\ "automation" \in DOMAIN p
  BY DEF Proposal
<1>2. \A d \in Decision : "automation" \notin DOMAIN d
  BY DEF Decision
<1>3. \A d \in Decision : d.id \in Ids /\ d.approver \in Approvers
                       /\ d.decision \in {"APPROVE", "REJECT"}
  BY DEF Decision
<1>4. \A row \in Release : row.proposal \in Proposal /\ row.status \in Status
  BY DEF Release
<1> QED
  BY <1>1, <1>2, <1>3, <1>4, ReleasesAssumption

\* In the initial states there is no release and no request under way.
LEMMA ReleasesInitHolds == ReleasesInit => CatalogInv /\ ReleasesInv
<1> SUFFICES ASSUME ReleasesInit PROVE ReleasesInv
  BY InitHolds DEF ReleasesInit
<1>1. Null \notin Proposal \cup Decision
  BY Parts
<1> QED
  BY <1>1 DEF ReleasesInit, ReleasesInv, RowTypes, ProposalsStand, TiersFollow,
              DecisionsChecked, HistoryMatchesRelease, SelfApprovalWasAllowed,
              Exists, Undecided

\* The steps of a request that write nothing: the checks, which begin it, and the
\* refusals, which end it.
LEMMA CheckKeeps ==
  ASSUME CatalogInv, ReleasesInv, NEW r \in Requests, NEW d,
         request' = [request EXCEPT ![r] = d],
         UNCHANGED <<vars, releases, history, tiers>>,
         d \in Proposal \cup Decision \cup {Null},
         d \in Proposal => ProposalStands(d),
         d \in Decision =>
           /\ Exists(d.id)
           /\ Undecided(d.id) /\ OwnApproval(d) => tiers[d.id] \cap LowTiers # {}
  PROVE  ReleasesInv'
<1>1. \A q \in Requests : request'[q] = IF q = r THEN d ELSE request[q]
  BY DEF ReleasesInv, RowTypes
<1>2. UNCHANGED <<automations, audit>>
  BY DEF vars
<1>3. RowTypes'
  BY DEF ReleasesInv, RowTypes
<1>4. ProposalsStand'
  BY <1>1, <1>2 DEF ReleasesInv, ProposalsStand, ProposalStands, Observed, Registered, Exists
<1>5. DecisionsChecked'
  BY <1>1 DEF ReleasesInv, DecisionsChecked, OwnApproval, Exists, Undecided
<1>6. TiersFollow' /\ HistoryMatchesRelease' /\ SelfApprovalWasAllowed'
  BY <1>2 DEF ReleasesInv, TiersFollow, HistoryMatchesRelease, SelfApprovalWasAllowed,
              Exists, Undecided
<1> QED
  BY <1>3, <1>4, <1>5, <1>6 DEF ReleasesInv

\* propose, the check.
LEMMA CheckProposalKeeps ==
  ASSUME CatalogInv, ReleasesInv, NEW r \in Requests, CheckProposal(r)
  PROVE  ReleasesInv'
<1>1. PICK p \in Proposal :
        /\ automations[p.automation] # Null
        /\ Matches(p, automations[p.automation])
        /\ request' = [request EXCEPT ![r] = p]
  BY DEF CheckProposal
<1>2. p.automation \in Automations /\ p \notin Decision
  BY Parts
<1>3. ProposalStands(p)
  <2> DEFINE s == audit[p.automation]
  <2>1. /\ s # <<>> /\ s \in Seq(AuditRecord)
        /\ s[Len(s)].current = automations[p.automation].checksum
    BY <1>1, <1>2 DEF CatalogInv, TypeOK, AuditTracksCatalog, Registered
  <2>2. Len(s) \in DOMAIN s
    BY <2>1
  <2> QED
    BY <1>1, <2>1, <2>2 DEF ProposalStands, Observed, Registered, Matches
<1>4. UNCHANGED <<vars, releases, history, tiers>>
  BY DEF CheckProposal
<1> QED
  BY <1>1, <1>2, <1>3, <1>4, CheckKeeps

\* decide, the check.
LEMMA CheckDecisionKeeps ==
  ASSUME CatalogInv, ReleasesInv, NEW r \in Requests, CheckDecision(r)
  PROVE  ReleasesInv'
<1>1. PICK d \in Decision :
        /\ Exists(d.id)
        /\ LET proposal == releases[d.id].proposal
               policy == automations[proposal.automation]
           IN  ~ /\ d.decision = "APPROVE"
                 /\ policy # Null
                 /\ requiresIndependentApproval(policy.tier, proposal.proposer, d.approver)
        /\ request' = [request EXCEPT ![r] = d]
  BY DEF CheckDecision
<1>2. d \notin Proposal /\ d.id \in Ids
  BY Parts
<1>3. ASSUME Undecided(d.id), OwnApproval(d)
      PROVE  tiers[d.id] \cap LowTiers # {}
  <2> DEFINE policy == automations[releases[d.id].proposal.automation]
  <2>1. Registered(releases[d.id].proposal.automation)
    BY <1>1, <1>2 DEF ReleasesInv, ProposalsStand, ProposalStands
  <2>2. policy.tier \in tiers[d.id]
    BY <1>2, <1>3 DEF ReleasesInv, TiersFollow
  <2>3. policy.tier \notin {"HIGH", "CRITICAL"}
    BY <1>1, <1>3, <2>1 DEF OwnApproval, Registered, requiresIndependentApproval
  <2>4. policy \in Manifests
    <3>1. releases[d.id].proposal.automation \in Automations
      BY <1>1, <1>2, Parts DEF Exists, ReleasesInv, RowTypes
    <3> QED
      BY <2>1, <3>1 DEF CatalogInv, TypeOK, Registered
  <2>5. policy.tier \in LowTiers
    BY <2>3, <2>4, ReleasesAssumption DEF LowTiers
  <2> QED
    BY <2>2, <2>5
<1>4. UNCHANGED <<vars, releases, history, tiers>>
  BY DEF CheckDecision
<1> QED
  BY <1>1, <1>2, <1>3, <1>4, CheckKeeps

\* A request that ends without a trace.
LEMMA RefusalKeeps ==
  ASSUME CatalogInv, ReleasesInv, NEW r \in Requests, RefuseDecision(r) \/ Abandon(r)
  PROVE  ReleasesInv'
<1>1. /\ request' = [request EXCEPT ![r] = Null]
      /\ UNCHANGED <<vars, releases, history, tiers>>
  BY DEF RefuseDecision, Abandon, EndRequest
<1>2. Null \notin Proposal \cup Decision
  BY Parts
<1> QED
  BY <1>1, <1>2, CheckKeeps

\* As long as the catalog stays, what stood before a step stands after it.
LEMMA StandOn ==
  ASSUME UNCHANGED <<automations, audit>>,
         \A q \in Requests : request'[q] \in Proposal => ProposalStands(request'[q]),
         \A n \in Ids : Exists(n)' => ProposalStands(releases'[n].proposal)
  PROVE  ProposalsStand'
  BY DEF ProposalsStand, ProposalStands, Observed, Registered

\* propose, the transaction.
LEMMA CreateKeeps ==
  ASSUME CatalogInv, ReleasesInv, NEW r \in Requests, CreateRelease(r)
  PROVE  ReleasesInv'
<1> DEFINE p == request[r]
<1>1. PICK id \in Ids :
        /\ ~Exists(id)
        /\ releases' = [releases EXCEPT ![id] =
             [proposal |-> p, status |-> "PROPOSED", approver |-> Null]]
        /\ history' = [history EXCEPT ![id] =
             Append(@, [event |-> "PROPOSED", actor |-> p.proposer])]
        /\ tiers' = [tiers EXCEPT ![id] = {automations[p.automation].tier}]
  BY DEF CreateRelease, InsertHistory
<1>2. p \in Proposal /\ request' = [request EXCEPT ![r] = Null] /\ UNCHANGED vars
  BY DEF CreateRelease, EndRequest
<1>3. UNCHANGED <<automations, audit>>
  BY <1>2 DEF vars
<1>4. ProposalStands(p)
  BY <1>2 DEF ReleasesInv, ProposalsStand
<1> HIDE DEF p
<1> DEFINE row == [proposal |-> p, status |-> "PROPOSED", approver |-> Null]
<1>5. row \in Release /\ row # Null
  BY <1>2, Parts DEF Release, Status
<1>6. /\ releases'[id] = row
      /\ tiers'[id] = {automations[p.automation].tier}
      /\ history'[id] = Append(history[id], [event |-> "PROPOSED", actor |-> p.proposer])
      /\ \A n \in Ids \ {id} : /\ releases'[n] = releases[n] /\ history'[n] = history[n]
                               /\ tiers'[n] = tiers[n]
  BY <1>1 DEF ReleasesInv, RowTypes
<1>7. \A q \in Requests : request'[q] \in {request[q], Null}
  BY <1>2 DEF ReleasesInv, RowTypes
<1>8. Null \notin Proposal \cup Decision
  BY Parts
<1>9. row.proposal = p /\ row.status = "PROPOSED"
  OBVIOUS
<1>10. RowTypes'
  BY <1>1, <1>2, <1>5 DEF ReleasesInv, RowTypes
<1> HIDE DEF row
<1>11. Exists(id)' /\ Undecided(id)'
  BY <1>5, <1>6, <1>9 DEF Exists, Undecided
<1>12. \A n \in Ids \ {id} : /\ Exists(n)' = Exists(n) /\ Undecided(n)' = Undecided(n)
  BY <1>6 DEF Exists, Undecided
<1>13. ProposalsStand'
  <2>1. \A q \in Requests : request'[q] \in Proposal => ProposalStands(request'[q])
    BY <1>7, <1>8 DEF ReleasesInv, ProposalsStand
  <2>2. \A n \in Ids : Exists(n)' => ProposalStands(releases'[n].proposal)
    BY <1>4, <1>6, <1>9, <1>12 DEF ReleasesInv, ProposalsStand
  <2> QED
    BY <1>3, <2>1, <2>2, StandOn
<1>14. TiersFollow'
  BY <1>3, <1>6, <1>9, <1>12 DEF ReleasesInv, TiersFollow
<1>15. DecisionsChecked'
  <2> SUFFICES ASSUME NEW q \in Requests, NEW e \in Decision, request'[q] = e
               PROVE  /\ Exists(e.id)'
                      /\ Undecided(e.id)' /\ OwnApproval(e)' =>
                           tiers'[e.id] \cap LowTiers # {}
    BY DEF DecisionsChecked, OwnApproval, Exists, Undecided
  <2>1. /\ request[q] = e /\ Exists(e.id) /\ e.id \in Ids
        /\ Undecided(e.id) /\ OwnApproval(e) => tiers[e.id] \cap LowTiers # {}
    BY <1>7, <1>8, Parts DEF ReleasesInv, DecisionsChecked
  <2>2. e.id # id
    BY <1>1, <2>1
  <2> QED
    BY <1>6, <1>12, <2>1, <2>2 DEF OwnApproval
<1>16. HistoryMatchesRelease'
  <2>1. history[id] = <<>>
    BY <1>1 DEF ReleasesInv, HistoryMatchesRelease
  <2>2. history'[id] = <<[event |-> "PROPOSED", actor |-> p.proposer]>>
    BY <1>6, <2>1
  <2> QED
    BY <1>6, <1>9, <1>11, <1>12, <2>2 DEF ReleasesInv, HistoryMatchesRelease
<1>17. SelfApprovalWasAllowed'
  BY <1>6, <1>9, <1>12 DEF ReleasesInv, SelfApprovalWasAllowed
<1> QED
  BY <1>10, <1>13, <1>14, <1>15, <1>16, <1>17 DEF ReleasesInv

\* decide, the transaction.
LEMMA DecideKeeps ==
  ASSUME CatalogInv, ReleasesInv, NEW r \in Requests, DecideRelease(r)
  PROVE  ReleasesInv'
<1>1. PICK d \in Decision, id \in Ids, status \in {"APPROVED", "REJECTED"} :
        /\ id = d.id /\ status = DecidedStatus(d.decision) /\ d = request[r]
        /\ Undecided(id)
        /\ releases' = [releases EXCEPT ![id].status = status, ![id].approver = d.approver]
        /\ history' = [history EXCEPT ![id] =
             Append(@, [event |-> status, actor |-> d.approver])]
        /\ request' = [request EXCEPT ![r] = Null]
        /\ UNCHANGED tiers /\ UNCHANGED <<automations, audit>>
  <2> DEFINE e == request[r]
  <2>1. e \in Decision /\ e.id \in Ids
    BY Parts DEF DecideRelease
  <2>2. DecidedStatus(e.decision) \in {"APPROVED", "REJECTED"}
    BY DEF DecidedStatus
  <2> QED
    BY <2>1, <2>2 DEF DecideRelease, Updatable, InsertHistory, EndRequest, vars
<1>2. d.approver \in Approvers /\ (status = "APPROVED" => d.decision = "APPROVE")
  BY <1>1, Parts DEF DecidedStatus
<1>3. OwnApproval(d) => tiers[id] \cap LowTiers # {}
  BY <1>1 DEF ReleasesInv, DecisionsChecked
<1>4. releases[id] \in Release /\ releases[id] # Null
  BY <1>1 DEF Undecided, Exists, ReleasesInv, RowTypes
<1> DEFINE row == [releases[id] EXCEPT !.status = status, !.approver = d.approver]
<1>5. /\ row \in Release /\ row # Null /\ row.proposal = releases[id].proposal
      /\ row.status = status /\ row.approver = d.approver
  <2>1. row \in Release
    BY <1>2, <1>4 DEF Release, Status
  <2> QED
    BY <1>4, <2>1, Parts DEF Release
<1>6. /\ releases' = [releases EXCEPT ![id] = row]
      /\ releases'[id] = row
      /\ history'[id] = Append(history[id], [event |-> status, actor |-> d.approver])
      /\ \A n \in Ids \ {id} : releases'[n] = releases[n] /\ history'[n] = history[n]
  BY <1>1, <1>2 DEF ReleasesInv, RowTypes
<1> HIDE DEF row
<1>7. \A q \in Requests : request'[q] \in {request[q], Null}
  BY <1>1 DEF ReleasesInv, RowTypes
<1>8. Null \notin Proposal \cup Decision
  BY Parts
<1>9. RowTypes'
  BY <1>1, <1>2, <1>5, <1>6 DEF ReleasesInv, RowTypes
<1>10. Exists(id)' /\ Exists(id) /\ ~Undecided(id)'
  BY <1>2, <1>4, <1>5, <1>6 DEF Exists, Undecided
<1>11. \A n \in Ids \ {id} : Exists(n)' = Exists(n) /\ Undecided(n)' = Undecided(n)
  BY <1>6 DEF Exists, Undecided
<1>12. \A n \in Ids : Exists(n) => releases'[n].proposal = releases[n].proposal
  BY <1>5, <1>6
<1>13. ProposalsStand'
  <2>1. \A q \in Requests : request'[q] \in Proposal => ProposalStands(request'[q])
    BY <1>7, <1>8 DEF ReleasesInv, ProposalsStand
  <2>2. \A n \in Ids : Exists(n)' => ProposalStands(releases'[n].proposal)
    BY <1>10, <1>11, <1>12 DEF ReleasesInv, ProposalsStand
  <2> QED
    BY <1>1, <2>1, <2>2, StandOn
<1>14. TiersFollow'
  BY <1>1, <1>6, <1>10, <1>11 DEF ReleasesInv, TiersFollow
<1>15. DecisionsChecked'
  <2> SUFFICES ASSUME NEW q \in Requests, NEW e \in Decision, request'[q] = e
               PROVE  /\ Exists(e.id)'
                      /\ Undecided(e.id)' /\ OwnApproval(e)' =>
                           tiers'[e.id] \cap LowTiers # {}
    BY DEF DecisionsChecked, OwnApproval, Exists, Undecided
  <2>1. /\ request[q] = e /\ Exists(e.id) /\ e.id \in Ids
        /\ Undecided(e.id) /\ OwnApproval(e) => tiers[e.id] \cap LowTiers # {}
    BY <1>7, <1>8, Parts DEF ReleasesInv, DecisionsChecked
  <2> QED
    BY <1>1, <1>10, <1>11, <1>12, <2>1 DEF OwnApproval
<1>16. HistoryMatchesRelease'
  <2> DEFINE first == [event |-> "PROPOSED", actor |-> releases[id].proposal.proposer]
             last == [event |-> status, actor |-> d.approver]
  <2>1. history[id] = <<first>>
    BY <1>1, <1>2 DEF ReleasesInv, HistoryMatchesRelease, Undecided
  <2>2. first \in HistoryRecord /\ last \in HistoryRecord
    BY <1>2, <1>4, Parts DEF HistoryRecord, Proposal, Status
  <2> HIDE DEF first, last
  <2>3. history'[id] = <<first, last>>
    BY <1>6, <2>1, <2>2, TwoRecords DEF last
  <2> QED
    BY <1>5, <1>6, <1>10, <1>11, <2>3 DEF first, last, ReleasesInv, HistoryMatchesRelease
<1>17. SelfApprovalWasAllowed'
  <2> SUFFICES ASSUME NEW n \in Ids, Exists(n)', releases'[n].status = "APPROVED",
                      releases'[n].approver = releases'[n].proposal.proposer
               PROVE  tiers[n] \cap {"LOW", "MEDIUM"} # {}
    BY <1>1 DEF SelfApprovalWasAllowed
  <2>1. CASE n = id
    BY <1>1, <1>2, <1>3, <1>5, <1>6, <2>1 DEF OwnApproval, LowTiers
  <2>2. CASE n # id
    BY <1>6, <1>11, <2>2 DEF ReleasesInv, SelfApprovalWasAllowed
  <2> QED
    BY <2>1, <2>2
<1> QED
  BY <1>9, <1>13, <1>14, <1>15, <1>16, <1>17 DEF ReleasesInv

\* A start of the API: the audit trail grows, rows stay, tiers are remembered.
LEMMA StartProcessKeeps ==
  ASSUME CatalogInv, ReleasesInv, NEW p \in Processes, StartProcess(p)
  PROVE  ReleasesInv'
<1>1. /\ UNCHANGED <<releases, history, request>> /\ [Next]_vars
      /\ tiers' = [id \in Ids |->
           IF Undecided(id)
             THEN tiers[id] \cup {automations'[releases[id].proposal.automation].tier}
             ELSE tiers[id]]
  BY DEF StartProcess, Next
<1>2. \A id \in Ids : tiers[id] \subseteq tiers'[id]
  BY <1>1
<1>3. ASSUME NEW proposal \in Proposal, ProposalStands(proposal)
      PROVE  ProposalStands(proposal)'
  <2>1. proposal.automation \in Automations
    BY Parts
  <2> QED
    BY <1>1, <1>3, <2>1, TrailGrows DEF ProposalStands, Observed
<1>4. \A id \in Ids : Exists(id) => releases[id].proposal \in Proposal
  BY Parts DEF Exists, ReleasesInv, RowTypes
<1>5. RowTypes'
  BY <1>1 DEF ReleasesInv, RowTypes
<1>6. ProposalsStand'
  BY <1>1, <1>3, <1>4 DEF ReleasesInv, ProposalsStand, Exists
<1>7. TiersFollow'
  BY <1>1 DEF ReleasesInv, TiersFollow, Undecided, Exists
<1>8. DecisionsChecked'
  <2> SUFFICES ASSUME NEW q \in Requests, request[q] \in Decision
               PROVE  /\ Exists(request[q].id)
                      /\ Undecided(request[q].id) /\ OwnApproval(request[q]) =>
                           tiers'[request[q].id] \cap LowTiers # {}
    BY <1>1 DEF DecisionsChecked, OwnApproval, Exists, Undecided
  <2>1. request[q].id \in Ids
    BY Parts
  <2> QED
    BY <1>2, <2>1 DEF ReleasesInv, DecisionsChecked
<1>9. HistoryMatchesRelease'
  BY <1>1 DEF ReleasesInv, HistoryMatchesRelease, Exists, Undecided
<1>10. SelfApprovalWasAllowed'
  BY <1>1, <1>2 DEF ReleasesInv, SelfApprovalWasAllowed, Exists
<1> QED
  BY <1>5, <1>6, <1>7, <1>8, <1>9, <1>10 DEF ReleasesInv

\* To the catalog a release is none of its business.
LEMMA CatalogSteps == [ReleasesNext]_releasesVars => [Next]_vars
  BY DEF ReleasesNext, Handle, CheckProposal, CreateRelease, CheckDecision, DecideRelease,
         RefuseDecision, Abandon, StartProcess, Next, releasesVars

\* The invariant is inductive, together with that of the catalog.
LEMMA ReleasesKeep ==
  ASSUME CatalogInv, ReleasesInv, [ReleasesNext]_releasesVars
  PROVE  CatalogInv' /\ ReleasesInv'
<1>1. CatalogInv'
  BY CatalogSteps, StepKeeps
<1>2. CASE UNCHANGED releasesVars
  <2>1. UNCHANGED <<automations, audit, releases, history, request, tiers>>
    BY <1>2 DEF releasesVars, vars
  <2>2. RowTypes' /\ HistoryMatchesRelease' /\ SelfApprovalWasAllowed'
    BY <2>1 DEF ReleasesInv, RowTypes, HistoryMatchesRelease, SelfApprovalWasAllowed,
                Exists, Undecided
  <2>3. ProposalsStand'
    BY <2>1 DEF ReleasesInv, ProposalsStand, ProposalStands, Observed, Registered, Exists
  <2>4. TiersFollow' /\ DecisionsChecked'
    BY <2>1 DEF ReleasesInv, TiersFollow, DecisionsChecked, OwnApproval, Exists, Undecided
  <2> QED
    BY <1>1, <2>2, <2>3, <2>4 DEF ReleasesInv
<1> QED
  BY <1>1, <1>2, CheckProposalKeeps, CheckDecisionKeeps, RefusalKeeps, CreateKeeps,
     DecideKeeps, StartProcessKeeps DEF ReleasesNext, Handle

\* So both hold throughout.
THEOREM ReleasesInductive == ReleasesSpec => [](CatalogInv /\ ReleasesInv)
<1>1. CatalogInv /\ ReleasesInv /\ [ReleasesNext]_releasesVars
        => (CatalogInv /\ ReleasesInv)'
  BY ReleasesKeep
<1> QED
  BY ReleasesInitHolds, <1>1, PTL DEF ReleasesSpec

\* A release is decided once, whoever checked it while it was open, and its history
\* tells that.
THEOREM HistoriesMatch == ReleasesSpec => []HistoryMatchesRelease
<1>1. ReleasesInv => HistoryMatchesRelease
  BY DEF ReleasesInv
<1> QED
  BY <1>1, ReleasesInductive, PTL

\* The artifact of every release was observed, whatever the catalog says by the
\* time the release is written.
THEOREM ArtifactsWereObserved == ReleasesSpec => []ReleasedArtifactWasObserved
<1>1. ReleasesInv => ReleasedArtifactWasObserved
  BY DEF ReleasesInv, ProposalsStand, ProposalStands, Observed, ReleasedArtifactWasObserved
<1> QED
  BY <1>1, ReleasesInductive, PTL

\* Whoever approves their own release does so under a tier that allowed it at some
\* time since the proposal.
THEOREM SelfApprovals == ReleasesSpec => []SelfApprovalWasAllowed
<1>1. ReleasesInv => SelfApprovalWasAllowed
  BY DEF ReleasesInv
<1> QED
  BY <1>1, ReleasesInductive, PTL
=============================================================================
