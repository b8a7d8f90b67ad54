---- MODULE MCControlPlane ----
(***************************************************************************)
(* Instances for TLC of three parts of the control plane: what is recorded *)
(* of GitHub's deliveries, the audit of their list, or the database file   *)
(* that every command opens.  A behaviour is of one part; the others stay  *)
(* where they began.                                                       *)
(***************************************************************************)
EXTENDS SourceCoverage, DeliveryAudit, ControlDatabase

CONSTANTS r1, g1, g2, i1, u1, u2, q

VARIABLE part

-----------------------------------------------------------------------------
(* Pull-request shapes, webhook requests, and entries of GitHub's list.    *)

Open(action, refs) ==
  [action |-> action, repo |-> r1, base |-> r1, head |-> r1, state |-> "open", merged |-> FALSE,
   mergedAt |-> Null, mergeSha |-> 0, refs |-> refs]
Closed(merged, mergedAt, mergeSha) ==
  [Open("closed", "plain") EXCEPT !.state = "closed", !.merged = merged, !.mergedAt = mergedAt,
                                  !.mergeSha = mergeSha]

Request(guid, body, payload) ==
  [size |-> "ok", headers |-> TRUE, signed |-> TRUE, event |-> "pull_request", guid |-> guid,
   body |-> body, source |-> i1, payload |-> payload]

MCRequests ==
  {Request(g1, 1, Open("opened", "plain")), Request(g1, 2, Closed(TRUE, 0, 0)),
   [Request(g2, 1, Open("opened", "plain")) EXCEPT !.signed = FALSE],
   Request(g2, 1, Open("opened", "lock")), Request(g2, 2, Open("edited", "foreign")),
   Request(g2, 3, Closed(FALSE, Null, 0)), Request(g2, 4, Closed(FALSE, 0, Null))}

Listed(delivery, guid, at, action) ==
  [delivery |-> delivery, guid |-> guid, deliveredAt |-> at, action |-> action, repo |-> r1,
   source |-> i1]
Audited(listed, summary, payload) ==
  [listed |-> listed,
   detail |-> [status |-> 200, size |-> "ok", summary |-> summary, body |-> 1, source |-> i1,
               payload |-> payload]]

MCAudits ==
  LET first == Listed(1, g1, 0, "opened")
      second == Listed(2, g2, 1, "opened")
  IN {Audited(first, first, Open("opened", "plain")), Audited(second, second, Open("opened", "plain")),
      Audited(first, first, Open("edited", "plain")),
      Audited(Listed(3, g2, 0, "labeled"), second, Open("opened", "plain"))}

Failure(cause, kind, guids) == [cause |-> cause, kind |-> kind, guids |-> guids]
MCFailures ==
  {Failure("source-unavailable", "interval-coverage", {}),
   Failure("unsupported-relevant-delivery", "delivery-content", {g1, g2}),
   Failure("unsupported-relevant-delivery", "interval-coverage", {})}

MCRetry == <<1, 2>>

-----------------------------------------------------------------------------
InCoverage(A) == part = "coverage" /\ A /\ UNCHANGED <<part, auditVars, databaseVars>>
InAudit(A) == part = "audit" /\ A /\ UNCHANGED <<part, coverageVars, databaseVars>>
InDatabase(A) == part = "database" /\ A /\ UNCHANGED <<part, coverageVars, auditVars>>

MCInit == part \in {"coverage", "audit", "database"} /\ CoverageInit /\ AuditInit /\ DatabaseInit
MCNext == InCoverage(CoverageNext) \/ InAudit(AuditNext) \/ InDatabase(DatabaseNext)
mcVars == <<part, coverageVars, auditVars, databaseVars>>

MCSpec ==
  /\ MCInit /\ [][MCNext]_mcVars
  /\ \A c \in Controllers :
       /\ WF_mcVars(InAudit(Claim(c))) /\ WF_mcVars(InAudit(Fetch(c)))
       /\ WF_mcVars(InAudit(Report(c))) /\ WF_mcVars(InAudit(Restart(c)))
  /\ WF_mcVars(InAudit(Tick)) /\ WF_mcVars(InAudit(CatchUp))

(* The type invariant of the part that the behaviour is of.                *)
ControlPlaneTypeOK ==
  CASE part = "coverage" -> CoverageTypeOK
    [] part = "audit" -> AuditTypeOK
    [] part = "database" -> DatabaseTypeOK

(* In the behaviours of that part, the audit's own liveness property: once *)
(* nothing more goes wrong audits complete again and again.                *)
AuditPartRecurs == part = "audit" => AuditsRecur

(* Runs are interchangeable: the coverage part names the first one u1.     *)
OfRun(k, u) == log[k].command \in {"checkpoint", "gap", "repair"} /\ log[k].run = u
RunsInOrder == \A k \in 1 .. Now : OfRun(k, u2) => \E j \in 1 .. k : OfRun(j, u1)
====
