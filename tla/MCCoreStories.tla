---- MODULE MCCoreStories ----
(***************************************************************************)
(* Two stories of CoreControl for TLC; a behaviour tells one of them.      *)
(* Polls: overlapping runs of the timer against rollbacks and other        *)
(* commands, over commits of which x drops a declaration.  Commands: one   *)
(* activate after another, overrides, rollbacks and prunes on a and b.     *)
(***************************************************************************)
EXTENDS MCCoreControl

VARIABLE story

Polls ==
  \/ \E p \in Procs : ClaimCorePoll(p) \/ Synchronize(p) \/ Maintain(p)
                      \/ CompleteCorePoll(p) \/ Stops(p)
  \/ \E c \in Commits : RollbackCoreSnapshot(c)
  \/ OtherTransaction \/ ClockMoves

Alone(p) == \A q \in Procs \ {p} : proc[q] = Idle

(* A command that dies or throws leaves a trace only if it has activated   *)
(* and not checked; of a first snapshot that is part of the other story.   *)
Dies(p) == proc[p].pc = "eligible" /\ Cardinality(snapshots) >= 2 /\ Stops(p)

Commands ==
  \/ \E p \in Procs :
       /\ Alone(p)
       /\ \/ StartActivate(p) \/ Inspect(p) \/ Verify(p) \/ CheckSequence(p)
          \/ ActivateCoreSnapshot(p) \/ RecordEligible(p) \/ Reject(p) \/ Dies(p)
  \/ \E c \in Commits \ {x} : RollbackCoreSnapshot(c) \/ RollbackRejected(c)
  \/ \E t \in 0 .. MaxTime + Day : IssueOverride(t)
  \/ PruneCommand \/ ClockMoves

MCInit == Init /\ story \in {"polls", "commands"}
MCNext == /\ UNCHANGED story
          /\ \/ story = "polls" /\ Polls
             \/ story = "commands" /\ Commands
MCSpec == MCInit /\ [][MCNext]_<<vars, story>>

(* What goes on longest goes on after a second snapshot or an override;    *)
(* commands fail in the ways that tell readiness apart.                    *)
Bounded ==
  /\ story = "polls" =>
       /\ lastSeq < MaxSeq
       /\ lastSeq >= MaxSeq - 2 => Cardinality(snapshots) >= 2
  /\ story = "commands" =>
       /\ Eventful
       /\ \A p \in Procs :
            /\ proc[p].candidate # x
            /\ proc[p].outcome \in {"none", "source-unavailable", "candidate-not-descendant"}
====
