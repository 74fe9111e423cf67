------------------------------- MODULE MCPoll --------------------------------
(* Bounds of the run of PollLoop.                                             *)
EXTENDS PollLoop

Once(kinds) == [k \in PollKinds |-> IF k \in kinds THEN 1 ELSE 0]

(* Three environments in one run: a loop that stops while nothing posts,   *)
(* one that runs through failures, and one that stops with a charge to     *)
(* address.                                                                *)
Stopping == Once({"stop", "wedge", "refused", "outage", "missed", "down"})
Failing  == Once({"fault", "failed", "down"})
Tending  == Once({"fault", "crowd", "stop", "wedge"})
Any      == Once(PollKinds)

Within(b) == \A k \in PollKinds : PollUsed(k) <= b[k]

BacklogLeft == \A c \in Backlog : charge[c] = "unapproved"
NothingPosts == \A c \in Charges \ Backlog : charge[c] = "none"

Scoped == \/ Within(Failing)
          \/ BacklogLeft /\ Within(Tending)
          \/ BacklogLeft /\ NothingPosts /\ Within(Stopping)

ScopedSpec == PollInit /\ [][PollNext /\ Scoped']_pollVars /\ PollFairness

(* Environments in which a statement of PollLoop fails.                    *)
Restart  == Once({"stop"})
Crowded  == Once({"fault", "crowd"})
==============================================================================
