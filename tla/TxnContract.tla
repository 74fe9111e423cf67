---------------------------- MODULE TxnContract ----------------------------
(***************************************************************************)
(* What the lifecycle of one charge promises its owner, whatever the       *)
(* messages, deadlines, failures and restarts: the agent writes only while *)
(* it works on a decision, and from a write that has not read back as      *)
(* written there is no way on but a flagged question: not to a settled     *)
(* charge, not to silence, not to a closed book.                           *)
(***************************************************************************)

VARIABLES phase,      \* where the charge stands with its owner
          unverified  \* the last write has not read back as written

vars == <<phase, unverified>>

Phases == {"untracked",  \* no run has taken the charge up
           "triage",     \* the agent decides whether it may act alone
           "working",    \* a decision is being written and verified
           "asking",     \* the owner is asked
           "flagged",    \* the owner is asked about a write gone wrong
           "settled",    \* filed as decided
           "handedBack", \* the question lapsed: left to the owner
           "closed",     \* the book is closed
           "broken"}     \* the run stopped: the owner is alerted

Live == Phases \ {"untracked", "closed", "broken"}

Init == phase = "untracked" /\ unverified = FALSE

(* Also how a closed or broken charge is taken up again.                   *)
TakeUp == /\ phase \in {"untracked", "closed", "broken"}
          /\ phase' = "triage" /\ unverified' = FALSE

Ask == /\ phase \in {"triage", "working"} /\ ~unverified
       /\ phase' = "asking" /\ UNCHANGED unverified

Work == /\ phase \in Live \ {"working"}
        /\ phase' = "working" /\ UNCHANGED unverified

Write == /\ phase = "working"
         /\ unverified' = TRUE /\ UNCHANGED phase

(* What has been verified may be found wrong, never the other way round    *)
(* without reading it back.                                                *)
Verify == /\ phase = "working"
          /\ \/ phase' = "settled" /\ unverified' = FALSE
             \/ phase' = "flagged" /\ UNCHANGED unverified

HandBack == /\ phase = "asking" /\ ~unverified
            /\ phase' = "handedBack" /\ UNCHANGED unverified

Close == /\ phase \in {"settled", "handedBack"} /\ ~unverified
         /\ phase' = "closed" /\ UNCHANGED unverified

(* A run may stop on the very read that confirmed its write.               *)
Break == /\ phase \in Live
         /\ phase' = "broken" /\ unverified' \in {FALSE, unverified}

Next == \/ TakeUp \/ Ask \/ Work \/ Write \/ Verify
        \/ HandBack \/ Close \/ Break

Spec == Init /\ [][Next]_vars
=============================================================================
