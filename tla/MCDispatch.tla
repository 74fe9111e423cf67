------------------------------ MODULE MCDispatch -------------------------------
(* Bounds of the run of Dispatch.                                               *)
EXTENDS Dispatch

Msg(id, from, auto, t, verdicts, readings) ==
    [id |-> id, from |-> from, auto |-> auto, signed |-> TRUE, thread |-> t,
     verdicts |-> verdicts, readings |-> readings]

Owners == [t1 |-> "transaction", t2 |-> "offer", t3 |-> "balance",
           t4 |-> "readback"]

Bound(lost, outage, fault, crowd, again, grant) ==
    [lost |-> lost, outage |-> outage, fault |-> fault, crowd |-> crowd,
     again |-> again, grant |-> grant]

(* Three batches of messages in one run: those the boundary is for, replies*)
(* on two kinds of threads, and commands about one payee.                  *)
Boundary ==
    [messages |->
        {[Msg("m0", "owner", FALSE, "t2", {}, {}) EXCEPT !.signed = FALSE],
         Msg("m2", "stranger", FALSE, "t2", {"command"}, {"bless"}),
         Msg("m3", "owner", TRUE, "t2", {"receipt"}, {"list"}),
         Msg("m4", "daemon", FALSE, NoThread, {"noise"}, {"other"})},
     threads |-> {"t2"}, bounds |-> Bound(0, 0, 1, 1, 1, 0)]

Replies ==
    [messages |->
        {Msg("r1", "owner", FALSE, "t1", {"receipt", "noise"}, {}),
         Msg("r2", "owner", FALSE, "t3", {"receipt", "command"}, {"revoke"})},
     threads |-> {"t1", "t3"}, bounds |-> Bound(1, 1, 1, 0, 0, 0)]

Commands ==
    [messages |->
        {Msg("c1", "owner", FALSE, "t4", {"command"}, {"revoke", "bless"}),
         Msg("c2", "owner", FALSE, "t4", {"command"},
             {"revoke", "list", "other"})},
     threads |-> {"t4"}, bounds |-> Bound(1, 0, 0, 0, 1, 1)]

Batches == {Boundary, Replies, Commands}
AllMessages == UNION {b.messages : b \in Batches}
Each        == Bound(1, 1, 1, 1, 1, 1)

Within(b) ==
    /\ posted \subseteq b.messages
    /\ \A t \in Threads \ b.threads : thread[t] = "unstamped"
    /\ \A k \in Kinds : Used(k) <= b.bounds[k]

Scoped == \E b \in Batches : Within(b)

ScopedSpec == Init /\ [][Next /\ Scoped']_vars /\ Fairness
==============================================================================
