------------------------------- MODULE Dispatch -------------------------------
(***************************************************************************)
(* W3: the webhook (webhook/app.py), the decision (dispatch/classify.py),  *)
(* the dispatch workflow of each message (dispatch_workflow.py) and its    *)
(* activities (dispatch_activities.py), next to the conversations the      *)
(* messages belong to, which open and close on their own, and the owner's  *)
(* standing autonomy for one payee.                                        *)
(***************************************************************************)
EXTENDS Naturals, FiniteSets

CONSTANTS Messages,   \* records: see Message
          Threads,
          Kind,       \* whose thread each is
          Bounds      \* how often each thing may happen (see Kinds)

NoThread == "none"

(* from and auto are what the headers say; verdict and reading are what    *)
(* the models may make of the words.                                       *)
Verdicts == {"receipt", "command", "noise"}
Readings == {"bless", "revoke", "list", "other"}
Message ==
    [id : STRING, from : {"owner", "stranger", "daemon"}, auto : BOOLEAN,
     signed : BOOLEAN, thread : Threads \cup {NoThread},
     verdicts : SUBSET Verdicts, readings : SUBSET Readings]

(* lost: an attempt of an activity dies and is run again.  outage: a call  *)
(* to Temporal fails.  fault: an activity fails on every attempt.  crowd:  *)
(* an alert expires.  again: AgentMail posts what it has posted before.    *)
(* grant: the owner confirms a standing command.                           *)
Kinds == {"lost", "outage", "fault", "crowd", "again", "grant"}

ASSUME DispatchAssumption ==
    /\ Messages \subseteq Message /\ IsFiniteSet(Messages)
    /\ \A m, n \in Messages : m.id = n.id => m = n
    /\ NoThread \notin Threads
    /\ Kind \in [Threads -> {"transaction", "offer", "readback", "balance"}]
    /\ Bounds \in [Kinds -> Nat]

VARIABLES
    thread,    \* the workflow of each thread: not stamped yet, running, closed
    inbox,     \* the messages signalled to each thread's workflow
    blessed,   \* the payee has a blessed rule
    revokedBy, \* the messages whose revoke signal took that rule's autonomy
    confirms,  \* the messages that opened a read-back of a standing command
    parked,    \* the messages parked as receipts
    replies,   \* the answers to messages: which, what kind, what it says
    pages,     \* what the operator was paged about
    posted,    \* the messages AgentMail has delivered
    pc, found, \* each message's workflow: how far it is, and whose reply it is
    action,    \* its DispatchResult
    saw,       \* what its command attempt has read of the registry
    raced,     \* the messages that were in dispatch when their thread closed
    left

worlds  == <<thread, blessed>>
effects == <<inbox, revokedBy, confirms, parked, replies, pages>>
flow    == <<pc, found, action, saw>>
vars    == <<worlds, effects, posted, flow, raced, left>>

Use(k)  == left[k] > 0 /\ left' = [left EXCEPT ![k] = @ - 1]
Used(k) == Bounds[k] - left[k]

Goes(m, to) == pc' = [pc EXCEPT ![m] = to]
Does(m, to, result) ==
    Goes(m, to) /\ action' = [action EXCEPT ![m] = result]
----------------------------------------------------------------------------
(* classify.  The boundary comes first, then the thread's owner.  (Mutant  *)
(* of Decision: the thread comes before the sender.)                       *)
Routed(owner) == IF owner = "nobody" THEN "interpret" ELSE owner
DecisionByThread(m, owner) ==
    CASE m.auto              -> "ignore"
      [] owner # "nobody"    -> owner
      [] m.from # "owner"    -> "quarantine"
      [] OTHER               -> "interpret"
Decision(m, owner) ==
    CASE ~m.signed           -> "quarantine"
      [] m.signed /\ (m.auto \/ m.from = "daemon") -> "ignore"
      [] m.signed /\ ~m.auto /\ m.from = "stranger" -> "quarantine"
      [] OTHER               -> Routed(owner)

(* The webhook: what is not signed is refused, what has been dispatched    *)
(* stays so.  (Mutant of Webhook: a finished dispatch may be repeated.)    *)
WebhookAgain(m) ==
    /\ m.signed
    /\ posted' = posted \cup {m}
    /\ m \in posted => Use("again")
    /\ m \notin posted => UNCHANGED left
    /\ IF pc[m] \in {"idle", "done", "failed"} THEN Goes(m, "resolve")
       ELSE UNCHANGED pc
    /\ UNCHANGED <<worlds, effects, found, action, saw, raced>>
Webhook(m) ==
    /\ m.signed
    /\ posted' = posted \cup {m}
    /\ m \in posted => Use("again")
    /\ m \notin posted => UNCHANGED left
    /\ IF pc[m] = "idle" THEN Goes(m, "resolve") ELSE UNCHANGED pc
    /\ UNCHANGED <<worlds, effects, found, action, saw, raced>>

(* resolve_thread finds a transaction's workflow whether it runs or not,   *)
(* resolve_offer_thread and resolve_balance_thread only one that runs.     *)
(* The read-back of a command is stamped the way an offer is.              *)
Family(t) == IF Kind[t] = "readback" THEN "offer" ELSE Kind[t]
Owns(kind, t) ==
    /\ t # NoThread /\ Family(t) = kind
    /\ thread[t] \in IF kind = "transaction" THEN {"running", "closed"}
                     ELSE {"running"}

Resolve(m, at, kind, miss) ==
    /\ pc[m] = at
    /\ IF Owns(kind, m.thread)
       THEN Goes(m, "route") /\ found' = [found EXCEPT ![m] = kind]
       ELSE Goes(m, miss) /\ UNCHANGED found
    /\ UNCHANGED <<worlds, effects, posted, action, saw, raced, left>>
ResolveThread(m)  == Resolve(m, "resolve", "transaction", "offer?")
ResolveOffer(m)   == Resolve(m, "offer?", "offer", "balance?")
ResolveBalance(m) == Resolve(m, "balance?", "balance", "route")

Route(m) ==
    /\ pc[m] = "route"
    /\ LET decision == Decision(m, found[m])
       IN  IF decision = "ignore" THEN Does(m, "done", "ignore")
           ELSE Does(m, decision, decision)
    /\ UNCHANGED <<worlds, effects, posted, found, saw, raced, left>>
----------------------------------------------------------------------------
(* An activity's effect, or an attempt that dies after it: it is run again *)
(* from its beginning.                                                     *)
Ends(m, to, from) ==
    \/ Goes(m, to) /\ UNCHANGED left
    \/ Goes(m, from) /\ Use("lost")

Delivers(m) == inbox' = [inbox EXCEPT ![m.thread] = @ \cup {m}]

(* Signal-with-start: a closed run is followed by a fresh one.             *)
SignalTransaction(m) ==
    /\ pc[m] = "transaction"
    /\ Delivers(m)
    /\ thread' = [thread EXCEPT ![m.thread] = "running"]
    /\ Ends(m, "done", "transaction")
    /\ UNCHANGED <<blessed, revokedBy, confirms, parked, replies, pages,
                   posted, found, action, saw, raced>>

(* A plain signal to the id that was found, whose failure is no failure: a *)
(* run of that id which is not stamped yet gets it too.  (Mutant of        *)
(* SignalOffer: it is signalled with a start.)                             *)
SignalWithStart(m) ==
    /\ pc[m] \in {"offer", "balance"}
    /\ Delivers(m)
    /\ thread' = [thread EXCEPT ![m.thread] = "running"]
    /\ Ends(m, "done", pc[m])
    /\ UNCHANGED <<blessed, revokedBy, confirms, parked, replies, pages,
                   posted, found, action, saw, raced>>
SignalOffer(m) ==
    /\ pc[m] \in {"offer", "balance"}
    /\ \/ /\ IF thread[m.thread] # "closed" THEN Delivers(m)
             ELSE UNCHANGED inbox
          /\ Ends(m, "done", pc[m])
       \/ Goes(m, "done") /\ Use("outage") /\ UNCHANGED inbox
    /\ UNCHANGED <<worlds, revokedBy, confirms, parked, replies, pages,
                   posted, found, action, saw, raced>>

ClassifyInbound(m) ==
    /\ pc[m] = "interpret"
    /\ \E verdict \in m.verdicts :
          IF verdict = "noise" THEN Does(m, "done", "ignore")
          ELSE Does(m, verdict, verdict)
    /\ UNCHANGED <<worlds, effects, posted, found, saw, raced, left>>

(* Park, acknowledge, join: module ReceiptJoin.                            *)
RouteReceipt(m) ==
    /\ pc[m] = "receipt"
    /\ parked' = IF m.thread = NoThread THEN parked ELSE parked \cup {m}
    /\ Ends(m, "done", "receipt")
    /\ UNCHANGED <<worlds, inbox, revokedBy, confirms, replies, pages, posted,
                   found, action, saw, raced>>
----------------------------------------------------------------------------
(* handle_command: the model reads it, on every attempt afresh.            *)
ReadCommand(m) ==
    /\ pc[m] = "command"
    /\ \E reading \in m.readings :
          Goes(m, IF reading = "other" THEN "done" ELSE reading)
    /\ saw' = [saw EXCEPT ![m] = "nothing"]
    /\ UNCHANGED <<worlds, effects, posted, found, action, raced, left>>

(* _reply, keyed by what it answers: the first of a kind stays.            *)
Answered(m, tag) == \E r \in replies : r.message = m /\ r.tag = tag
Answer(m, tag, says) ==
    IF m.thread = NoThread \/ Answered(m, tag) THEN replies
    ELSE replies \cup {[message |-> m, tag |-> tag, says |-> says]}

(* A run that is over is followed by one that opens the same thread, the   *)
(* one with its label, and is not stamped yet.                             *)
Reopens(t) ==
    thread[t] = "closed" /\ thread' = [thread EXCEPT ![t] = "unstamped"]

(* A pending read-back of the same command is left as it is.               *)
StartConfirm(m) ==
    /\ pc[m] = "bless"
    /\ confirms' = confirms \cup {m}
    /\ \/ UNCHANGED thread
       \/ \E t \in Threads : Kind[t] = "readback" /\ Reopens(t)
    /\ Ends(m, "done", "command")
    /\ UNCHANGED <<blessed, inbox, revokedBy, parked, replies, pages, posted,
                   found, action, saw, raced>>

(* _registry_view: a query that fails reads as an empty registry.          *)
ViewRegistry(m) ==
    /\ pc[m] = "revoke" /\ saw[m] = "nothing"
    /\ \/ /\ UNCHANGED left
          /\ IF blessed THEN Goes(m, "signal") /\ UNCHANGED saw
             ELSE Goes(m, "reply") /\ saw' = [saw EXCEPT ![m] = "unblessed"]
       \/ /\ Use("outage")
          /\ Goes(m, "reply") /\ saw' = [saw EXCEPT ![m] = "unblessed"]
    /\ UNCHANGED <<worlds, effects, posted, found, action, raced>>

SignalRevoke(m) ==
    /\ pc[m] = "signal"
    /\ blessed' = FALSE
    /\ revokedBy' = IF blessed THEN revokedBy \cup {m} ELSE revokedBy
    /\ saw' = [saw EXCEPT ![m] = "blessed"]
    /\ Ends(m, "reply", "command")
    /\ UNCHANGED <<thread, inbox, confirms, parked, replies, pages, posted,
                   found, action, raced>>

(* (Mutant of ReplyRevoke: always "done".)                                 *)
ReplyDone(m) ==
    /\ pc[m] = "reply"
    /\ replies' = Answer(m, "revoke", "revoked")
    /\ Ends(m, "done", "command")
    /\ UNCHANGED <<worlds, inbox, revokedBy, confirms, parked, pages, posted,
                   found, action, saw, raced>>
ReplyRevoke(m) ==
    /\ pc[m] = "reply"
    /\ replies' = Answer(m, "revoke",
                         IF saw[m] = "blessed" THEN "revoked" ELSE "nothing")
    /\ Ends(m, "done", "command")
    /\ UNCHANGED <<worlds, inbox, revokedBy, confirms, parked, pages, posted,
                   found, action, saw, raced>>

ListRules(m) ==
    /\ pc[m] = "list"
    /\ replies' = Answer(m, "rules", "listed")
    /\ Ends(m, "done", "command")
    /\ UNCHANGED <<worlds, inbox, revokedBy, confirms, parked, pages, posted,
                   found, action, saw, raced>>

HandleCommand(m) == \/ ReadCommand(m) \/ StartConfirm(m) \/ ViewRegistry(m)
                    \/ SignalRevoke(m) \/ ReplyRevoke(m) \/ ListRules(m)
----------------------------------------------------------------------------
Working == {"resolve", "offer?", "balance?", "transaction", "offer",
            "balance", "interpret", "receipt", "command", "bless", "revoke",
            "signal", "reply", "list"}

(* An activity is given up: the message is paged and the dispatch fails.   *)
(* (Mutant of GiveUp: it just fails.)                                      *)
GiveUpQuietly(m) ==
    /\ pc[m] \in Working /\ Use("fault")
    /\ Goes(m, "failed")
    /\ UNCHANGED <<worlds, effects, posted, found, action, saw, raced>>
GiveUp(m) ==
    /\ pc[m] \in Working /\ Use("fault")
    /\ Goes(m, "page")
    /\ UNCHANGED <<worlds, effects, posted, found, action, saw, raced>>

(* Pages are keyed by the message, or by the sender that is held.          *)
Pages(m, about, to) ==
    /\ Goes(m, to)
    /\ \/ pages' = pages \cup {about} /\ UNCHANGED left
       \/ Use("crowd") /\ UNCHANGED pages
    /\ UNCHANGED <<worlds, inbox, revokedBy, confirms, parked, replies,
                   posted, found, action, saw, raced>>
PageFailure(m)    == pc[m] = "page" /\ Pages(m, m.id, "failed")
PageQuarantine(m) == pc[m] = "quarantine" /\ Pages(m, m.from, "done")
----------------------------------------------------------------------------
InDispatch(t) == {m \in Messages : m.thread = t
                                   /\ pc[m] \notin {"idle", "done", "failed"}}
(* The workflow of a thread is stamped with it, and ends.                  *)
Stamp(t) ==
    /\ thread[t] = "unstamped"
    /\ thread' = [thread EXCEPT ![t] = "running"]
    /\ UNCHANGED <<blessed, effects, posted, flow, raced, left>>
Close(t) ==
    /\ thread[t] = "running"
    /\ thread' = [thread EXCEPT ![t] = "closed"]
    /\ raced' = raced \cup InDispatch(t)
    /\ UNCHANGED <<blessed, effects, posted, flow, left>>

(* The agent makes an offer again that Temporal has forgotten (modules     *)
(* RuleRegistry and Coverage).                                             *)
AskAgain(t) ==
    /\ Kind[t] \in {"offer", "balance"} /\ Reopens(t)
    /\ UNCHANGED <<blessed, effects, posted, flow, raced, left>>

(* The owner confirms a standing command (module RuleRegistry).            *)
Grant ==
    /\ ~blessed /\ Use("grant") /\ blessed' = TRUE
    /\ UNCHANGED <<thread, effects, posted, flow, raced>>
----------------------------------------------------------------------------
Init ==
    /\ thread \in [Threads -> {"unstamped", "running"}]
    /\ inbox = [t \in Threads |-> {}] /\ blessed \in BOOLEAN
    /\ revokedBy = {} /\ confirms = {} /\ parked = {} /\ replies = {}
    /\ pages = {} /\ posted = {} /\ raced = {}
    /\ pc = [m \in Messages |-> "idle"]
    /\ found = [m \in Messages |-> "nobody"]
    /\ action = [m \in Messages |-> "none"]
    /\ saw = [m \in Messages |-> "nothing"] /\ left = Bounds

Step(m) == \/ ResolveThread(m) \/ ResolveOffer(m) \/ ResolveBalance(m)
           \/ Route(m) \/ SignalTransaction(m) \/ SignalOffer(m)
           \/ ClassifyInbound(m) \/ RouteReceipt(m) \/ HandleCommand(m)
           \/ PageFailure(m) \/ PageQuarantine(m)
Next == \/ \E m \in Messages : Webhook(m) \/ Step(m) \/ GiveUp(m)
        \/ \E t \in Threads : Stamp(t) \/ Close(t) \/ AskAgain(t)
        \/ Grant

Spec == Init /\ [][Next]_vars

(* Temporal carries out what has been started.                             *)
Fairness == WF_vars(\E m \in Messages : Step(m))

FairSpec == Spec /\ Fairness
----------------------------------------------------------------------------
TypeOK ==
    /\ thread \in [Threads -> {"unstamped", "running", "closed"}]
    /\ inbox \in [Threads -> SUBSET Messages] /\ blessed \in BOOLEAN
    /\ revokedBy \subseteq Messages /\ confirms \subseteq Messages
    /\ parked \subseteq Messages /\ raced \subseteq Messages
    /\ \A t \in Threads : \A m \in inbox[t] : m.thread = t
    /\ posted \subseteq Messages
    /\ pages \subseteq {m.id : m \in Messages} \cup {"stranger"}
    /\ found \in [Messages -> {"nobody", "transaction", "offer", "balance"}]
    /\ \A m \in Messages : pc[m] \in Working \cup
          {"idle", "route", "page", "quarantine", "done", "failed"}
    /\ left \in [Kinds -> Nat]

Delivered(m) == \E t \in Threads : m \in inbox[t]
Acted(m) == \/ Delivered(m) \/ m \in revokedBy \cup confirms \cup parked
            \/ \E r \in replies : r.message = m

(* The inbound boundary: nothing is signalled, granted, revoked, parked or *)
(* answered on the word of a stranger, of a machine or of an unsigned      *)
(* request, on whatever thread it came.                                    *)
OnlyTrustedAct ==
    \A m \in Messages : Acted(m) => m.signed /\ ~m.auto /\ m.from = "owner"

(* One message goes one way, however often AgentMail posts it and however  *)
(* its thread changes hands meanwhile: what reached a conversation is      *)
(* never also read as a command or a receipt, nor the other way round.     *)
OneWay ==
    \A m \in Messages :
        Cardinality({w \in {"thread", "receipt", "command"} :
            CASE w = "thread"  -> Delivered(m)
              [] w = "receipt" -> m \in parked
              [] w = "command" -> \/ m \in revokedBy \cup confirms
                                  \/ \E r \in replies : r.message = m}) <= 1

(* A reply on a transaction's thread reaches its workflow, running or not, *)
(* or the operator: it is dropped only with the alert about it.            *)
TxnReplyHeard ==
    []<>(\A m \in Messages :
            found[m] = "transaction" /\ m.from = "owner" /\ ~m.auto
                => Delivered(m) \/ m.id \in pages \/ Used("crowd") > 0)

(* What is found to be an offer's reply reaches the offer, unless it       *)
(* closed while the reply was in dispatch or Temporal could not be         *)
(* reached; one that had closed before is left to the command path.        *)
OfferReplyHeard ==
    \A m \in Messages :
        pc[m] = "done" /\ action[m] \in {"offer", "balance"}
            => Delivered(m) \/ m \in raced \/ Used("outage") > 0

(* "so a closed offer is never resurrected": a conversation that is over   *)
(* is taken up again only by being asked again, before any reply can find  *)
(* it: by the agent on its own, or for a read-back by a command that the   *)
(* owner has written and that answered no conversation.  A reply, however  *)
(* late or often it is signalled, takes up none.                           *)
NoOfferResurrected ==
    [][\A t \in Threads :
          Kind[t] # "transaction" /\ thread[t] = "closed"
              /\ thread'[t] # "closed"
            => /\ thread'[t] = "unstamped" /\ UNCHANGED inbox
               /\ \/ UNCHANGED pc
                  \/ /\ Kind[t] = "readback"
                     /\ \E m \in confirms' :
                           /\ m.signed /\ ~m.auto /\ m.from = "owner"
                           /\ pc[m] = "bless" /\ ~Delivered(m)]_vars

(* A stranger's message is held, "but never silently".                     *)
HeldIsPaged ==
    []<>(\A m \in posted :
            m.from = "stranger" /\ ~m.auto
                => \/ "stranger" \in pages \/ m.id \in pages
                   \/ Used("crowd") > 0)

(* All three: a message that somebody should see is seen by somebody.      *)
NothingDropped == []OfferReplyHeard /\ TxnReplyHeard /\ HeldIsPaged

(* "not a fake done": the answer to a revoke says so only when a rule that *)
(* stood has been revoked by then, by this message or another.             *)
DoneIsDone ==
    \A r \in replies : r.says = "revoked" => revokedBy # {}

(* workflow/dispatch_workflow.py: "so a dropped inbound reply or command   *)
(* is never silent": a message of the owner's that was routed to a         *)
(* conversation has reached it, or the operator.                           *)
NeverSilent ==
    \A m \in Messages :
        pc[m] \in {"done", "failed"}
          /\ action[m] \in {"transaction", "offer", "balance"}
            => Delivered(m) \/ m.id \in pages

(* workflow/dispatch_activities.py: "the registry is consulted first so    *)
(* the reply is honest: a payee with no blessed rule gets "nothing         *)
(* changed"": whoever is told that nothing changed has changed nothing.    *)
NothingMeansNothing ==
    \A r \in replies : r.says = "nothing" => r.message \notin revokedBy
==============================================================================
