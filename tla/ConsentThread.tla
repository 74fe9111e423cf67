---------------------------- MODULE ConsentThread ----------------------------
(***************************************************************************)
(* One conversation in which the owner is asked to let a payee be handled  *)
(* on its own: the autonomy offer of a rule (workflow/offer_*.py) or the   *)
(* read-back of a standing command (workflow/command_*.py), with the       *)
(* mailbox (mail/client.py) in which their emails are found by label.      *)
(*                                                                         *)
(* All runs are about the same rule or command, so they share its id and   *)
(* its labels.  What the registry does with a yes is module RuleRegistry;  *)
(* how a reply finds its run is module Dispatch.                           *)
(***************************************************************************)
EXTENDS Naturals, Sequences, FiniteSets

CONSTANTS Kind,    \* "offer" or "command"
          Mishaps  \* how often each thing may happen (see MishapKinds)

(* ask: the offer is due, or the command is sent.  reply: the owner writes *)
(* on the thread.  again: a reply is delivered late, or once more.  lost:  *)
(* an attempt of an activity dies after its effect.  fail: an activity is  *)
(* given up.                                                               *)
MishapKinds == {"ask", "reply", "again", "lost", "fail"}

ASSUME ConsentAssumption ==
    /\ Kind \in {"offer", "command"}
    /\ Mishaps \in [MishapKinds -> Nat]

VARIABLES
    run,      \* Temporal's status of the run with this id
    pc,       \* where it is
    queue,    \* replies delivered to it and not yet read
    current,  \* the reply it is acting on
    due,      \* its patience is over
    thread,   \* the emails of the thread, oldest first
    blessed,  \* the yes has reached the registry
    begun,    \* history: emails on the thread when the run began
    used,     \* history: replies the registry has been signalled for
    retried,  \* history: replies delivered late or once more, or whose
              \* acceptance was tried again
    spare

conversation == <<run, pc, queue, current, due, begun>>
history     == <<used, retried>>
consentVars == <<conversation, thread, blessed, history, spare>>

Use(k)   == spare[k] > 0 /\ spare' = [spare EXCEPT ![k] = @ - 1]
Verdicts == {"accept", "decline", "unclear"}

(* An email: who it is from and to, and either the label the agent put on  *)
(* it or what the owner meant.                                             *)
Label == [k : {"ask", "accept", "decline"}] \cup [k : {"unclear"}, of : Nat]
Email == [from : {"agent"}, to : {"owners", "agent"}, label : Label]
            \cup [from : {"owner"}, means : Verdicts]
NoReply == 0

Labelled(label) ==
    {i \in DOMAIN thread : thread[i].from = "agent"
                             /\ thread[i].label = label}
Post(to, label) ==
    thread' = Append(thread, [from |-> "agent", to |-> to, label |-> label])

(* MailClient.open_thread: a thread that carries the label is returned.    *)
OpenThread ==
    IF Labelled([k |-> "ask"]) # {} THEN UNCHANGED thread
    ELSE Post("owners", [k |-> "ask"])

(* AgentMail answers the sender of the latest message of the thread unless *)
(* it is told whom to write to.                                            *)
Latest == IF thread[Len(thread)].from = "owner" THEN "owners" ELSE "agent"

(* MailClient.send_on_thread.  (Mutant: the label is not looked for.)      *)
SendAgain(to, label) == Post(to, label)
SendOnThread(to, label) ==
    IF Labelled(label) # {} THEN UNCHANGED thread ELSE Post(to, label)
----------------------------------------------------------------------------
(* start_autonomy_offer (REJECT_DUPLICATE) and handle_command              *)
(* (ALLOW_DUPLICATE).                                                      *)
MayStart == run = "none" \/ (Kind = "command" /\ run # "open")
Start ==
    /\ Use("ask")
    /\ IF MayStart
       THEN /\ run' = "open" /\ pc' = "opening" /\ due' = FALSE
            /\ queue' = <<>> /\ current' = NoReply /\ begun' = Len(thread)
       ELSE UNCHANGED conversation
    /\ UNCHANGED <<thread, blessed, history>>

Forget ==
    /\ run = "closed" /\ run' = "none"
    /\ UNCHANGED <<pc, queue, current, due, begun, thread, blessed, history,
                   spare>>

(* An activity is done, or its attempt dies after its effect.              *)
Done(next) ==
    \/ pc' = next /\ UNCHANGED spare
    \/ Use("lost") /\ UNCHANGED pc

(* The thread is opened and stamped.                                       *)
Open ==
    /\ pc = "opening"
    /\ OpenThread
    /\ Done("waiting")
    /\ UNCHANGED <<run, queue, current, due, begun, blessed, history>>

Ends == run' = "closed" /\ pc' = "over" /\ queue' = <<>> /\ current' = NoReply
Deadline ==
    /\ run = "open" /\ pc # "opening" /\ ~due
    /\ due' = TRUE
    /\ UNCHANGED <<run, pc, queue, current, begun, thread, blessed, history,
                   spare>>

(* A wait of no time at all may end before it has seen a reply.  (Mutant:  *)
(* the deadline is looked at only when there is a reply.)                  *)
LapseOnReply ==
    /\ pc = "waiting" /\ due /\ queue # <<>>
    /\ Ends
    /\ UNCHANGED <<due, begun, thread, blessed, history, spare>>
Lapse ==
    /\ pc = "waiting" /\ due
    /\ Ends
    /\ UNCHANGED <<due, begun, thread, blessed, history, spare>>

(* interpret_offer_reply: the model reads what is meant, or is in doubt.   *)
(* (Mutant: in doubt it reads a yes.)                                      *)
ReadingsEager(means) == {means, "accept"}
Readings(means) == {means, "unclear"}
Read ==
    /\ pc = "waiting" /\ queue # <<>>
    /\ current' = Head(queue) /\ queue' = Tail(queue)
    /\ \E verdict \in Readings(thread[Head(queue)].means) :
          pc' = IF verdict = "accept" THEN "blessing" ELSE verdict
    /\ UNCHANGED <<run, due, begun, thread, blessed, history, spare>>

(* accept_offer, accept_command: the registry is signalled, then the owner *)
(* is answered; both are one activity.                                     *)
TriedAgain ==
    /\ Use("lost") /\ pc' = "blessing" /\ retried' = retried \cup {current}
SignalYes ==
    /\ pc = "blessing"
    /\ blessed' = TRUE /\ used' = used \cup {current}
    /\ \/ pc' = "answering" /\ UNCHANGED <<retried, spare>>
       \/ TriedAgain
    /\ UNCHANGED <<run, queue, current, due, begun, thread>>
AnswerYes ==
    /\ pc = "answering"
    /\ SendOnThread(Latest, [k |-> "accept"])
    /\ \/ Ends /\ UNCHANGED <<retried, spare>>
       \/ TriedAgain /\ UNCHANGED <<run, queue, current>>
    /\ UNCHANGED <<due, begun, blessed, used>>

Decline ==
    /\ pc = "decline"
    /\ SendOnThread(Latest, [k |-> "decline"])
    /\ \/ Ends /\ UNCHANGED spare
       \/ Use("lost") /\ UNCHANGED <<run, pc, queue, current>>
    /\ UNCHANGED <<due, begun, blessed, history>>

Clarify ==
    /\ pc = "unclear"
    /\ SendOnThread("owners", [k |-> "unclear", of |-> current])
    /\ Done("waiting")
    /\ UNCHANGED <<run, queue, current, due, begun, blessed, history>>

(* An activity is given up: the owner is paged and the run fails.          *)
GiveUp ==
    /\ run = "open" /\ (pc = "waiting" => queue # <<>>) /\ Use("fail")
    /\ Ends
    /\ UNCHANGED <<due, begun, thread, blessed, history>>

Step == Open \/ Lapse \/ Read \/ SignalYes \/ AnswerYes \/ Decline \/ Clarify
----------------------------------------------------------------------------
(* A reply on the thread is signalled to the run that is stamped with it,  *)
(* unless that is late; without such a run it is no answer (Dispatch).     *)
Reply ==
    /\ thread # <<>> /\ Use("reply")
    /\ \E means \in Verdicts :
          thread' = Append(thread, [from |-> "owner", means |-> means])
    /\ queue' \in IF run = "open" /\ pc # "opening"
                  THEN {queue, Append(queue, Len(thread'))} ELSE {queue}
    /\ UNCHANGED <<run, pc, current, due, begun, blessed, history>>

(* The look-up and the signal are activities that are tried again, and the *)
(* signal names the id alone: a reply can be delivered late and more than  *)
(* once, to a later run with this id too.                                  *)
Again ==
    /\ run = "open" /\ Use("again")
    /\ \E i \in DOMAIN thread :
          /\ thread[i].from = "owner"
          /\ queue' = Append(queue, i) /\ retried' = retried \cup {i}
    /\ UNCHANGED <<run, pc, current, due, begun, thread, blessed, used>>

(* "stop auto-handling": the rule loses the blessing, whatever the run is  *)
(* doing.                                                                  *)
StopHandling ==
    /\ blessed /\ blessed' = FALSE
    /\ UNCHANGED <<conversation, thread, history, spare>>

ConsentInit ==
    /\ run = "none" /\ pc = "over" /\ queue = <<>> /\ current = NoReply
    /\ due = FALSE /\ thread = <<>> /\ blessed = FALSE /\ begun = 0
    /\ used = {} /\ retried = {} /\ spare = Mishaps

ConsentNext ==
    Step \/ Start \/ Forget \/ Deadline \/ GiveUp \/ Reply \/ Again
      \/ StopHandling
ConsentSpec == ConsentInit /\ [][ConsentNext]_consentVars

(* Temporal runs an open conversation, and its patience ends.              *)
FairSpec ==
    ConsentSpec /\ WF_consentVars(Step) /\ WF_consentVars(Deadline)
----------------------------------------------------------------------------
ConsentTypeOK ==
    /\ run \in {"none", "open", "closed"}
    /\ pc \in {"over", "opening", "waiting", "blessing", "answering",
               "decline", "unclear"}
    /\ run = "open" <=> pc # "over"
    /\ \A i \in DOMAIN queue : queue[i] \in DOMAIN thread
    /\ current \in 0 .. Len(thread) /\ begun \in 0 .. Len(thread)
    /\ due \in BOOLEAN /\ blessed \in BOOLEAN
    /\ thread \in Seq(Email) /\ spare \in [MishapKinds -> Nat]
    /\ used \subseteq DOMAIN thread /\ retried \subseteq DOMAIN thread

(* A rule is blessed by a reply of the owner that means yes, never by one  *)
(* in doubt; and a reply counts once and for the run that was open when he *)
(* wrote it, whatever he stops and asks for in between, except the very    *)
(* reply that was delivered late or once more, or accepted in two attempts *)
(* (signal_offer names no run; accept_offer signals before it answers).    *)
OnlyYesBlesses ==
    [][~blessed /\ blessed' =>
          /\ current \in DOMAIN thread
          /\ thread[current].from = "owner"
          /\ thread[current].means = "accept"
          /\ current \in retried \/ (current > begun /\ current \notin used)
      ]_consentVars

(* The same without the exception is refuted: a yes accepted in two        *)
(* attempts undoes a stop that came between them (accept_offer), and a yes *)
(* to an earlier run, delivered late, answers the next (signal_offer).     *)
EachYesOnce ==
    [][~blessed /\ blessed' =>
          current > begun /\ current \notin used]_consentVars

(* "a retry never double-sends but each distinct unclear reply gets        *)
(* exactly one ack": no label is on the thread twice.                      *)
SentOnce ==
    \A i, j \in DOMAIN thread :
        thread[i].from = "agent" /\ thread[j].from = "agent"
            /\ thread[i].label = thread[j].label => i = j

(* A conversation ends, by an answer or with its patience, however often   *)
(* the owner writes and a reply is delivered.                              *)
ConversationEnds == run = "open" ~> run # "open"

(* command_types.py: "a later command after the confirm closed re-opens a  *)
(* fresh one": the owner has been asked again.                             *)
ReadBackSent ==
    pc = "waiting" => \E i \in Labelled([k |-> "ask"]) : i > begun

(* mail/client.py: "the reply loops back to the agent and the owner never  *)
(* sees it.  Pass the owners to deliver it."                               *)
AnswersReachOwner ==
    \A i \in DOMAIN thread :
        thread[i].from = "agent" => thread[i].to = "owners"
==============================================================================
