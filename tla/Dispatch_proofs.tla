--------------------------- MODULE Dispatch_proofs ---------------------------
(***************************************************************************)
(* Proofs about the inbound dispatch: for any messages, threads, readings  *)
(* of the models, lost attempts, failures and repeated posts, nothing is   *)
(* done on an untrusted word, a message goes one way, and an answer to an  *)
(* open offer arrives.                                                     *)
(***************************************************************************)
EXTENDS Dispatch, FiniteSetTheorems, TLAPS

ThreadWork  == {"transaction", "offer", "balance"}
CommandWork == {"command", "bless", "revoke", "signal", "reply", "list"}
(* Steps before a message has been told to go anywhere.                    *)
Early == {"idle", "resolve", "offer?", "balance?", "route", "interpret",
          "quarantine"}
Trusting == ThreadWork \cup CommandWork \cup {"interpret", "receipt"}
Places == Working \cup {"idle", "route", "page", "quarantine", "done",
                        "failed"}
Results == ThreadWork \cup {"none", "ignore", "quarantine", "interpret",
                            "nobody", "receipt", "command"}

TypeInv ==
    /\ TypeOK
    /\ action \in [Messages -> Results]
    /\ pc \in [Messages -> Places]
    /\ saw \in [Messages -> {"nothing", "unblessed", "blessed"}]
    /\ \A k \in Kinds : left[k] <= Bounds[k]

Trusted(m)   == m.signed /\ ~m.auto /\ m.from = "owner"
Commanded(m) == \/ m \in revokedBy \cup confirms
                \/ \E r \in replies : r.message = m

(* What was trusted to go further is the owner's, and before that nothing  *)
(* has come of it.                                                         *)
Boundary(m) ==
    /\ pc[m] # "idle" => m.signed
    /\ pc[m] = "quarantine" => m.from = "stranger" /\ action[m] = "quarantine"
    /\ pc[m] \in Trusting => Trusted(m)
    /\ Acted(m) => Trusted(m)
    /\ pc[m] \in Early => ~Acted(m)

(* The result of a dispatch is settled before anything is done, and tells  *)
(* what was done.                                                          *)
OnItsWay(m) ==
    /\ pc[m] \in {"idle", "resolve", "offer?", "balance?"}
         => found[m] = "nobody"
    /\ pc[m] \in ThreadWork  => action[m] = pc[m] /\ found[m] = pc[m]
    /\ pc[m] = "receipt"     => action[m] = "receipt"
    /\ pc[m] \in CommandWork => action[m] = "command"
    /\ Delivered(m)  => action[m] \in ThreadWork
    /\ m \in parked  => action[m] = "receipt"
    /\ Commanded(m)  => action[m] = "command"

(* Whoever was found for a thread has not closed since, or the message is  *)
(* known to have raced with its end.                                       *)
Conversations == {"offer", "balance"}
Seeks(m) == \/ pc[m] = "route" /\ found[m] \in Conversations
            \/ pc[m] \in Conversations
Heard(m) ==
    /\ found[m] # "nobody" => m.thread \in Threads
                                /\ Family(m.thread) = found[m]
    /\ Seeks(m) => thread[m.thread] = "running" \/ m \in raced
    /\ pc[m] = "done" /\ action[m] \in Conversations
         => Delivered(m) \/ m \in raced \/ Used("outage") > 0

(* A rule that stood has been revoked, or still stands.                    *)
Honest(m) ==
    /\ pc[m] = "signal" => blessed \/ revokedBy # {}
    /\ saw[m] = "blessed" => revokedBy # {}

MessageInv(m) == Boundary(m) /\ OnItsWay(m) /\ Heard(m) /\ Honest(m)
IInv == TypeInv /\ DoneIsDone /\ \A m \in Messages : MessageInv(m)

(* -- What a step leaves alone --------------------------------------------- *)
(* The message's own dispatch and what came of it.                         *)
Flow(m)  == <<pc[m], found[m], action[m], saw[m]>>
DidSame(m) ==
    /\ Delivered(m)' <=> Delivered(m)
    /\ (m \in parked') <=> (m \in parked)
    /\ Commanded(m)' <=> Commanded(m)

(* What it relies on of the world.                                         *)
WorldKept ==
    /\ raced \subseteq raced' /\ revokedBy \subseteq revokedBy'
    /\ blessed => blessed' \/ revokedBy' # {}
    /\ \A k \in Kinds : left'[k] <= left[k]
    /\ left' \in [Kinds -> Nat]
ThreadKept(m) ==
    m.thread \in Threads /\ thread[m.thread] = "running"
        => thread'[m.thread] = "running" \/ m \in raced' \/ ~Seeks(m)

LEMMA OutageKept ==
    ASSUME TypeInv, WorldKept
    PROVE  /\ Used("outage") > 0 => Used("outage")' > 0
           /\ \A k \in Kinds : left'[k] <= Bounds[k]
  <1>1. "outage" \in Kinds
    BY DEF Kinds
  <1>2. /\ left \in [Kinds -> Nat] /\ left' \in [Kinds -> Nat]
        /\ Bounds \in [Kinds -> Nat]
        /\ \A k \in Kinds : left'[k] <= left[k] /\ left[k] <= Bounds[k]
    BY DispatchAssumption DEF TypeInv, TypeOK, WorldKept
  <1> QED  BY <1>1, <1>2 DEF Used

LEMMA Untouched ==
    ASSUME IInv, NEW m \in Messages, UNCHANGED Flow(m), DidSame(m),
           WorldKept, ThreadKept(m)
    PROVE  MessageInv(m)'
  <1>0. /\ pc'[m] = pc[m] /\ found'[m] = found[m] /\ action'[m] = action[m]
        /\ saw'[m] = saw[m] /\ MessageInv(m)
    BY DEF IInv, Flow
  <1>1. Acted(m)' <=> Acted(m)
    BY DEF DidSame, Acted, Commanded
  <1>2. Boundary(m)'
    BY <1>0, <1>1 DEF MessageInv, Boundary
  <1>3. OnItsWay(m)'
    BY <1>0 DEF MessageInv, OnItsWay, DidSame
  <1>4. Heard(m)'
    <2>1. found'[m] # "nobody" => m.thread \in Threads
                                    /\ Family(m.thread) = found'[m]
      BY <1>0 DEF MessageInv, Heard
    <2>2. Seeks(m)' => thread'[m.thread] = "running" \/ m \in raced'
      <3>1. Seeks(m)' <=> Seeks(m)
        BY <1>0 DEF Seeks
      <3>2. Seeks(m) => m.thread \in Threads
        BY <1>0 DEF MessageInv, Heard, OnItsWay, Seeks, Conversations,
                    ThreadWork
      <3> QED  BY <1>0, <3>1, <3>2
               DEF MessageInv, Heard, ThreadKept, WorldKept
    <2>3. pc'[m] = "done" /\ action'[m] \in Conversations
            => Delivered(m)' \/ m \in raced' \/ Used("outage")' > 0
      BY <1>0, OutageKept
      DEF MessageInv, Heard, DidSame, WorldKept, IInv
    <2> QED  BY <2>1, <2>2, <2>3 DEF Heard
  <1>5. Honest(m)'
    BY <1>0 DEF MessageInv, Honest, WorldKept
  <1> QED  BY <1>2, <1>3, <1>4, <1>5 DEF MessageInv

LEMMA Spends ==
    ASSUME TypeInv, NEW k \in Kinds, Use(k) \/ UNCHANGED left
    PROVE  left' \in [Kinds -> Nat] /\ \A j \in Kinds : left'[j] <= left[j]
  <1>1. left \in [Kinds -> Nat]
    BY DEF TypeInv, TypeOK
  <1>2. CASE Use(k)
    BY <1>1, <1>2 DEF Use
  <1> QED  BY <1>1, <1>2

(* A step of m: the other messages keep their flow and what came of them.  *)
StepOf(m) ==
    \A n \in Messages \ {m} :
        UNCHANGED Flow(n) /\ DidSame(n) /\ ThreadKept(n)
LEMMA StepOfOne ==
    ASSUME IInv, NEW m \in Messages, StepOf(m), WorldKept,
           TypeInv', DoneIsDone', MessageInv(m)'
    PROVE  IInv'
  <1>1. ASSUME NEW n \in Messages \ {m} PROVE MessageInv(n)'
    BY <1>1, Untouched DEF StepOf
  <1> QED  BY <1>1 DEF IInv

(* -- Steps that only move the message on ---------------------------------- *)
LEMMA GoesTyped ==
    ASSUME TypeInv, NEW m \in Messages, NEW to \in Places, Goes(m, to)
    PROVE  /\ pc' \in [Messages -> Places] /\ pc'[m] = to
           /\ \A n \in Messages \ {m} : pc'[n] = pc[n]
  BY DEF TypeInv, Goes

LEMMA DoesTyped ==
    ASSUME TypeInv, NEW m \in Messages, NEW to \in Places,
           NEW result \in Results, Does(m, to, result)
    PROVE  /\ pc' \in [Messages -> Places] /\ pc'[m] = to
           /\ action' \in [Messages -> Results] /\ action'[m] = result
           /\ \A n \in Messages \ {m} : pc'[n] = pc[n]
                                          /\ action'[n] = action[n]
  BY DEF TypeInv, Goes, Does

FlowTyped ==
    /\ pc' \in [Messages -> Places] /\ action' \in [Messages -> Results]
    /\ found' \in [Messages -> {"nobody"} \cup ThreadWork]
    /\ saw' \in [Messages -> {"nothing", "unblessed", "blessed"}]

(* Nothing is done, and no other message moves.                            *)
LEMMA Moves ==
    ASSUME IInv, NEW m \in Messages, UNCHANGED <<worlds, raced>>,
           UNCHANGED <<inbox, revokedBy, confirms, parked, replies>>,
           pages' \subseteq {n.id : n \in Messages} \cup {"stranger"},
           posted' \subseteq Messages, FlowTyped,
           \A n \in Messages \ {m} : UNCHANGED Flow(n),
           left' \in [Kinds -> Nat], \A k \in Kinds : left'[k] <= left[k],
           DidSame(m) /\ (Acted(m)' <=> Acted(m)) => MessageInv(m)'
    PROVE  IInv'
  <1>1. WorldKept
    BY DEF worlds, WorldKept
  <1>2. TypeInv'
    BY <1>1, OutageKept
    DEF IInv, TypeInv, TypeOK, FlowTyped, worlds, Places, ThreadWork
  <1>3. \A n \in Messages : DidSame(n) /\ ThreadKept(n)
    BY DEF worlds, DidSame, ThreadKept, Delivered, Commanded
  <1>4. Acted(m)' <=> Acted(m)
    BY <1>3 DEF DidSame, Acted, Commanded
  <1>5. DoneIsDone'
    BY DEF IInv, DoneIsDone
  <1> QED  BY <1>1, <1>2, <1>3, <1>4, <1>5, StepOfOne DEF StepOf

LEMMA WebhookInv == ASSUME IInv, NEW m \in Messages, Webhook(m) PROVE IInv'
  <1>1. "again" \in Kinds /\ "resolve" \in Places
    BY DEF Kinds, Places, Working
  <1>2. left' \in [Kinds -> Nat] /\ \A k \in Kinds : left'[k] <= left[k]
    BY <1>1, Spends DEF IInv, Webhook
  <1>3. /\ FlowTyped /\ posted' \subseteq Messages
        /\ \A n \in Messages \ {m} : UNCHANGED Flow(n)
    BY <1>1, GoesTyped
    DEF Webhook, IInv, TypeInv, TypeOK, FlowTyped, Flow, ThreadWork
  <1>4. ASSUME DidSame(m), Acted(m)' <=> Acted(m) PROVE MessageInv(m)'
    <2>1. CASE pc[m] = "idle"
      <3>1. pc'[m] = "resolve"
        BY <1>1, <2>1, GoesTyped DEF Webhook, IInv
      <3>2. Boundary(m)'
        BY <1>4, <2>1, <3>1
        DEF Boundary, Webhook, Trusting, ThreadWork, CommandWork, Early, IInv,
            MessageInv
      <3>3. OnItsWay(m)'
        BY <1>4, <3>1 DEF OnItsWay, Webhook, ThreadWork, CommandWork, IInv,
                          MessageInv, DidSame
      <3>4. Heard(m)' /\ Honest(m)'
        BY <3>1 DEF Heard, Honest, Seeks, Conversations, Webhook, worlds,
                    effects, IInv, MessageInv
      <3> QED  BY <3>2, <3>3, <3>4 DEF MessageInv
    <2>2. CASE pc[m] # "idle"
      <3>1. UNCHANGED Flow(m)
        BY <2>2 DEF Webhook, Flow
      <3>2. WorldKept /\ ThreadKept(m)
        BY <1>2 DEF WorldKept, ThreadKept, Webhook, worlds, effects
      <3> QED  BY <1>4, <3>1, <3>2, Untouched
    <2> QED  BY <2>1, <2>2
  <1> QED
    BY <1>2, <1>3, <1>4, Moves DEF Webhook, effects, IInv, TypeInv, TypeOK

(* Whoever is found owns the thread and, if it can end, has not ended.     *)
LEMMA ResolveInv ==
    ASSUME IInv, NEW m \in Messages,
           NEW at \in {"resolve", "offer?", "balance?"},
           NEW kind \in ThreadWork,
           NEW miss \in {"offer?", "balance?", "route"},
           Resolve(m, at, kind, miss)
    PROVE  IInv'
  <1>1. miss \in Places /\ "route" \in Places
    BY DEF Places, Working
  <1>2. left' \in [Kinds -> Nat] /\ \A k \in Kinds : left'[k] <= left[k]
    BY DEF IInv, TypeInv, TypeOK, Resolve
  <1>3. \/ /\ Owns(kind, m.thread) /\ pc'[m] = "route"
           /\ found'[m] = kind
        \/ pc'[m] = miss /\ UNCHANGED found
    BY <1>1, GoesTyped DEF Resolve, IInv, TypeInv, TypeOK
  <1>4. /\ FlowTyped /\ \A n \in Messages \ {m} : UNCHANGED Flow(n)
    BY <1>1, GoesTyped
    DEF Resolve, IInv, TypeInv, TypeOK, FlowTyped, Flow, ThreadWork
  <1>5. ASSUME DidSame(m), Acted(m)' <=> Acted(m) PROVE MessageInv(m)'
    <2>1. pc[m] = at /\ pc'[m] \in {"offer?", "balance?", "route"}
      BY <1>3 DEF Resolve
    <2>2. Boundary(m)'
      BY <1>5, <2>1 DEF Boundary, Trusting, ThreadWork, CommandWork, Early,
                        IInv, MessageInv, Resolve
    <2>3. OnItsWay(m)'
      <3>1. OnItsWay(m) /\ action' = action
        BY DEF IInv, MessageInv, Resolve
      <3> QED
        BY <1>3, <1>5, <2>1, <3>1
        DEF OnItsWay, ThreadWork, CommandWork, DidSame
    <2>4. Heard(m)'
      <3>1. m.thread \in Threads \cup {NoThread}
        BY DispatchAssumption DEF Message
      <3>2. found[m] = "nobody"
        BY <2>1 DEF IInv, MessageInv, OnItsWay
      <3>3. thread' = thread
        BY DEF Resolve, worlds
      <3>4. CASE Owns(kind, m.thread) /\ found'[m] = kind
        <4>1. /\ m.thread \in Threads /\ Family(m.thread) = kind
              /\ kind \in Conversations => thread[m.thread] = "running"
          BY <3>1, <3>4 DEF Owns, Conversations
        <4>2. pc'[m] # "done" /\ pc'[m] \notin Conversations
          BY <2>1 DEF Conversations
        <4> QED  BY <3>3, <3>4, <4>1, <4>2 DEF Heard, Seeks
      <3>5. CASE UNCHANGED found
        BY <2>1, <3>2, <3>5 DEF Heard, Seeks, Conversations
      <3> QED  BY <1>3, <3>4, <3>5
    <2>5. Honest(m)'
      BY <2>1 DEF Honest, IInv, MessageInv, Resolve, worlds, effects
    <2> QED  BY <2>2, <2>3, <2>4, <2>5 DEF MessageInv
  <1> QED
    BY <1>2, <1>4, <1>5, Moves DEF Resolve, effects, IInv, TypeInv, TypeOK

(* Only the owner's own word is told where to go.                          *)
LEMMA RouteInv == ASSUME IInv, NEW m \in Messages, Route(m) PROVE IInv'
  <1> DEFINE decision == Decision(m, found[m])
             to == IF decision = "ignore" THEN "done" ELSE decision
  <1>1. found[m] \in {"nobody"} \cup ThreadWork
    BY DEF IInv, TypeInv, TypeOK, ThreadWork
  <1>2. decision \in {"ignore", "quarantine", "interpret"} \cup ThreadWork
    BY <1>1 DEF Decision, Routed, ThreadWork
  <1>3. /\ decision \in {"interpret"} \cup ThreadWork =>
              Trusted(m) /\ (decision = "interpret" \/ decision = found[m])
        /\ decision = "quarantine" => m.from = "stranger"
    <2>1. m.signed
      BY DEF IInv, MessageInv, Boundary, Route
    <2>2. m.from \in {"owner", "stranger", "daemon"} /\ m.auto \in BOOLEAN
          /\ m.signed \in BOOLEAN
      BY DispatchAssumption DEF Message
    <2> QED
      BY <1>1, <2>1, <2>2 DEF Decision, Routed, Trusted, ThreadWork
  <1>4. to \in Places /\ decision \in Results
    BY <1>2 DEF Places, Working, Results, ThreadWork
  <1>5. Does(m, to, decision)
    BY DEF Route
  <1>6. /\ pc' \in [Messages -> Places] /\ pc'[m] = to
        /\ action' \in [Messages -> Results] /\ action'[m] = decision
        /\ \A n \in Messages \ {m} : pc'[n] = pc[n] /\ action'[n] = action[n]
    BY <1>4, <1>5, DoesTyped DEF IInv
  <1>7. FlowTyped /\ \A n \in Messages \ {m} : UNCHANGED Flow(n)
    BY <1>6 DEF Route, IInv, TypeInv, TypeOK, FlowTyped, Flow, ThreadWork
  <1>8. ASSUME DidSame(m), Acted(m)' <=> Acted(m) PROVE MessageInv(m)'
    <2>1. pc[m] = "route" /\ ~Acted(m) /\ m.signed
      BY DEF Route, IInv, MessageInv, Boundary, Early
    <2>2. Boundary(m)'
      BY <1>2, <1>3, <1>6, <1>8, <2>1
      DEF Boundary, Trusting, ThreadWork, CommandWork, Early
    <2>3. OnItsWay(m)'
      <3>1. ~Delivered(m) /\ m \notin parked /\ ~Commanded(m)
        BY <2>1 DEF Acted, Commanded
      <3> QED
        BY <1>2, <1>3, <1>6, <1>8, <3>1
        DEF OnItsWay, ThreadWork, CommandWork, DidSame, Route
    <2>4. Heard(m)'
      <3>1. MessageInv(m)
        BY DEF IInv
      <3> QED
        BY <1>2, <1>3, <1>6, <2>1, <3>1
        DEF Heard, Seeks, Conversations, MessageInv, Route, worlds,
            ThreadWork
    <2>5. Honest(m)'
      <3>1. MessageInv(m)
        BY DEF IInv
      <3> QED
        BY <1>2, <1>6, <3>1
        DEF Honest, MessageInv, Route, worlds, effects, ThreadWork
    <2> QED  BY <2>2, <2>3, <2>4, <2>5 DEF MessageInv
  <1> QED
    BY <1>7, <1>8, Moves DEF Route, effects, IInv, TypeInv, TypeOK

(* The words of an owner's new thread, as the model reads them.            *)
LEMMA ClassifyInboundInv ==
    ASSUME IInv, NEW m \in Messages, ClassifyInbound(m) PROVE IInv'
  <1>1. PICK verdict \in m.verdicts :
           IF verdict = "noise" THEN Does(m, "done", "ignore")
           ELSE Does(m, verdict, verdict)
    BY DEF ClassifyInbound
  <1>2. verdict \in {"receipt", "command", "noise"}
    BY <1>1, DispatchAssumption DEF Message, Verdicts
  <1> DEFINE to == IF verdict = "noise" THEN "done" ELSE verdict
             result == IF verdict = "noise" THEN "ignore" ELSE verdict
  <1>3. to \in Places /\ result \in Results /\ Does(m, to, result)
    BY <1>1, <1>2 DEF Places, Working, Results
  <1>4. /\ pc' \in [Messages -> Places] /\ pc'[m] = to
        /\ action' \in [Messages -> Results] /\ action'[m] = result
        /\ \A n \in Messages \ {m} : pc'[n] = pc[n] /\ action'[n] = action[n]
    BY <1>3, DoesTyped DEF IInv
  <1>5. FlowTyped /\ \A n \in Messages \ {m} : UNCHANGED Flow(n)
    BY <1>4
    DEF ClassifyInbound, IInv, TypeInv, TypeOK, FlowTyped, Flow, ThreadWork
  <1>6. ASSUME DidSame(m), Acted(m)' <=> Acted(m) PROVE MessageInv(m)'
    <2>1. /\ pc[m] = "interpret" /\ ~Acted(m) /\ m.signed /\ Trusted(m)
          /\ MessageInv(m)
      BY DEF ClassifyInbound, IInv, MessageInv, Boundary, Early, Trusting
    <2>2. Boundary(m)'
      BY <1>2, <1>4, <1>6, <2>1 DEF Boundary, Early
    <2>3. OnItsWay(m)'
      <3>1. ~Delivered(m) /\ m \notin parked /\ ~Commanded(m)
        BY <2>1 DEF Acted, Commanded
      <3> QED
        BY <1>2, <1>4, <1>6, <3>1
        DEF OnItsWay, ThreadWork, CommandWork, DidSame
    <2>4. Heard(m)' /\ Honest(m)'
      BY <1>2, <1>4, <2>1
      DEF Heard, Honest, Seeks, Conversations, MessageInv, ClassifyInbound,
          worlds, effects
    <2> QED  BY <2>2, <2>3, <2>4 DEF MessageInv
  <1> QED
    BY <1>5, <1>6, Moves
    DEF ClassifyInbound, effects, IInv, TypeInv, TypeOK

(* A command's own steps before it does anything, and a message that is    *)
(* given up: what it was told stays settled.                               *)
LEMMA LaterInv ==
    ASSUME IInv, NEW m \in Messages, NEW to \in Places, Goes(m, to),
           UNCHANGED <<worlds, effects, posted, raced, found, action>>,
           saw' \in [Messages -> {"nothing", "unblessed", "blessed"}],
           \A n \in Messages \ {m} : saw'[n] = saw[n],
           saw'[m] = "blessed" => saw[m] = "blessed",
           left' \in [Kinds -> Nat], \A k \in Kinds : left'[k] <= left[k],
           pc[m] \in Working,
           \/ to = "page"
           \/ pc[m] \in CommandWork /\ to \in CommandWork \cup {"done"},
           to = "signal" => blessed
    PROVE  IInv'
  <1>1. /\ pc' \in [Messages -> Places] /\ pc'[m] = to
        /\ \A n \in Messages \ {m} : pc'[n] = pc[n]
    BY GoesTyped DEF IInv
  <1>2. FlowTyped /\ \A n \in Messages \ {m} : UNCHANGED Flow(n)
    BY <1>1 DEF IInv, TypeInv, TypeOK, FlowTyped, Flow, ThreadWork
  <1>3. ASSUME DidSame(m), Acted(m)' <=> Acted(m) PROVE MessageInv(m)'
    <2>1. MessageInv(m) /\ pc[m] # "idle"
      BY DEF IInv, Working
    <2>2. Boundary(m)'
      BY <1>1, <1>3, <2>1
      DEF Boundary, MessageInv, Trusting, ThreadWork, CommandWork, Early
    <2>3. OnItsWay(m)'
      BY <1>1, <1>3, <2>1
      DEF OnItsWay, MessageInv, ThreadWork, CommandWork, DidSame
    <2>4. Heard(m)'
      BY <1>1, <2>1
      DEF Heard, Seeks, Conversations, MessageInv, OnItsWay, CommandWork
    <2>5. Honest(m)'
      BY <1>1, <2>1 DEF Honest, MessageInv, worlds, effects
    <2> QED  BY <2>2, <2>3, <2>4, <2>5 DEF MessageInv
  <1> QED  BY <1>2, <1>3, Moves DEF effects, IInv, TypeInv, TypeOK

LEMMA ReadCommandInv ==
    ASSUME IInv, NEW m \in Messages, ReadCommand(m) PROVE IInv'
  <1>1. PICK reading \in m.readings :
           Goes(m, IF reading = "other" THEN "done" ELSE reading)
    BY DEF ReadCommand
  <1>2. reading \in {"bless", "revoke", "list", "other"}
    BY <1>1, DispatchAssumption DEF Message, Readings
  <1> DEFINE to == IF reading = "other" THEN "done" ELSE reading
  <1>3. to \in Places /\ to \in CommandWork \cup {"done"} /\ to # "signal"
        /\ pc[m] \in CommandWork /\ pc[m] \in Working
    BY <1>2 DEF Places, Working, CommandWork, ReadCommand
  <1>4. left' \in [Kinds -> Nat] /\ \A k \in Kinds : left'[k] <= left[k]
    BY DEF IInv, TypeInv, TypeOK, ReadCommand
  <1>5. /\ saw' \in [Messages -> {"nothing", "unblessed", "blessed"}]
        /\ \A n \in Messages \ {m} : saw'[n] = saw[n]
        /\ saw'[m] = "nothing"
    BY DEF IInv, TypeInv, ReadCommand
  <1> QED  BY <1>1, <1>3, <1>4, <1>5, LaterInv DEF ReadCommand

LEMMA ViewRegistryInv ==
    ASSUME IInv, NEW m \in Messages, ViewRegistry(m) PROVE IInv'
  <1>1. "outage" \in Kinds /\ "signal" \in Places /\ "reply" \in Places
    BY DEF Kinds, Places, Working
  <1>2. left' \in [Kinds -> Nat] /\ \A k \in Kinds : left'[k] <= left[k]
    BY <1>1, Spends DEF IInv, ViewRegistry
  <1>3. PICK to \in {"signal", "reply"} :
           /\ Goes(m, to) /\ (to = "signal" => blessed)
           /\ \/ UNCHANGED saw
              \/ saw' = [saw EXCEPT ![m] = "unblessed"]
    BY DEF ViewRegistry
  <1>4. /\ saw' \in [Messages -> {"nothing", "unblessed", "blessed"}]
        /\ \A n \in Messages \ {m} : saw'[n] = saw[n]
        /\ saw'[m] = "blessed" => saw[m] = "blessed"
    BY <1>3 DEF IInv, TypeInv
  <1>5. to \in CommandWork /\ pc[m] \in CommandWork /\ pc[m] \in Working
    BY DEF CommandWork, Working, ViewRegistry
  <1> QED  BY <1>1, <1>2, <1>3, <1>4, <1>5, LaterInv DEF ViewRegistry

LEMMA GiveUpInv == ASSUME IInv, NEW m \in Messages, GiveUp(m) PROVE IInv'
  <1>1. "fault" \in Kinds /\ "page" \in Places
    BY DEF Kinds, Places
  <1>2. left' \in [Kinds -> Nat] /\ \A k \in Kinds : left'[k] <= left[k]
    BY <1>1, Spends DEF IInv, GiveUp
  <1> QED  BY <1>1, <1>2, LaterInv DEF GiveUp, IInv, TypeInv

(* -- Steps that do something ---------------------------------------------- *)
LEMMA EndsTyped ==
    ASSUME TypeInv, NEW m \in Messages, NEW to \in Places,
           NEW from \in Places, Ends(m, to, from)
    PROVE  /\ pc' \in [Messages -> Places] /\ pc'[m] \in {to, from}
           /\ \A n \in Messages \ {m} : pc'[n] = pc[n]
           /\ left' \in [Kinds -> Nat]
           /\ \A k \in Kinds : left'[k] <= left[k]
  <1>1. "lost" \in Kinds
    BY DEF Kinds
  <1>2. left' \in [Kinds -> Nat] /\ \A k \in Kinds : left'[k] <= left[k]
    BY <1>1, Spends DEF Ends
  <1> QED  BY <1>2, GoesTyped DEF Ends

LEMMA DeliversTyped ==
    ASSUME TypeInv, NEW m \in Messages, m.thread \in Threads,
           Delivers(m) \/ UNCHANGED inbox
    PROVE  /\ inbox' \in [Threads -> SUBSET Messages]
           /\ \A t \in Threads : \A n \in inbox'[t] : n.thread = t
           /\ \A n \in Messages \ {m} : Delivered(n)' <=> Delivered(n)
           /\ Delivers(m) => Delivered(m)'
  <1>1. /\ inbox \in [Threads -> SUBSET Messages]
        /\ \A t \in Threads : \A n \in inbox[t] : n.thread = t
    BY DEF TypeInv, TypeOK
  <1>2. CASE UNCHANGED inbox
    <2>1. Delivers(m) => m \in inbox'[m.thread]
      BY <1>1, <1>2 DEF Delivers
    <2> QED  BY <1>1, <1>2, <2>1 DEF Delivered
  <1>3. CASE Delivers(m)
    BY <1>1, <1>3 DEF Delivers, Delivered
  <1> QED  BY <1>2, <1>3

(* A message is signalled to the conversation it belongs to.               *)
LEMMA DeliveringInv ==
    ASSUME IInv, NEW m \in Messages, pc[m] \in ThreadWork,
           Delivers(m) \/ UNCHANGED inbox,
           UNCHANGED <<blessed, revokedBy, confirms, parked, replies, pages,
                       posted, found, action, saw, raced>>,
           pc' \in [Messages -> Places], pc'[m] \in {"done", pc[m]},
           \A n \in Messages \ {m} : pc'[n] = pc[n],
           left' \in [Kinds -> Nat], \A k \in Kinds : left'[k] <= left[k],
           thread' \in [Threads -> {"unstamped", "running", "closed"}],
           \A t \in Threads : thread[t] = "running" => thread'[t] = "running",
           pc'[m] = "done" /\ action[m] \in Conversations
             => Delivered(m)' \/ m \in raced \/ Used("outage")' > 0
    PROVE  IInv'
  <1>1. /\ MessageInv(m) /\ Trusted(m) /\ action[m] = pc[m]
        /\ found[m] = pc[m] /\ pc[m] # "idle"
    BY DEF IInv, MessageInv, Boundary, OnItsWay, Trusting, ThreadWork
  <1>2. m.thread \in Threads
    BY <1>1 DEF MessageInv, Heard, ThreadWork
  <1>3. WorldKept
    BY DEF WorldKept
  <1>4. TypeInv'
    BY <1>2, <1>3, DeliversTyped, OutageKept DEF IInv, TypeInv, TypeOK, Places
  <1>5. StepOf(m)
    BY <1>2, DeliversTyped
    DEF IInv, StepOf, Flow, DidSame, ThreadKept, Commanded
  <1>6. MessageInv(m)'
    <2>1. Boundary(m)'
      BY <1>1 DEF Boundary, MessageInv, Trusting, ThreadWork, CommandWork,
                  Early, Trusted
    <2>2. OnItsWay(m)'
      BY <1>1 DEF OnItsWay, MessageInv, ThreadWork, CommandWork, Commanded
    <2>3. Heard(m)'
      BY <1>1, <1>2
      DEF Heard, MessageInv, Seeks, Conversations, ThreadWork
    <2>4. Honest(m)'
      BY <1>1 DEF Honest, MessageInv, ThreadWork
    <2> QED  BY <2>1, <2>2, <2>3, <2>4 DEF MessageInv
  <1>7. DoneIsDone'
    BY DEF IInv, DoneIsDone
  <1> QED  BY <1>3, <1>4, <1>5, <1>6, <1>7, StepOfOne

LEMMA SignalTransactionInv ==
    ASSUME IInv, NEW m \in Messages, SignalTransaction(m) PROVE IInv'
  <1>1. pc[m] = "transaction" /\ pc[m] \in ThreadWork
    BY DEF SignalTransaction, ThreadWork
  <1>2. "done" \in Places /\ "transaction" \in Places
    BY DEF Places, Working
  <1>3. /\ pc' \in [Messages -> Places] /\ pc'[m] \in {"done", pc[m]}
        /\ \A n \in Messages \ {m} : pc'[n] = pc[n]
        /\ left' \in [Kinds -> Nat]
        /\ \A k \in Kinds : left'[k] <= left[k]
    BY <1>1, <1>2, EndsTyped DEF SignalTransaction, IInv
  <1>4. action[m] = "transaction"
    BY <1>1 DEF IInv, MessageInv, OnItsWay
  <1>5. /\ thread' \in [Threads -> {"unstamped", "running", "closed"}]
        /\ \A t \in Threads : thread[t] = "running" => thread'[t] = "running"
    BY DEF SignalTransaction, IInv, TypeInv, TypeOK
  <1>6. action[m] \notin Conversations
    BY <1>4 DEF Conversations
  <1> QED
    BY <1>1, <1>3, <1>5, <1>6, DeliveringInv DEF SignalTransaction

LEMMA SignalOfferInv ==
    ASSUME IInv, NEW m \in Messages, SignalOffer(m) PROVE IInv'
  <1>1. pc[m] \in Conversations /\ pc[m] \in ThreadWork /\ pc[m] \in Places
    BY DEF SignalOffer, ThreadWork, Conversations, Places, Working
  <1>2. "done" \in Places /\ "outage" \in Kinds
    BY DEF Places, Kinds
  <1>3. /\ m.thread \in Threads
        /\ thread[m.thread] = "running" \/ m \in raced
    BY <1>1 DEF IInv, MessageInv, Heard, OnItsWay, Seeks, ThreadWork
  <1>4. /\ thread' \in [Threads -> {"unstamped", "running", "closed"}]
        /\ \A t \in Threads : thread[t] = "running" => thread'[t] = "running"
    BY DEF SignalOffer, worlds, IInv, TypeInv, TypeOK
  <1>5. CASE /\ IF thread[m.thread] # "closed" THEN Delivers(m)
                ELSE UNCHANGED inbox
             /\ Ends(m, "done", pc[m])
    <2>1. /\ pc' \in [Messages -> Places] /\ pc'[m] \in {"done", pc[m]}
          /\ \A n \in Messages \ {m} : pc'[n] = pc[n]
          /\ left' \in [Kinds -> Nat]
          /\ \A k \in Kinds : left'[k] <= left[k]
      BY <1>1, <1>2, <1>5, EndsTyped DEF IInv
    <2>2. Delivered(m)' \/ m \in raced
      BY <1>3, <1>5, DeliversTyped DEF IInv
    <2> QED
      BY <1>1, <1>4, <1>5, <2>1, <2>2, DeliveringInv DEF SignalOffer, worlds
  <1>6. CASE Goes(m, "done") /\ Use("outage") /\ UNCHANGED inbox
    <2>1. /\ pc' \in [Messages -> Places] /\ pc'[m] = "done"
          /\ \A n \in Messages \ {m} : pc'[n] = pc[n]
      BY <1>2, <1>6, GoesTyped DEF IInv
    <2>2. /\ left' \in [Kinds -> Nat]
          /\ \A k \in Kinds : left'[k] <= left[k]
      BY <1>2, <1>6, Spends DEF IInv
    <2>3. Used("outage")' > 0
      <3>1. /\ left["outage"] \in Nat /\ Bounds["outage"] \in Nat
            /\ left["outage"] <= Bounds["outage"]
        BY <1>2, DispatchAssumption DEF IInv, TypeInv, TypeOK
      <3>2. left'["outage"] = left["outage"] - 1
        BY <1>2, <1>6 DEF Use, IInv, TypeInv, TypeOK
      <3> QED  BY <3>1, <3>2 DEF Used
    <2> QED
      BY <1>1, <1>4, <1>6, <2>1, <2>2, <2>3, DeliveringInv
      DEF SignalOffer, worlds
  <1> QED  BY <1>5, <1>6 DEF SignalOffer

LEMMA RouteReceiptInv ==
    ASSUME IInv, NEW m \in Messages, RouteReceipt(m) PROVE IInv'
  <1>1. "done" \in Places /\ "receipt" \in Places
    BY DEF Places, Working
  <1>2. /\ pc' \in [Messages -> Places] /\ pc'[m] \in {"done", "receipt"}
        /\ \A n \in Messages \ {m} : pc'[n] = pc[n]
        /\ left' \in [Kinds -> Nat]
        /\ \A k \in Kinds : left'[k] <= left[k]
    BY <1>1, EndsTyped DEF RouteReceipt, IInv
  <1>3. /\ MessageInv(m) /\ pc[m] = "receipt" /\ Trusted(m)
        /\ action[m] = "receipt"
    BY DEF RouteReceipt, IInv, MessageInv, Boundary, OnItsWay, Trusting
  <1>4. WorldKept
    BY <1>2 DEF WorldKept, RouteReceipt, worlds
  <1>5. TypeInv'
    BY <1>2, <1>4, OutageKept
    DEF IInv, TypeInv, TypeOK, Places, RouteReceipt, worlds
  <1>6. StepOf(m)
    BY <1>2 DEF RouteReceipt, worlds, StepOf, Flow, DidSame, ThreadKept,
                Commanded, Delivered
  <1>7. MessageInv(m)'
    <2>1. Delivered(m)' <=> Delivered(m)
      BY DEF RouteReceipt, Delivered
    <2>2. Commanded(m)' <=> Commanded(m)
      BY DEF RouteReceipt, Commanded
    <2>3. Boundary(m)'
      BY <1>2, <1>3 DEF Boundary, Trusting, Early, Trusted
    <2>4. OnItsWay(m)'
      BY <1>2, <1>3, <2>1, <2>2
      DEF OnItsWay, MessageInv, ThreadWork, CommandWork, RouteReceipt
    <2>5. Heard(m)' /\ Honest(m)'
      BY <1>2, <1>3
      DEF Heard, Honest, MessageInv, Seeks, Conversations, RouteReceipt,
          worlds
    <2> QED  BY <2>3, <2>4, <2>5 DEF MessageInv
  <1>8. DoneIsDone'
    BY DEF IInv, DoneIsDone, RouteReceipt
  <1> QED  BY <1>4, <1>5, <1>6, <1>7, <1>8, StepOfOne

(* A command changes the registry, opens a read-back or is answered.       *)
LEMMA CommandingInv ==
    ASSUME IInv, NEW m \in Messages, pc[m] \in CommandWork,
           UNCHANGED <<inbox, parked, pages, posted, found, action, raced>>,
           thread' \in [Threads -> {"unstamped", "running", "closed"}],
           \A t \in Threads : thread[t] = "running" => thread'[t] = "running",
           blessed' \in BOOLEAN, blessed => blessed' \/ revokedBy' # {},
           revokedBy' \in {revokedBy, revokedBy \cup {m}},
           confirms' \in {confirms, confirms \cup {m}},
           \A r \in replies' :
              \/ r \in replies
              \/ r.message = m /\ (r.says = "revoked" => revokedBy # {}),
           replies \subseteq replies',
           pc' \in [Messages -> Places],
           pc'[m] \in (CommandWork \ {"signal"}) \cup {"done"},
           \A n \in Messages \ {m} : pc'[n] = pc[n],
           left' \in [Kinds -> Nat], \A k \in Kinds : left'[k] <= left[k],
           saw' \in [Messages -> {"nothing", "unblessed", "blessed"}],
           \A n \in Messages \ {m} : saw'[n] = saw[n],
           saw'[m] = "blessed" => revokedBy' # {}
    PROVE  IInv'
  <1>1. MessageInv(m) /\ Trusted(m) /\ action[m] = "command"
    BY DEF IInv, MessageInv, Boundary, OnItsWay, Trusting
  <1>2. WorldKept
    BY DEF WorldKept
  <1>3. TypeInv'
    BY <1>2, OutageKept DEF IInv, TypeInv, TypeOK, Places
  <1>4. StepOf(m)
    <2>1. \A n \in Messages \ {m} : Commanded(n)' <=> Commanded(n)
      BY DEF Commanded
    <2> QED  BY <2>1 DEF StepOf, Flow, DidSame, ThreadKept, Delivered
  <1>5. MessageInv(m)'
    <2>1. Delivered(m)' <=> Delivered(m)
      BY DEF Delivered
    <2>2. Boundary(m)'
      BY <1>1 DEF Boundary, Trusting, Early, Trusted, CommandWork
    <2>3. OnItsWay(m)'
      BY <1>1, <2>1 DEF OnItsWay, MessageInv, ThreadWork, CommandWork
    <2>4. Heard(m)' /\ Honest(m)'
      BY <1>1
      DEF Heard, Honest, MessageInv, Seeks, Conversations, CommandWork
    <2> QED  BY <2>2, <2>3, <2>4 DEF MessageInv
  <1>6. DoneIsDone'
    BY DEF IInv, DoneIsDone
  <1> QED  BY <1>2, <1>3, <1>4, <1>5, <1>6, StepOfOne

(* A conversation that is taken up again was over.                         *)
LEMMA ReopensTyped ==
    ASSUME TypeInv, NEW t \in Threads, Reopens(t) \/ UNCHANGED thread
    PROVE  /\ thread' \in [Threads -> {"unstamped", "running", "closed"}]
           /\ \A u \in Threads : thread[u] = "running"
                                   => thread'[u] = "running"
  BY DEF Reopens, TypeInv, TypeOK

LEMMA StartConfirmInv ==
    ASSUME IInv, NEW m \in Messages, StartConfirm(m) PROVE IInv'
  <1>1. "done" \in Places /\ "command" \in Places
    BY DEF Places, Working
  <1>2. /\ pc' \in [Messages -> Places] /\ pc'[m] \in {"done", "command"}
        /\ \A n \in Messages \ {m} : pc'[n] = pc[n]
        /\ left' \in [Kinds -> Nat]
        /\ \A k \in Kinds : left'[k] <= left[k]
    BY <1>1, EndsTyped DEF StartConfirm, IInv
  <1>3. saw[m] = "blessed" => revokedBy # {}
    BY DEF IInv, MessageInv, Honest
  <1>4. /\ thread' \in [Threads -> {"unstamped", "running", "closed"}]
        /\ \A t \in Threads : thread[t] = "running" => thread'[t] = "running"
    <2>1. CASE UNCHANGED thread
      BY <2>1 DEF IInv, TypeInv, TypeOK
    <2>2. CASE \E t \in Threads : Reopens(t)
      BY <2>2, ReopensTyped DEF IInv
    <2> QED  BY <2>1, <2>2 DEF StartConfirm
  <1> QED
    BY <1>2, <1>3, <1>4, CommandingInv
    DEF StartConfirm, CommandWork, IInv, TypeInv, TypeOK

(* A revoke that is signalled finds the rule as it saw it, or revoked.     *)
LEMMA SignalRevokeInv ==
    ASSUME IInv, NEW m \in Messages, SignalRevoke(m) PROVE IInv'
  <1>1. "reply" \in Places /\ "command" \in Places
    BY DEF Places, Working
  <1>2. /\ pc' \in [Messages -> Places] /\ pc'[m] \in {"reply", "command"}
        /\ \A n \in Messages \ {m} : pc'[n] = pc[n]
        /\ left' \in [Kinds -> Nat]
        /\ \A k \in Kinds : left'[k] <= left[k]
    BY <1>1, EndsTyped DEF SignalRevoke, IInv
  <1>3. revokedBy' # {} /\ revokedBy' \in {revokedBy, revokedBy \cup {m}}
    BY DEF SignalRevoke, IInv, MessageInv, Honest
  <1>4. /\ saw' \in [Messages -> {"nothing", "unblessed", "blessed"}]
        /\ \A n \in Messages \ {m} : saw'[n] = saw[n]
    BY DEF SignalRevoke, IInv, TypeInv
  <1> QED
    BY <1>2, <1>3, <1>4, CommandingInv
    DEF SignalRevoke, CommandWork, IInv, TypeInv, TypeOK

LEMMA ReplyRevokeInv ==
    ASSUME IInv, NEW m \in Messages, ReplyRevoke(m) PROVE IInv'
  <1>1. "done" \in Places /\ "command" \in Places
    BY DEF Places, Working
  <1>2. /\ pc' \in [Messages -> Places] /\ pc'[m] \in {"done", "command"}
        /\ \A n \in Messages \ {m} : pc'[n] = pc[n]
        /\ left' \in [Kinds -> Nat]
        /\ \A k \in Kinds : left'[k] <= left[k]
    BY <1>1, EndsTyped DEF ReplyRevoke, IInv
  <1>3. saw[m] = "blessed" => revokedBy # {}
    BY DEF IInv, MessageInv, Honest
  <1>4. /\ replies \subseteq replies'
        /\ \A r \in replies' :
              \/ r \in replies
              \/ r.message = m /\ (r.says = "revoked" => revokedBy # {})
    <2> DEFINE says == IF saw[m] = "blessed" THEN "revoked" ELSE "nothing"
    <2>1. replies' = Answer(m, "revoke", says)
      BY DEF ReplyRevoke
    <2>2. /\ replies \subseteq replies'
          /\ \A r \in replies' :
                r \in replies \/ (r.message = m /\ r.says = says)
      BY <2>1 DEF Answer
    <2>3. says = "revoked" => revokedBy # {}
      BY <1>3
    <2> QED  BY <2>2, <2>3
  <1> QED
    BY <1>2, <1>3, <1>4, CommandingInv
    DEF ReplyRevoke, CommandWork, worlds, IInv, TypeInv, TypeOK

LEMMA ListRulesInv ==
    ASSUME IInv, NEW m \in Messages, ListRules(m) PROVE IInv'
  <1>1. "done" \in Places /\ "command" \in Places
    BY DEF Places, Working
  <1>2. /\ pc' \in [Messages -> Places] /\ pc'[m] \in {"done", "command"}
        /\ \A n \in Messages \ {m} : pc'[n] = pc[n]
        /\ left' \in [Kinds -> Nat]
        /\ \A k \in Kinds : left'[k] <= left[k]
    BY <1>1, EndsTyped DEF ListRules, IInv
  <1>3. saw[m] = "blessed" => revokedBy # {}
    BY DEF IInv, MessageInv, Honest
  <1>4. /\ replies \subseteq replies'
        /\ \A r \in replies' :
              r \in replies \/ (r.message = m /\ r.says = "listed")
    BY DEF ListRules, Answer
  <1> QED
    BY <1>2, <1>3, <1>4, CommandingInv
    DEF ListRules, CommandWork, worlds, IInv, TypeInv, TypeOK

LEMMA PagesInv ==
    ASSUME IInv, NEW m \in Messages, PageFailure(m) \/ PageQuarantine(m)
    PROVE  IInv'
  <1>1. "crowd" \in Kinds /\ "failed" \in Places /\ "done" \in Places
    BY DEF Kinds, Places
  <1>2. MessageInv(m)
    BY DEF IInv
  <1>3. PICK to \in {"failed", "done"}, about \in {m.id, m.from} :
           /\ Pages(m, about, to)
           /\ pc[m] \in {"page", "quarantine"}
           /\ to = "done" => pc[m] = "quarantine"
           /\ about \in {m.id, "stranger"}
    BY <1>2 DEF PageFailure, PageQuarantine, MessageInv, Boundary
  <1>4. left' \in [Kinds -> Nat] /\ \A k \in Kinds : left'[k] <= left[k]
    BY <1>1, <1>3, Spends DEF IInv, Pages
  <1>5. /\ pc' \in [Messages -> Places] /\ pc'[m] = to
        /\ \A n \in Messages \ {m} : pc'[n] = pc[n]
    BY <1>1, <1>3, GoesTyped DEF Pages, IInv
  <1>6. pages' \subseteq {n.id : n \in Messages} \cup {"stranger"}
    BY <1>3 DEF Pages, IInv, TypeInv, TypeOK
  <1>7. FlowTyped /\ \A n \in Messages \ {m} : UNCHANGED Flow(n)
    BY <1>3, <1>5
    DEF Pages, IInv, TypeInv, TypeOK, FlowTyped, Flow, ThreadWork
  <1>8. ASSUME DidSame(m), Acted(m)' <=> Acted(m) PROVE MessageInv(m)'
    <2>1. /\ thread' = thread /\ blessed' = blessed
          /\ UNCHANGED <<revokedBy, found, action, saw, raced>>
      BY <1>3 DEF Pages, worlds
    <2>2. Boundary(m)'
      BY <1>2, <1>3, <1>5, <1>8
      DEF Boundary, MessageInv, Trusting, ThreadWork, CommandWork, Early
    <2>3. OnItsWay(m)'
      BY <1>2, <1>3, <1>5, <1>8, <2>1
      DEF OnItsWay, MessageInv, ThreadWork, CommandWork, DidSame
    <2>4. Heard(m)'
      <3>1. pc'[m] = "done" => action'[m] = "quarantine"
        BY <1>2, <1>3, <1>5, <2>1 DEF MessageInv, Boundary
      <3> QED
        BY <1>2, <1>5, <2>1, <3>1
        DEF Heard, MessageInv, Seeks, Conversations
    <2>5. Honest(m)'
      BY <1>2, <1>5, <2>1 DEF Honest, MessageInv
    <2> QED  BY <2>2, <2>3, <2>4, <2>5 DEF MessageInv
  <1> QED
    BY <1>3, <1>4, <1>6, <1>7, <1>8, Moves
    DEF Pages, IInv, TypeInv, TypeOK

(* -- The world around the dispatch ---------------------------------------- *)
LEMMA AroundInv ==
    ASSUME IInv, UNCHANGED <<effects, posted, flow>>, WorldKept,
           blessed' \in BOOLEAN, raced' \subseteq Messages,
           thread' \in [Threads -> {"unstamped", "running", "closed"}],
           \A m \in Messages : ThreadKept(m)
    PROVE  IInv'
  <1>1. TypeInv'
    BY OutageKept DEF IInv, TypeInv, TypeOK, effects, flow, WorldKept, Places
  <1>2. \A m \in Messages : UNCHANGED Flow(m) /\ DidSame(m)
    BY DEF effects, flow, Flow, DidSame, Delivered, Commanded
  <1>3. \A m \in Messages : MessageInv(m)'
    BY <1>2, Untouched
  <1>4. DoneIsDone'
    BY DEF IInv, DoneIsDone, effects
  <1> QED  BY <1>1, <1>3, <1>4 DEF IInv

LEMMA StampInv == ASSUME IInv, NEW t \in Threads, Stamp(t) PROVE IInv'
  <1>1. thread' \in [Threads -> {"unstamped", "running", "closed"}]
    BY DEF Stamp, IInv, TypeInv, TypeOK
  <1>2. \A m \in Messages : ThreadKept(m)
    BY DEF Stamp, ThreadKept, IInv, TypeInv, TypeOK
  <1>3. WorldKept
    BY DEF Stamp, WorldKept, effects, IInv, TypeInv, TypeOK
  <1> QED  BY <1>1, <1>2, <1>3, AroundInv DEF Stamp, IInv, TypeInv, TypeOK

(* The messages that seek the conversation as it closes race with its end. *)
LEMMA CloseInv == ASSUME IInv, NEW t \in Threads, Close(t) PROVE IInv'
  <1>1. thread' \in [Threads -> {"unstamped", "running", "closed"}]
    BY DEF Close, IInv, TypeInv, TypeOK
  <1>2. ASSUME NEW m \in Messages PROVE ThreadKept(m)
    <2>1. CASE m.thread = t /\ Seeks(m)
      <3>1. pc[m] \notin {"idle", "done", "failed"}
        BY <2>1 DEF Seeks, Conversations
      <3>2. m \in raced'
        BY <2>1, <3>1 DEF Close, InDispatch
      <3> QED  BY <3>2 DEF ThreadKept
    <2>2. CASE m.thread # t \/ ~Seeks(m)
      BY <2>2 DEF ThreadKept, Close, IInv, TypeInv, TypeOK
    <2> QED  BY <2>1, <2>2
  <1>3. WorldKept
    BY DEF Close, WorldKept, effects, IInv, TypeInv, TypeOK
  <1>4. raced' \subseteq Messages
    BY DEF Close, InDispatch, IInv, TypeInv, TypeOK
  <1> QED
    BY <1>1, <1>2, <1>3, <1>4, AroundInv DEF Close, IInv, TypeInv, TypeOK

LEMMA AskAgainInv == ASSUME IInv, NEW t \in Threads, AskAgain(t) PROVE IInv'
  <1>1. /\ thread' \in [Threads -> {"unstamped", "running", "closed"}]
        /\ \A u \in Threads : thread[u] = "running" => thread'[u] = "running"
    BY ReopensTyped DEF AskAgain, IInv
  <1>2. \A m \in Messages : ThreadKept(m)
    BY <1>1 DEF ThreadKept
  <1>3. WorldKept
    BY DEF AskAgain, WorldKept, effects, IInv, TypeInv, TypeOK
  <1> QED
    BY <1>1, <1>2, <1>3, AroundInv DEF AskAgain, IInv, TypeInv, TypeOK

LEMMA GrantInv == ASSUME IInv, Grant PROVE IInv'
  <1>1. "grant" \in Kinds
    BY DEF Kinds
  <1>2. WorldKept
    BY <1>1, Spends DEF Grant, WorldKept, effects, IInv
  <1>3. \A m \in Messages : ThreadKept(m)
    BY DEF Grant, ThreadKept
  <1> QED  BY <1>2, <1>3, AroundInv DEF Grant, IInv, TypeInv, TypeOK

(* -- The theorems --------------------------------------------------------- *)
LEMMA InitInv == Init => IInv
  <1> SUFFICES ASSUME Init PROVE IInv
    OBVIOUS
  <1>1. TypeInv
    <2>1. \A k \in Kinds : left[k] <= Bounds[k]
      BY DispatchAssumption DEF Init
    <2>2. thread \in [Threads -> {"unstamped", "running", "closed"}]
      BY DEF Init
    <2> QED
      BY <2>1, <2>2, DispatchAssumption
      DEF Init, TypeInv, TypeOK, Places, Results
  <1>2. ASSUME NEW m \in Messages PROVE MessageInv(m)
    <2>1. /\ pc[m] = "idle" /\ found[m] = "nobody" /\ saw[m] = "nothing"
          /\ ~Delivered(m) /\ m \notin parked /\ ~Commanded(m) /\ ~Acted(m)
      BY DEF Init, Delivered, Commanded, Acted
    <2> QED
      BY <2>1
      DEF MessageInv, Boundary, OnItsWay, Heard, Honest, Seeks, Trusting,
          ThreadWork, CommandWork, Conversations
  <1>3. DoneIsDone
    BY DEF Init, DoneIsDone
  <1> QED  BY <1>1, <1>2, <1>3 DEF IInv

LEMMA MessageStepInv ==
    ASSUME IInv, NEW m \in Messages, Step(m) PROVE IInv'
  <1>1. CASE ResolveThread(m)
    BY <1>1, ResolveInv DEF ResolveThread, ThreadWork
  <1>2. CASE ResolveOffer(m)
    BY <1>2, ResolveInv DEF ResolveOffer, ThreadWork
  <1>3. CASE ResolveBalance(m)
    BY <1>3, ResolveInv DEF ResolveBalance, ThreadWork
  <1>4. CASE HandleCommand(m)
    BY <1>4, ReadCommandInv, StartConfirmInv, ViewRegistryInv,
       SignalRevokeInv, ReplyRevokeInv, ListRulesInv DEF HandleCommand
  <1>5. CASE \/ Route(m) \/ SignalTransaction(m) \/ SignalOffer(m)
             \/ ClassifyInbound(m) \/ RouteReceipt(m)
             \/ PageFailure(m) \/ PageQuarantine(m)
    BY <1>5, RouteInv, SignalTransactionInv, SignalOfferInv,
       ClassifyInboundInv, RouteReceiptInv, PagesInv
  <1> QED  BY <1>1, <1>2, <1>3, <1>4, <1>5 DEF Step

LEMMA StepInv == IInv /\ [Next]_vars => IInv'
  <1> SUFFICES ASSUME IInv, [Next]_vars PROVE IInv'
    OBVIOUS
  <1>1. CASE UNCHANGED vars
    <2>1. WorldKept /\ \A m \in Messages : ThreadKept(m)
      BY <1>1 DEF vars, worlds, effects, WorldKept, ThreadKept, IInv, TypeInv,
                  TypeOK
    <2> QED
      BY <1>1, <2>1, AroundInv DEF vars, worlds, IInv, TypeInv, TypeOK
  <1>2. ASSUME NEW m \in Messages, Webhook(m) \/ Step(m) \/ GiveUp(m)
        PROVE  IInv'
    BY <1>2, WebhookInv, MessageStepInv, GiveUpInv
  <1>3. ASSUME NEW t \in Threads, Stamp(t) \/ Close(t) \/ AskAgain(t)
        PROVE  IInv'
    BY <1>3, StampInv, CloseInv, AskAgainInv
  <1> QED  BY <1>1, <1>2, <1>3, GrantInv DEF Next

LEMMA Invariant == Spec => []IInv
  BY InitInv, StepInv, PTL DEF Spec

(* Every variable of the dispatch keeps its type.                          *)
THEOREM TypeCorrect == Spec => []TypeOK
  <1>1. IInv => TypeOK
    BY DEF IInv, TypeInv
  <1> QED  BY <1>1, Invariant, PTL

(* Nothing is done on the word of a stranger, a machine or an unsigned     *)
(* request (dispatch/classify.py and the steps behind it).                 *)
THEOREM BoundaryHolds == Spec => []OnlyTrustedAct
  <1>1. IInv => OnlyTrustedAct
    BY DEF IInv, MessageInv, Boundary, Trusted, OnlyTrustedAct
  <1> QED  BY <1>1, Invariant, PTL

(* A message that has reached a conversation is not also a receipt or a    *)
(* command (dispatch_workflow.py), however often it is posted and retried. *)
THEOREM GoesOneWay == Spec => []OneWay
  <1>1. ASSUME IInv, NEW m \in Messages
        PROVE  Cardinality({w \in {"thread", "receipt", "command"} :
                   CASE w = "thread"  -> Delivered(m)
                     [] w = "receipt" -> m \in parked
                     [] w = "command" ->
                          \/ m \in revokedBy \cup confirms
                          \/ \E r \in replies : r.message = m}) <= 1
    <2> DEFINE Ways == {w \in {"thread", "receipt", "command"} :
                   CASE w = "thread"  -> Delivered(m)
                     [] w = "receipt" -> m \in parked
                     [] w = "command" ->
                          \/ m \in revokedBy \cup confirms
                          \/ \E r \in replies : r.message = m}
    <2>1. OnItsWay(m)
      BY <1>1 DEF IInv, MessageInv
    <2>2. PICK w \in {"thread", "receipt", "command"} : Ways \subseteq {w}
      <3>1. CASE action[m] \in ThreadWork
        <4>1. m \notin parked /\ ~Commanded(m)
          BY <2>1, <3>1 DEF OnItsWay, ThreadWork
        <4> QED  BY <4>1 DEF Commanded
      <3>2. CASE action[m] = "receipt"
        <4>1. ~Delivered(m) /\ ~Commanded(m)
          BY <2>1, <3>2 DEF OnItsWay, ThreadWork
        <4> QED  BY <4>1 DEF Commanded
      <3>3. CASE action[m] \notin ThreadWork \cup {"receipt"}
        <4>1. ~Delivered(m) /\ m \notin parked
          BY <2>1, <3>3 DEF OnItsWay
        <4> QED  BY <4>1
      <3> QED  BY <3>1, <3>2, <3>3
    <2>3. /\ IsFiniteSet({w}) /\ Cardinality({w}) = 1
      BY FS_Singleton
    <2>4. Cardinality(Ways) <= Cardinality({w})
      BY <2>2, <2>3, FS_Subset
    <2> QED  BY <2>3, <2>4
  <1>2. IInv => OneWay
    BY <1>1 DEF OneWay
  <1> QED  BY <1>2, Invariant, PTL

(* What is found to be an offer's reply reaches the offer, unless it raced *)
(* with its end or Temporal could not be reached (signal_offer).           *)
THEOREM OfferReplyArrives == Spec => []OfferReplyHeard
  <1>1. IInv => OfferReplyHeard
    BY DEF IInv, MessageInv, Heard, Conversations, OfferReplyHeard
  <1> QED  BY <1>1, Invariant, PTL

(* "revoked" is said only when a rule that stood has been revoked          *)
(* (_revoke_and_reply).                                                    *)
THEOREM SaidAndDone == Spec => []DoneIsDone
  <1>1. IInv => DoneIsDone
    BY DEF IInv
  <1> QED  BY <1>1, Invariant, PTL

(* NoOfferResurrected, for one thread and for all of them.                 *)
ByAsking(t) ==
    /\ thread'[t] = "unstamped" /\ UNCHANGED inbox
    /\ \/ UNCHANGED pc
       \/ /\ Kind[t] = "readback"
          /\ \E m \in confirms' : /\ m.signed /\ ~m.auto /\ m.from = "owner"
                                 /\ pc[m] = "bless" /\ ~Delivered(m)
TakenUpByAsking ==
    \A t \in Threads :
        Kind[t] # "transaction" /\ thread[t] = "closed"
            /\ thread'[t] # "closed" => ByAsking(t)

(* The word that has a read-back made again is the owner's, and was        *)
(* addressed to no conversation.                                           *)
LEMMA ConfirmReopens ==
    ASSUME IInv, NEW m \in Messages, StartConfirm(m) PROVE TakenUpByAsking
  <1>1. /\ pc[m] = "bless" /\ m \in confirms' /\ UNCHANGED inbox
        /\ m.signed /\ ~m.auto /\ m.from = "owner" /\ ~Delivered(m)
    BY DEF IInv, MessageInv, Boundary, OnItsWay, Trusting, Trusted,
           CommandWork, ThreadWork, StartConfirm
  <1>2. CASE UNCHANGED thread
    BY <1>2 DEF TakenUpByAsking
  <1>3. ASSUME NEW t \in Threads, Kind[t] = "readback", Reopens(t)
        PROVE  TakenUpByAsking
    <2>1. /\ thread'[t] = "unstamped"
          /\ \A u \in Threads \ {t} : thread'[u] = thread[u]
      BY <1>3 DEF Reopens, IInv, TypeInv, TypeOK
    <2>2. ByAsking(t)
      BY <1>1, <1>3, <2>1 DEF ByAsking
    <2> QED  BY <2>1, <2>2 DEF TakenUpByAsking
  <1> QED  BY <1>2, <1>3 DEF StartConfirm

LEMMA TransactionReopens ==
    ASSUME IInv, NEW m \in Messages, SignalTransaction(m)
    PROVE  TakenUpByAsking
  <1>1. Family(m.thread) = "transaction"
    BY DEF IInv, MessageInv, OnItsWay, Heard, ThreadWork, SignalTransaction
  <1>2. Kind[m.thread] = "transaction"
    BY <1>1 DEF Family
  <1> QED
    BY <1>2
    DEF SignalTransaction, TakenUpByAsking, IInv, TypeInv, TypeOK

(* A conversation that is over is taken up again only by being asked       *)
(* again: by the agent, or for a read-back by a command of the owner's.    *)
(* No reply brings one back (signal_offer, signal_balance, and             *)
(* handle_command with open_thread).                                       *)
THEOREM StaysClosed == Spec => NoOfferResurrected
  <1>1. ASSUME IInv, [Next]_vars PROVE TakenUpByAsking
    <2>1. thread \in [Threads -> {"unstamped", "running", "closed"}]
      BY <1>1 DEF IInv, TypeInv, TypeOK
    <2>2. ASSUME NEW t \in Threads, Stamp(t) \/ Close(t)
          PROVE  TakenUpByAsking
      BY <2>1, <2>2 DEF Stamp, Close, TakenUpByAsking
    <2>3. ASSUME NEW t \in Threads, AskAgain(t) PROVE TakenUpByAsking
      <3>1. /\ thread'[t] = "unstamped"
            /\ \A u \in Threads \ {t} : thread'[u] = thread[u]
        BY <2>1, <2>3 DEF AskAgain, Reopens
      <3>2. ByAsking(t)
        BY <2>3, <3>1 DEF ByAsking, AskAgain, effects, flow
      <3> QED  BY <3>1, <3>2 DEF TakenUpByAsking
    <2>4. ASSUME UNCHANGED thread PROVE TakenUpByAsking
      BY <2>4 DEF TakenUpByAsking
    <2>5. ASSUME NEW m \in Messages,
                 \/ Webhook(m) \/ GiveUp(m)
                 \/ Step(m) /\ ~SignalTransaction(m) /\ ~StartConfirm(m)
          PROVE  UNCHANGED thread
      BY <2>5
      DEF Webhook, GiveUp, Step, ResolveThread, ResolveOffer, ResolveBalance,
          Resolve, Route, SignalOffer, ClassifyInbound, RouteReceipt,
          HandleCommand, ReadCommand, ViewRegistry, SignalRevoke, ReplyRevoke,
          ListRules, PageFailure, PageQuarantine, Pages, worlds
    <2>6. CASE UNCHANGED vars
      BY <2>4, <2>6 DEF vars, worlds
    <2>7. CASE Grant
      BY <2>4, <2>7 DEF Grant
    <2>8. ASSUME NEW m \in Messages, Webhook(m) \/ Step(m) \/ GiveUp(m)
          PROVE  TakenUpByAsking
      BY <1>1, <2>4, <2>5, <2>8, ConfirmReopens, TransactionReopens
    <2> QED  BY <1>1, <2>2, <2>3, <2>6, <2>7, <2>8 DEF Next
  <1>2. IInv /\ [Next]_vars
          => [\A t \in Threads :
                Kind[t] # "transaction" /\ thread[t] = "closed"
                    /\ thread'[t] # "closed"
                  => /\ thread'[t] = "unstamped" /\ UNCHANGED inbox
                     /\ \/ UNCHANGED pc
                        \/ /\ Kind[t] = "readback"
                           /\ \E m \in confirms' :
                                 /\ m.signed /\ ~m.auto /\ m.from = "owner"
                                 /\ pc[m] = "bless" /\ ~Delivered(m)]_vars
    BY <1>1 DEF TakenUpByAsking, ByAsking
  <1> QED  BY <1>2, Invariant, PTL DEF Spec, NoOfferResurrected
=============================================================================
