--------------------------- MODULE RecorderHandler ---------------------------
(***************************************************************************)
(* gather.RecorderHandler.Process (gather/recorder.go) consuming the      *)
(* metrics subscription, with PointWriter.Record behind it.               *)
(*                                                                         *)
(* The subscription is the nats package of the service, which is not in  *)
(* this repository.  Process acknowledges every message itself (m.Ack),  *)
(* so the subscription is taken to be in manual-ack mode with the usual  *)
(* streaming semantics: a message not yet acknowledged is delivered       *)
(* again after the ack wait, also while an earlier copy is still being   *)
(* processed.  One handler goroutine takes messages in delivery order.   *)
(* The process may crash and restart, losing what it had buffered and   *)
(* the message in hand; the server keeps the unacknowledged ones.        *)
(***************************************************************************)
EXTENDS Naturals, Sequences, SequencesExt

CONSTANTS
    Msgs,           \* the published metrics messages
    Valid,          \* those whose data json.Unmarshal accepts
    MaxCrashes,     \* bound on crashes and restarts
    MaxDups,        \* bound on redeliveries of a message still in hand
    None

VARIABLES
    mailbox,        \* messages delivered to the client, not yet taken
    msg,            \* the message Process is handling, or None
    pc,             \* "idle", "unmarshal", "record" or "ack"
    acked,          \* messages the server holds acknowledged
    recorded,       \* m -> times Record wrote its points
    failed,         \* messages whose Record returned an error (logged)
    crashes, dups

vars == <<mailbox, msg, pc, acked, recorded, failed, crashes, dups>>

\* The server's view: neither acknowledged, queued nor in hand.
Outstanding == {m \in Msgs \ acked : m \notin Range(mailbox) /\ m # msg}

----------------------------------------------------------------------------
\* The subscription delivers a message not yet acknowledged: the first
\* delivery, or a redelivery after the ack wait or a restart.
Deliver(m) ==
    /\ m \in Outstanding
    /\ mailbox' = Append(mailbox, m)
    /\ UNCHANGED <<msg, pc, acked, recorded, failed, crashes, dups>>

\* Mutant: a redelivery without a message in hand.
RedeliverInFlightIdle ==
    /\ msg \notin Range(mailbox) /\ msg \notin acked
    /\ dups < MaxDups
    /\ mailbox' = Append(mailbox, msg)
    /\ dups' = dups + 1
    /\ UNCHANGED <<msg, pc, acked, recorded, failed, crashes>>

\* The ack wait of the message in hand runs out before Process acks it:
\* a second copy is queued behind.
RedeliverInFlight ==
    /\ msg # None /\ msg \notin Range(mailbox) /\ msg \notin acked
    /\ dups < MaxDups
    /\ mailbox' = Append(mailbox, msg)
    /\ dups' = dups + 1
    /\ UNCHANGED <<msg, pc, acked, recorded, failed, crashes>>

\* Process is called with the next delivered message.
Receive ==
    /\ pc = "idle" /\ mailbox # <<>>
    /\ msg' = Head(mailbox)
    /\ mailbox' = Tail(mailbox)
    /\ pc' = "unmarshal"
    /\ UNCHANGED <<acked, recorded, failed, crashes, dups>>

\* Mutant: the error check is inverted, so a decoded message is not recorded.
UnmarshalInverted ==
    /\ pc = "unmarshal"
    /\ pc' = IF msg \in Valid THEN "ack" ELSE "record"
    /\ UNCHANGED <<mailbox, msg, acked, recorded, failed, crashes, dups>>

\* json.Unmarshal of m.Data(): on error it logs and returns, and the
\* deferred Ack runs.
Unmarshal ==
    /\ pc = "unmarshal"
    /\ pc' = IF msg \in Valid THEN "record" ELSE "ack"
    /\ UNCHANGED <<mailbox, msg, acked, recorded, failed, crashes, dups>>

\* The outcomes of PointWriter.Record: the points are written, or
\* MetricsSlice.Points or Writer.WritePoints returns an error.
PointWriterRecord == {"written", "points error", "write error"}

\* h.Recorder.Record(*collected); an error is only logged.
Record ==
    /\ pc = "record"
    /\ \E r \in PointWriterRecord :
          IF r = "written" THEN recorded' = [recorded EXCEPT ![msg] = @ + 1] /\ UNCHANGED failed
          ELSE failed' = failed \union {msg} /\ UNCHANGED recorded
    /\ pc' = "ack"
    /\ UNCHANGED <<mailbox, msg, acked, crashes, dups>>

\* Mutant: the error path returns before the deferred Ack is registered.
AckNotOnError ==
    /\ pc = "ack"
    /\ acked' = IF msg \in Valid THEN acked \union {msg} ELSE acked
    /\ msg' = None
    /\ pc' = "idle"
    /\ UNCHANGED <<mailbox, recorded, failed, crashes, dups>>

\* The deferred m.Ack() when Process returns, on every path.
Ack ==
    /\ pc = "ack"
    /\ acked' = acked \union {msg}
    /\ msg' = None
    /\ pc' = "idle"
    /\ UNCHANGED <<mailbox, recorded, failed, crashes, dups>>

\* The process crashes and restarts: the client's buffer and the message
\* in hand are lost; what the server holds stays.
Crash ==
    /\ crashes < MaxCrashes
    /\ mailbox # <<>> \/ msg # None
    /\ mailbox' = <<>>
    /\ msg' = None
    /\ pc' = "idle"
    /\ crashes' = crashes + 1
    /\ UNCHANGED <<acked, recorded, failed, dups>>

Init ==
    /\ mailbox = <<>>
    /\ msg = None
    /\ pc = "idle"
    /\ acked = {}
    /\ recorded = [m \in Msgs |-> 0]
    /\ failed = {}
    /\ crashes = 0
    /\ dups = 0

HandlerStep == Receive \/ Unmarshal \/ Record \/ Ack

Next == HandlerStep \/ RedeliverInFlight \/ Crash \/ \E m \in Msgs : Deliver(m)

\* The handler goroutine runs whenever it has work, and the server keeps
\* redelivering what is outstanding: weak fairness on both.
Fairness == WF_vars(HandlerStep) /\ \A m \in Msgs : WF_vars(Deliver(m))

Spec == Init /\ [][Next]_vars /\ Fairness

----------------------------------------------------------------------------
TypeOK ==
    /\ mailbox \in Seq(Msgs) /\ msg \in Msgs \union {None}
    /\ pc \in {"idle", "unmarshal", "record", "ack"}
    /\ acked \subseteq Msgs /\ failed \subseteq Msgs
    /\ recorded \in [Msgs -> Nat]
    /\ crashes \in 0..MaxCrashes /\ dups \in 0..MaxDups

\* A message is acknowledged, and so never delivered again, only after
\* Process tried to record it: it did not decode, or Record wrote it, or
\* Record's error was logged.  A crash between receive and Ack must not
\* lose a message that decodes.
AckAfterAttempt ==
    \A m \in acked : m \notin Valid \/ recorded[m] > 0 \/ m \in failed

\* Every published message is eventually acknowledged, crashes and
\* redeliveries notwithstanding: the deferred Ack runs on every path of
\* Process, the error paths included.
EveryMessageAcked == \A m \in Msgs : <>(m \in acked)

====
