-------------------------------- MODULE Serve --------------------------------
(***************************************************************************)
(* The process cmd/labor: serve runs the HTTP server, the consumer and the *)
(* outbox relay beside each other and stops them on a signal, in the order *)
(* HTTP server, relay, consumer, within one deadline; a component's error  *)
(* makes it return at once.  Its deferred calls then cancel whatever still *)
(* runs, and closing the pool waits for the connections in use.  The next  *)
(* pod boots afterwards and finds what was left in the outbox.             *)
(*                                                                         *)
(* The relay is OutboxRelay's.  Of a request and of a consumed message the *)
(* model keeps the outbox row its transaction inserts: the row is open     *)
(* while the handler works.  Every stop counts against MaxFaults.          *)
(***************************************************************************)
EXTENDS OutboxRelay

VARIABLES
    phase,      \* pod: how far serve has come, see Phases
    requests,   \* pod: rows of the HTTP requests being served
    message,    \* pod: row of the message the consumer has in hand, or {}
    consuming,  \* pod: consumer.Run has not returned
    expired,    \* pod: the deadline of shutdownCtx has passed
    graceful,   \* pod: serve left its select for a signal, not for an error
    due         \* history: pod |-> rows committed when the signal arrived

process == <<phase, requests, message, consuming, expired, graceful, due>>

Phases == {"serving",           \* the select waits for a signal or an error
           "notReady",          \* readiness flipped, listener still open
           "draining",          \* httpServer.Shutdown
           "relayStopping",     \* stopRelay called, waiting for relayDone
           "consumerStopping",  \* cancelConsumer called, waiting for consumerDone
           "closing",           \* serve returned, deferred calls run
           "exited"}

ServeTypeOK ==
    /\ TypeOK
    /\ phase \in [Relays -> Phases]
    /\ requests \in [Relays -> SUBSET open]
    /\ message \in [Relays -> SUBSET open]
    /\ consuming \in [Relays -> BOOLEAN]
    /\ expired \in [Relays -> BOOLEAN]
    /\ graceful \in [Relays -> BOOLEAN]
    /\ due \in [Relays -> SUBSET visible]

ServeInit ==
    /\ Init
    /\ phase = [p \in Relays |-> "serving"]
    /\ requests = [p \in Relays |-> {}]
    /\ message = [p \in Relays |-> {}]
    /\ consuming = [p \in Relays |-> TRUE]
    /\ expired = [p \in Relays |-> FALSE]
    /\ graceful = [p \in Relays |-> FALSE]
    /\ due = [p \in Relays |-> {}]

-----------------------------------------------------------------------------
(***************************************************************************)
(* What the goroutines do, and until when.                                 *)
(***************************************************************************)

\* Only Shutdown closes the listener: after an error it is open to the end.
ListenerOpen(p) ==
    \/ phase[p] \in {"serving", "notReady"}
    \/ phase[p] = "closing" /\ ~graceful[p]

RelayCancelled(p)    == phase[p] \in {"relayStopping", "consumerStopping", "closing"}
ConsumerCancelled(p) == phase[p] \in {"consumerStopping", "closing"}

AcceptRequest(p) ==
    /\ ListenerOpen(p)
    /\ InsertRow
    /\ requests' = [requests EXCEPT ![p] = @ \cup {lastId'}]
    /\ UNCHANGED <<phase, message, consuming, expired, graceful, due>>

\* A request keeps its connection until its transaction ends, also while the
\* pool is being closed.
FinishRequest(p, i) ==
    /\ i \in requests[p]
    /\ CommitRow(i) \/ AbortRow(i)
    /\ requests' = [requests EXCEPT ![p] = @ \ {i}]
    /\ UNCHANGED <<phase, message, consuming, expired, graceful, due>>

FetchMessage(p) ==
    /\ consuming[p] /\ message[p] = {}
    /\ ~ConsumerCancelled(p) /\ phase[p] # "exited"
    /\ InsertRow
    /\ message' = [message EXCEPT ![p] = {lastId'}]
    /\ UNCHANGED <<phase, requests, consuming, expired, graceful, due>>

\* The handler runs on the consumer's context: once that is cancelled its
\* statements and its commit fail.
FinishMessage(p, i) ==
    /\ i \in message[p]
    /\ \/ ~ConsumerCancelled(p) /\ CommitRow(i)
       \/ AbortRow(i)
    /\ message' = [message EXCEPT ![p] = {}]
    /\ UNCHANGED <<phase, requests, consuming, expired, graceful, due>>

ConsumerReturns(p) ==
    /\ consuming[p] /\ message[p] = {}
    /\ ConsumerCancelled(p)
    /\ consuming' = [consuming EXCEPT ![p] = FALSE]
    /\ UNCHANGED <<vars, phase, requests, message, expired, graceful, due>>

\* OutboxRelay.Run, until its context is cancelled.
RunRelay(p) ==
    /\ ~RelayCancelled(p)
    /\ Claim(p) \/ Send(p) \/ MarkPublished(p) \/ CommitPass(p)
    /\ UNCHANGED process

RelayFails(p) ==
    /\ ~RelayCancelled(p)
    /\ \/ SendFails(p)
       \/ SendRepeated(p)
       \/ PassFails(p) /\ pc'[p] = "idle"
    /\ UNCHANGED process

\* Cancelled, the relay does not finish its pass: the Send, UPDATE or Commit
\* under way fails, though Kafka may have stored the message, recordSendFailure
\* cannot commit either, and Run returns.
RelayReturns(p) ==
    /\ RelayCancelled(p)
    /\ pc[p] # "down"
    /\ \/ topic' = topic
       \/ pc[p] = "send" /\ batch[p] # {} /\ topic' = Delivered(NextRow(p), 1)
    /\ EndPass(p, "down")
    /\ UNCHANGED <<writers, published, faults, process>>

-----------------------------------------------------------------------------
(***************************************************************************)
(* serve, after its select.                                                *)
(***************************************************************************)

Advance(p, from, to) == phase[p] = from /\ phase' = [phase EXCEPT ![p] = to]

\* SIGTERM: readiness.SetNotReady.
Signal(p) ==
    /\ Fault
    /\ Advance(p, "serving", "notReady")
    /\ graceful' = [graceful EXCEPT ![p] = TRUE]
    /\ due' = [due EXCEPT ![p] = visible]
    /\ UNCHANGED <<writers, published, topic, relay, requests, message, consuming,
                   expired>>

\* httpServer.Shutdown closes the listener first.
CloseListener(p) ==
    /\ Advance(p, "notReady", "draining")
    /\ UNCHANGED <<vars, requests, message, consuming, expired, graceful, due>>

\* The ten seconds are over.
DeadlinePasses(p) ==
    /\ phase[p] \in {"draining", "relayStopping", "consumerStopping"}
    /\ ~expired[p]
    /\ expired' = [expired EXCEPT ![p] = TRUE]
    /\ UNCHANGED <<vars, phase, requests, message, consuming, graceful, due>>

\* Shutdown returns once the requests are served, then stopRelay.
StopRelay(p) ==
    /\ requests[p] = {} \/ expired[p]
    /\ Advance(p, "draining", "relayStopping")
    /\ UNCHANGED <<vars, requests, message, consuming, expired, graceful, due>>

\* <-relayDone, then cancelConsumer.
StopConsumer(p) ==
    /\ pc[p] = "down" \/ expired[p]
    /\ Advance(p, "relayStopping", "consumerStopping")
    /\ UNCHANGED <<vars, requests, message, consuming, expired, graceful, due>>

\* Mutant: serve returns as soon as it has cancelled the consumer.
ReturnUnwaited(p) ==
    /\ Advance(p, "consumerStopping", "closing")
    /\ UNCHANGED <<vars, requests, message, consuming, expired, graceful, due>>

\* <-consumerDone, and serve returns.
Return(p) ==
    /\ ~consuming[p] \/ expired[p]
    /\ Advance(p, "consumerStopping", "closing")
    /\ UNCHANGED <<vars, requests, message, consuming, expired, graceful, due>>

\* errCh: the listener failed, or consumer.Run returned an error after the
\* message in hand.  serve returns without any of the steps above.
ComponentFails(p) ==
    /\ Fault
    /\ Advance(p, "serving", "closing")
    /\ \/ UNCHANGED consuming
       \/ message[p] = {} /\ consuming' = [consuming EXCEPT ![p] = FALSE]
    /\ UNCHANGED <<writers, published, topic, relay, requests, message, expired,
                   graceful, due>>

\* The process is gone; transactions still open are aborted by the server.
Exited(p) ==
    /\ phase' = [phase EXCEPT ![p] = "exited"]
    /\ open' = open \ (requests[p] \cup message[p])
    /\ requests' = [requests EXCEPT ![p] = {}]
    /\ message' = [message EXCEPT ![p] = {}]
    /\ consuming' = [consuming EXCEPT ![p] = FALSE]
    /\ EndPass(p, "down")
    /\ UNCHANGED <<lastId, visible, before, published, topic, expired, graceful, due>>

\* pool.Close returns when every connection is back.
Exit(p) ==
    /\ phase[p] = "closing"
    /\ requests[p] = {} /\ message[p] = {} /\ Locked(p) = {}
    /\ Exited(p)
    /\ UNCHANGED faults

\* The process dies anywhere.
Crash(p) ==
    /\ Fault
    /\ phase[p] # "exited"
    /\ Exited(p)

\* The next pod.
Boot(p) ==
    /\ Restart(p)
    /\ Advance(p, "exited", "serving")
    /\ consuming' = [consuming EXCEPT ![p] = TRUE]
    /\ expired' = [expired EXCEPT ![p] = FALSE]
    /\ graceful' = [graceful EXCEPT ![p] = FALSE]
    /\ due' = [due EXCEPT ![p] = {}]
    /\ UNCHANGED <<requests, message>>

\* Every row is published and no more come.
Rest ==
    /\ \A p \in Relays : phase[p] = "serving"
    /\ Sleep
    /\ UNCHANGED process

-----------------------------------------------------------------------------

Work(p) ==
    \/ \E i \in Ids : FinishRequest(p, i) \/ FinishMessage(p, i)
    \/ RunRelay(p)

Stop(p) ==
    \/ CloseListener(p)
    \/ StopRelay(p)
    \/ RelayReturns(p)
    \/ StopConsumer(p)
    \/ ConsumerReturns(p)
    \/ Return(p)
    \/ Exit(p)
    \/ Boot(p)

ServeNext ==
    \/ \E p \in Relays : \/ AcceptRequest(p) \/ FetchMessage(p)
                         \/ Work(p) \/ Stop(p)
                         \/ RelayFails(p)
                         \/ Signal(p) \/ DeadlinePasses(p) \/ ComponentFails(p)
                         \/ Crash(p)
    \/ Rest

ServeSpec == ServeInit /\ [][ServeNext]_<<vars, process>>

\* A transaction ends (statement_timeout), the relay loops, a stop once begun
\* goes on and Kubernetes boots the next pod.  No request, message or signal is
\* owed.
FairServeSpec ==
    /\ ServeSpec
    /\ \A p \in Relays :
          /\ WF_<<vars, process>>(\E i \in Ids : FinishRequest(p, i))
          /\ WF_<<vars, process>>(\E i \in Ids : FinishMessage(p, i))
          /\ WF_<<vars, process>>(RunRelay(p))
          /\ WF_<<vars, process>>(Stop(p))

-----------------------------------------------------------------------------
(***************************************************************************)
(* Properties.                                                             *)
(***************************************************************************)

\* On a signal, and within the deadline, the pool is closed when nobody uses it
\* any more: no request is cut off, no pass and no message is under way, and
\* neither loop can begin one (serve: "after every consumer/relay goroutine has
\* already stopped touching it").
PoolClosedLast ==
    \A p \in Relays :
        phase[p] = "closing" /\ graceful[p] /\ ~expired[p]
        => /\ requests[p] = {} /\ message[p] = {} /\ ~consuming[p]
           /\ pc[p] = "down" /\ Locked(p) = {}

\* What was committed before the signal is published by the time a pod that
\* stopped gracefully, within the deadline, has exited (serve: "an event
\* committed by a request (or a consumed message) that completed just before
\* shutdown is not stranded until the next pod boots").
NoEventStranded ==
    \A p \in Relays :
        phase[p] = "exited" /\ graceful[p] /\ ~expired[p] => due[p] \subseteq published

=============================================================================
