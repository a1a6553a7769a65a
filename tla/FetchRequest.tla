---------------------------- MODULE FetchRequest ----------------------------
(***************************************************************************)
(* A fetch of a script: the goroutines of the request, of the transport and*)
(* of the abort listener, the result channel that the event loop polls, and*)
(* the response body with its two timers, whose Close cancels the context. *)
(* enhance_modules/fetch_enhancement.go. Requests share only a controller, *)
(* so that one request, with everything that races for it, is modelled.    *)
(***************************************************************************)
EXTENDS Integers, FiniteSets

VARIABLES mode,      \* "loop": setImmediate polls the channel; "pool": the script waits for it
          form,      \* the body is a streaming form, which has a context of its own
          promise,   \* "none", "pending", "fulfilled", "rejected"
          execute,   \* executeRequestAsync: "none", "parse", "select", "aborted", "expired",
                     \* "cleanup", "drain", "cancel", "gone"
          transport, \* the goroutine of client.Do: "none", "sending", "response", "failed"
          endless,   \* the server sends a body that does not end
          listener,  \* of the abort: "none", "waiting", "gone"
          reqCtx, uploadCtx, \* contexts: "none", "live", "canceled", "expired"
          resultCh,  \* "empty", or what it holds
          signal,    \* the controller: "none", "given", "aborted"
          wrapper,   \* bodyWithCancel: "none", "open", "closed"
          hasRead,   \* the script has begun to read
          idleTimer, totalTimer, \* "none", "armed", "fired" (its function runs), "off"
          conn       \* the response of the transport: "none", "open", "closed"

script == <<mode, form, promise, signal>>
request == <<execute, transport, endless, listener, reqCtx, uploadCtx, resultCh>>
body == <<wrapper, hasRead, idleTimer, totalTimer, conn>>
vars == <<script, request, body>>

\* What the arguments say: with a streaming form or not, with a signal or not. Arguments that are no
\* request panic before there is a promise.
Init ==
  /\ mode \in {"loop", "pool"} /\ form \in BOOLEAN /\ promise = "none" /\ signal \in {"none", "given"}
  /\ execute = "none" /\ transport = "none" /\ endless = FALSE /\ listener = "none"
  /\ reqCtx = "none" /\ uploadCtx = "none" /\ resultCh = "empty"
  /\ wrapper = "none" /\ hasRead = FALSE /\ idleTimer = "none" /\ totalTimer = "none" /\ conn = "none"

\* Cancelling a context that is over changes nothing.
Cancelled(ctx) == IF ctx = "live" THEN "canceled" ELSE ctx
Done    == transport \in {"response", "failed"}
Aborted == signal = "aborted"
\* Without a loop the script stands in fetch until the result is there.
Blocked == mode = "pool" /\ promise = "pending"

-----------------------------------------------------------------------------
\* The script.

\* fetch: a body that cannot be read (a form without a buffer, a reader that fails) rejects the
\* promise before anything else is there.
RejectBody ==
  /\ promise = "none" /\ promise' = "rejected"
  /\ UNCHANGED <<mode, form, signal, request, body>>
Fetch ==
  /\ promise = "none"
  /\ promise' = "pending" /\ execute' = "parse"
  /\ UNCHANGED <<mode, form, signal, transport, endless, listener, reqCtx, uploadCtx, resultCh, body>>

\* AbortController.abort closes the channel once.
Abort ==
  /\ signal = "given" /\ ~Blocked
  /\ signal' = "aborted"
  /\ UNCHANGED <<mode, form, promise, request, body>>

\* pollResult, or the end of the wait of a script without a loop. The response the script gets wraps
\* the body.
Poll ==
  /\ promise = "pending" /\ resultCh # "empty"
  /\ promise' = IF resultCh = "response" THEN "fulfilled" ELSE "rejected"
  /\ resultCh' = "empty"
  /\ UNCHANGED <<mode, form, signal, execute, transport, endless, listener, reqCtx, uploadCtx, body>>

Stopped(timer) == IF timer = "armed" THEN "off" ELSE timer

\* Mutant: the first Read stops both timers.
ReadStopsBoth ==
  /\ promise = "fulfilled" /\ ~hasRead
  /\ hasRead' = TRUE /\ idleTimer' = Stopped(idleTimer) /\ totalTimer' = Stopped(totalTimer)
  /\ UNCHANGED <<script, request, wrapper, conn>>
\* The first Read stops the idle timer, unless its function already runs.
Read ==
  /\ promise = "fulfilled" /\ ~hasRead
  /\ hasRead' = TRUE /\ idleTimer' = Stopped(idleTimer)
  /\ UNCHANGED <<script, request, wrapper, totalTimer, conn>>

\* Close of the wrapper: the timers are stopped, the body is closed, and then the context is cancelled.
CloseWrapper ==
  /\ wrapper' = "closed" /\ conn' = "closed" /\ reqCtx' = Cancelled(reqCtx)
  /\ UNCHANGED <<script, execute, transport, endless, listener, uploadCtx, resultCh, hasRead>>

\* The end of the body, an error, cancel and destroy close it.
Close ==
  /\ promise = "fulfilled" /\ wrapper = "open"
  /\ CloseWrapper /\ idleTimer' = Stopped(idleTimer) /\ totalTimer' = Stopped(totalTimer)

-----------------------------------------------------------------------------
\* executeRequestAsync.

Reply(r) == resultCh' = r

\* A form whose body has a wrong type or a value that JSON does not know ends before there is a
\* context; a URL that cannot be parsed or a protocol that is not allowed after it.
ParseFails ==
  /\ execute = "parse" /\ execute' = "gone" /\ Reply("invalid")
  /\ \E created \in BOOLEAN :
       /\ reqCtx' = IF created THEN "canceled" ELSE "none"
       /\ uploadCtx' = IF created /\ form THEN "canceled" ELSE "none"
  /\ UNCHANGED <<script, transport, endless, listener, body>>

\* The contexts, the request, and the two goroutines.
SendRequest ==
  /\ execute = "parse" /\ execute' = "select"
  /\ reqCtx' = "live" /\ uploadCtx' = IF form THEN "live" ELSE "none"
  /\ transport' = "sending" /\ listener' = "waiting"
  /\ UNCHANGED <<script, endless, resultCh, body>>

\* client.Do. A redirect that is not allowed is a failure; the other modes differ in what they return.
DoSucceeds ==
  /\ transport = "sending" /\ transport' = "response" /\ conn' = "open"
  /\ endless' \in BOOLEAN
  /\ UNCHANGED <<script, execute, listener, reqCtx, uploadCtx, resultCh, wrapper, hasRead, idleTimer, totalTimer>>
DoFails ==
  /\ transport = "sending" /\ transport' = "failed"
  /\ UNCHANGED <<script, execute, endless, listener, reqCtx, uploadCtx, resultCh, body>>

\* The listener's select: either, when the request is done and aborted.
ListenerCancels ==
  /\ listener = "waiting" /\ Aborted
  /\ listener' = "gone" /\ reqCtx' = Cancelled(reqCtx)
  /\ UNCHANGED <<script, execute, transport, endless, uploadCtx, resultCh, body>>
ListenerLeaves ==
  /\ listener = "waiting" /\ Done
  /\ listener' = "gone"
  /\ UNCHANGED <<script, execute, transport, endless, reqCtx, uploadCtx, resultCh, body>>

\* The timeouts of the two contexts, which start with the request.
Expire ==
  /\ reqCtx = "live" /\ reqCtx' = "expired"
  /\ UNCHANGED <<script, execute, transport, endless, listener, uploadCtx, resultCh, body>>
ExpireUpload ==
  /\ uploadCtx = "live" /\ uploadCtx' = "expired"
  /\ UNCHANGED <<script, execute, transport, endless, listener, reqCtx, resultCh, body>>

\* The select: any branch that is ready.
RequestFailed ==
  /\ execute = "select" /\ transport = "failed" /\ execute' = "cleanup"
  /\ Reply(CASE reqCtx = "canceled" -> "stopped" [] reqCtx = "expired" -> "timeout" [] OTHER -> "network")
  /\ UNCHANGED <<script, transport, endless, listener, reqCtx, uploadCtx, body>>
\* Content-Length says more than maxStreamSize.
TooLarge ==
  /\ execute = "select" /\ transport = "response" /\ execute' = "cleanup" /\ Reply("too large")
  /\ UNCHANGED <<script, transport, endless, listener, reqCtx, uploadCtx, body>>
\* Mutant: the deferred function cancels the context of a response that was handed over.
RespondAndCancel ==
  /\ execute = "select" /\ transport = "response" /\ Reply("response")
  /\ wrapper' = "open" /\ idleTimer' = "armed" /\ totalTimer' = "armed"
  /\ execute' = "cancel" /\ uploadCtx' = Cancelled(uploadCtx)
  /\ UNCHANGED <<script, transport, endless, listener, reqCtx, hasRead, conn>>
\* createBodyWithCancel and the response; the deferred function has only the upload to clean.
Respond ==
  /\ execute = "select" /\ transport = "response" /\ Reply("response")
  /\ wrapper' = "open" /\ idleTimer' = "armed" /\ totalTimer' = "armed"
  /\ execute' = "gone" /\ uploadCtx' = Cancelled(uploadCtx)
  /\ UNCHANGED <<script, transport, endless, listener, reqCtx, hasRead, conn>>
\* The other branches wait for the transport before they answer.
SelectAbort ==
  /\ execute = "select" /\ Aborted /\ execute' = "aborted"
  /\ UNCHANGED <<script, transport, endless, listener, reqCtx, uploadCtx, resultCh, body>>
SelectExpired ==
  /\ execute = "select" /\ reqCtx \in {"canceled", "expired"} /\ execute' = "expired"
  /\ UNCHANGED <<script, transport, endless, listener, reqCtx, uploadCtx, resultCh, body>>
Answer ==
  /\ execute \in {"aborted", "expired"} /\ Done /\ execute' = "cleanup"
  /\ Reply(IF execute = "aborted" THEN "AbortError" ELSE IF reqCtx = "expired" THEN "timeout" ELSE "canceled")
  /\ UNCHANGED <<script, transport, endless, listener, reqCtx, uploadCtx, body>>

\* The deferred function: the upload, the rest of the body, the context.
CancelUpload ==
  /\ execute = "cleanup" /\ uploadCtx' = Cancelled(uploadCtx)
  /\ execute' = IF conn = "open" THEN "drain" ELSE "cancel"
  /\ UNCHANGED <<script, transport, endless, listener, reqCtx, resultCh, body>>
\* io.Copy reads what the server sends, for as long as it sends and the context lives.
Drain ==
  /\ execute = "drain" /\ (endless => reqCtx # "live")
  /\ conn' = "closed" /\ execute' = "cancel"
  /\ UNCHANGED <<script, transport, endless, listener, reqCtx, uploadCtx, resultCh, wrapper, hasRead,
                 idleTimer, totalTimer>>
CancelContext ==
  /\ execute = "cancel" /\ reqCtx' = Cancelled(reqCtx) /\ execute' = "gone"
  /\ UNCHANGED <<script, transport, endless, listener, uploadCtx, resultCh, body>>

-----------------------------------------------------------------------------
\* The timers of the body: the function looks whether the body is closed, releases the lock and
\* calls Close.

IdleFires ==
  /\ idleTimer = "armed" /\ idleTimer' = IF wrapper = "closed" THEN "off" ELSE "fired"
  /\ UNCHANGED <<script, request, wrapper, hasRead, totalTimer, conn>>
TotalFires ==
  /\ totalTimer = "armed" /\ totalTimer' = IF wrapper = "closed" THEN "off" ELSE "fired"
  /\ UNCHANGED <<script, request, wrapper, hasRead, idleTimer, conn>>
IdleCloses ==
  /\ idleTimer = "fired" /\ idleTimer' = "off"
  /\ IF wrapper = "open" THEN CloseWrapper /\ totalTimer' = Stopped(totalTimer)
     ELSE UNCHANGED <<script, request, wrapper, hasRead, totalTimer, conn>>
TotalCloses ==
  /\ totalTimer = "fired" /\ totalTimer' = "off"
  /\ IF wrapper = "open" THEN CloseWrapper /\ idleTimer' = Stopped(idleTimer)
     ELSE UNCHANGED <<script, request, wrapper, hasRead, idleTimer, conn>>

Script    == RejectBody \/ Fetch \/ Abort \/ Read \/ Close
Execute   == ParseFails \/ SendRequest \/ RequestFailed \/ TooLarge \/ Respond \/ SelectAbort
               \/ SelectExpired \/ Answer \/ CancelUpload \/ Drain \/ CancelContext
Transport == DoFails \/ DoSucceeds
Listener  == ListenerCancels \/ ListenerLeaves
Next == Script \/ Poll \/ Execute \/ Transport \/ Listener \/ Expire \/ ExpireUpload
          \/ IdleFires \/ TotalFires \/ IdleCloses \/ TotalCloses

\* Goroutines, timers and the poll run. The script owes nothing, and the server neither answers nor
\* ends a body; a request whose context is over does fail.
Fairness ==
  /\ WF_vars(Poll) /\ WF_vars(Execute) /\ WF_vars(Listener) /\ WF_vars(Expire)
  /\ WF_vars(reqCtx # "live" /\ DoFails) /\ WF_vars(TotalFires) /\ WF_vars(TotalCloses)
Spec == Init /\ [][Next]_vars /\ Fairness

-----------------------------------------------------------------------------
\* Nobody pulls the context from under a response that the script may still read: as long as its
\* body is open, the context is cancelled by an abort only. (fetch_enhancement.go:846: a context
\* that is cancelled early makes reading the body fail.)
BodyReadable == wrapper = "open" => reqCtx # "canceled" \/ Aborted

\* Whatever the script and the server do or leave, the promise is settled and nothing is left of the
\* request: both contexts are over, the connection is given back and the listener is gone.
Released ==
  promise = "pending" ~> /\ promise # "pending" /\ execute = "gone" /\ listener # "waiting"
                         /\ reqCtx # "live" /\ uploadCtx # "live" /\ conn # "open"
=============================================================================
