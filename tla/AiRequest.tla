----------------------------- MODULE AiRequest -----------------------------
(***************************************************************************)
(* A request to a language model, from the three places that make one: the *)
(* @ai question (ai_handler.cpp), the error-recovery hook                  *)
(* (ai_error_hook_provider.cpp) and the connection test (ai_handler.cpp).  *)
(* Beneath them are the attempts, retries and model fallbacks of           *)
(* llm_client.cpp; beside them the spinner thread, the abort flag that     *)
(* SIGINT arms (ai_abort.h) and the rate limiter they share.               *)
(***************************************************************************)
EXTENDS Integers, FiniteSets

CONSTANTS
  Kinds,        \* who makes requests, of "ask", "hook" and "test"
  Models,       \* how many models are tried: the primary and its fallbacks
  MaxChunks,    \* bound on the chunks of a stream
  MaxRequests,  \* max_requests_ of the rate limiter
  Window,       \* window_seconds_
  Cooldown,     \* COOLDOWN_SECONDS of the hook
  Horizon       \* bound on the clock

ASSUME KindsAssumption == Kinds \subseteq {"ask", "hook", "test"}
ASSUME SizesAssumption == Models \in Nat \ {0} /\ MaxChunks \in Nat /\ MaxRequests \in Nat
ASSUME TimesAssumption == Window \in Nat \ {0} /\ Cooldown \in Nat /\ Horizon \in Nat

\* What an HTTP server answers, as far as the code tells it apart; "404" and
\* "400 unknown" both say that there is no such model.
Statuses == {"200", "400 unknown", "403", "404", "429", "500"}
Attempts == 2
Times    == 0 .. Horizon

VARIABLES
  pc,         \* the main thread
  kind,       \* the request it is in, or was last in
  active, abort,        \* request_active and abort_requested
  model, attempt,       \* which model, and which attempt with it
  link,       \* the transfer: "new", "sent" or "streaming"
  chunks,     \* chunks of this attempt; emitted_any is chunks > 0
  result,     \* the LLMResponse: [status, transport, success]
  spinner,    \* the spinner thread: "none", "look", "frame", "clear", "ended"
  spinning,   \* spinner_active
  line,       \* what the terminal's current line shows
  shown,      \* the attempts that have printed some of their answer
  pressed,    \* Ctrl-C came during this request
  enabled,    \* ai_enabled
  now, stamps,          \* the clock and the limiter's timestamps: <<time, number>>
  last,       \* last_call_time_ of the hook, or -1
  requests    \* HTTP requests made

flags   == <<active, abort>>
call    == <<kind, model, attempt>>
trans   == <<link, chunks, result>>
display == <<spinner, spinning, line, shown>>
budget  == <<now, stamps, last, requests>>
vars == <<pc, flags, call, trans, display, pressed, enabled, budget>>

NoResult == [status |-> "none", transport |-> "ok", success |-> FALSE]

TypeOK ==
  /\ pc \in {"idle", "clear", "mark", "ready", "perform", "join", "over", "sleep", "stop", "end"}
  /\ kind \in {"ask", "hook", "test"}
  /\ active \in BOOLEAN /\ abort \in BOOLEAN
  /\ model \in 1 .. Models /\ attempt \in 1 .. Attempts
  /\ link \in {"new", "sent", "streaming"} /\ chunks \in 0 .. MaxChunks
  /\ result \in [status : Statuses \cup {"none"}, transport : {"ok", "failed", "aborted"},
                 success : BOOLEAN]
  /\ spinner \in {"none", "look", "frame", "clear", "ended"} /\ spinning \in BOOLEAN
  /\ line \in {"clean", "spinner", "text"}
  /\ shown \subseteq (1 .. Models) \X (1 .. Attempts)
  /\ pressed \in BOOLEAN /\ enabled \in BOOLEAN
  /\ now \in Times /\ stamps \in SUBSET (Times \X Nat) /\ last \in Times \cup {-1}
  /\ requests \in Nat

Init ==
  /\ pc = "idle" /\ kind = "ask" /\ active = FALSE /\ abort = FALSE
  /\ model = 1 /\ attempt = 1 /\ link = "new" /\ chunks = 0 /\ result = NoResult
  /\ spinner = "none" /\ spinning = FALSE /\ line = "clean" /\ shown = {}
  /\ pressed = FALSE /\ enabled = TRUE
  /\ now = 0 /\ stamps = {} /\ last = -1 /\ requests = 0

-----------------------------------------------------------------------------
(* The rate limiter.                                                        *)

\* Timestamps the limiter has not erased: those after the cutoff.
Recent == {s \in stamps : s[1] > now - Window /\ s[1] <= now}

\* One more timestamp: the next of those taken at this time.
Stamped == stamps \cup {<<now, Cardinality({s \in stamps : s[1] = now})>>}

\* allow(): room in the window, and a timestamp taken.
Allow ==
  /\ Cardinality(Recent) < MaxRequests
  /\ stamps' = Stamped

\* Variant: the cooldown is all that holds the hook back.
HookAllowUnchecked ==
  /\ last = -1 \/ now - last >= Cooldown
  /\ stamps' = Stamped

\* The hook's own cooldown comes first, then the shared bucket.
HookAllow ==
  /\ last = -1 \/ now - last >= Cooldown
  /\ Allow

-----------------------------------------------------------------------------
(* Starting a request.                                                      *)

Enter(k, at) ==
  /\ pc' = at /\ kind' = k /\ model' = 1 /\ attempt' = 1
  /\ link' = "new" /\ chunks' = 0 /\ result' = NoResult
  /\ shown' = {} /\ pressed' = FALSE
  /\ UNCHANGED <<flags, spinner, spinning, line, enabled, now, requests>>

\* The token is spent and there is no client, or the user has AI turned off.
GivesUp ==
  UNCHANGED <<pc, call, flags, trans, display, pressed, enabled, now, last, requests>>

Ask ==
  /\ "ask" \in Kinds /\ pc = "idle" /\ Allow
  /\ \/ enabled /\ Enter("ask", "clear") /\ UNCHANGED last
     \/ GivesUp

Hook ==
  /\ "hook" \in Kinds /\ pc = "idle" /\ enabled /\ HookAllow
  /\ \/ Enter("hook", "clear") /\ last' = now
     \/ GivesUp

\* @ai test and the test in the config menu call generate() and nothing else.
Test ==
  /\ "test" \in Kinds /\ pc = "idle" /\ Allow
  /\ \/ Enter("test", "ready") /\ UNCHANGED last
     \/ GivesUp

\* Variant: the flag of an earlier request is left as it is.
ClearFlagNot ==
  /\ pc = "clear" /\ pc' = "mark"
  /\ UNCHANGED <<flags, call, trans, display, pressed, enabled, budget>>

\* begin_request: first one store, then the other.
ClearFlag ==
  /\ pc = "clear" /\ abort' = FALSE /\ pc' = "mark"
  /\ UNCHANGED <<active, call, trans, display, pressed, enabled, budget>>

MarkActive ==
  /\ pc = "mark" /\ active' = TRUE /\ pc' = "ready"
  /\ UNCHANGED <<abort, call, trans, display, pressed, enabled, budget>>

\* The spinner is started, but not by the hook.
StartSpinner ==
  /\ pc = "ready" /\ pc' = "perform"
  /\ IF kind = "hook" THEN UNCHANGED <<spinner, spinning>>
                      ELSE spinning' = TRUE /\ spinner' = "look"
  /\ UNCHANGED <<flags, call, trans, line, shown, pressed, enabled, budget>>

-----------------------------------------------------------------------------
(* curl_easy_perform.  It consults the progress callback before each step.  *)

Streams == kind = "ask"
Over(r) == result' = r /\ pc' = "over"
Goes    == pc = "perform" /\ ~abort

Connect ==
  /\ Goes /\ link = "new"
  /\ link' = "sent" /\ requests' = requests + 1
  /\ UNCHANGED <<pc, flags, call, chunks, result, display, pressed, enabled, now, stamps, last>>

\* A piece of a streamed answer.  The first that has something to show stops
\* the spinner, which the main thread waits for.
Chunk ==
  /\ Goes /\ Streams /\ link # "new" /\ chunks < MaxChunks
  /\ link' = "streaming" /\ chunks' = chunks + 1
  /\ \/ UNCHANGED <<pc, spinning, line, shown>>
     \/ /\ shown' = shown \cup {<<model, attempt>>}
        /\ IF shown = {} THEN pc' = "join" /\ spinning' = FALSE /\ UNCHANGED line
                         ELSE line' = "text" /\ UNCHANGED <<pc, spinning>>
  /\ UNCHANGED <<flags, call, result, spinner, pressed, enabled, budget>>

\* Variant: the thread is told to stop, and not waited for.
FirstByteUnjoined ==
  /\ pc = "join" /\ pc' = "perform" /\ line' = "text"
  /\ UNCHANGED <<flags, call, trans, spinner, spinning, shown, pressed, enabled, budget>>

FirstByte ==
  /\ pc = "join" /\ spinner = "ended"
  /\ spinner' = "none" /\ line' = "text" /\ pc' = "perform"
  /\ UNCHANGED <<flags, call, trans, spinning, shown, pressed, enabled, budget>>

\* The answer is complete; a 200 counts if something could be read from it.
Answered ==
  /\ Goes /\ link # "new"
  /\ \E s \in IF link = "streaming" THEN {"200"} ELSE Statuses, ok \in BOOLEAN :
       /\ ok => s = "200" /\ (Streams => chunks > 0)
       /\ (Streams /\ chunks > 0) => ok
       /\ Over([status |-> s, transport |-> "ok", success |-> ok])
  /\ UNCHANGED <<flags, call, link, chunks, display, pressed, enabled, budget>>

\* No connection, a timeout, a broken stream.  The status is lost with it.
Fails ==
  /\ Goes
  /\ Over([status |-> "none", transport |-> "failed", success |-> FALSE])
  /\ UNCHANGED <<flags, call, link, chunks, display, pressed, enabled, budget>>

Aborts ==
  /\ pc = "perform" /\ abort
  /\ Over([status |-> "none", transport |-> "aborted", success |-> FALSE])
  /\ UNCHANGED <<flags, call, link, chunks, display, pressed, enabled, budget>>

-----------------------------------------------------------------------------
(* After an attempt: retry, next model, or the end.                         *)

Retryable == ~result.success /\ result.status \in {"none", "429", "500"}

\* Variant: what has been shown is no reason not to try again.
RetriesAfterOutput ==
  attempt < Attempts /\ Retryable /\ result.transport # "aborted"

\* invoke_streaming and invoke_buffered.
Retries ==
  /\ attempt < Attempts /\ Retryable
  /\ result.transport # "aborted"
  /\ ~(Streams /\ chunks > 0)

\* model_not_found.  Streaming maps the error without its body.
UnknownModel ==
  \/ result.status = "404"
  \/ result.status = "400 unknown" /\ ~Streams

FallsBack == UnknownModel /\ model < Models

\* Variant: the thread is joined and not told to stop.
TellSpinnerNot == UNCHANGED spinning

TellSpinner == spinning' = FALSE

AfterAttempt ==
  /\ pc = "over"
  /\ IF Retries
     THEN pc' = "sleep" /\ UNCHANGED <<model, attempt, link, chunks, spinning>>
     ELSE IF FallsBack
     THEN /\ model' = model + 1 /\ attempt' = 1 /\ link' = "new" /\ chunks' = 0
          /\ pc' = "perform" /\ UNCHANGED spinning
     ELSE /\ pc' = "stop" /\ TellSpinner
          /\ UNCHANGED <<model, attempt, link, chunks>>
  /\ UNCHANGED <<flags, kind, result, spinner, line, shown, pressed, enabled, budget>>

\* retry_sleep is over, or a signal has cut it short.
Wake ==
  /\ pc = "sleep" /\ pc' = "perform"
  /\ attempt' = attempt + 1 /\ link' = "new" /\ chunks' = 0
  /\ UNCHANGED <<flags, kind, model, result, display, pressed, enabled, budget>>

\* stop_spinner joins the thread, if there is one.
StopSpinner ==
  /\ pc = "stop" /\ spinner \in {"none", "ended"}
  /\ spinner' = "none" /\ pc' = "end"
  /\ UNCHANGED <<flags, call, trans, spinning, line, shown, pressed, enabled, budget>>

\* end_request, and what the caller does with the answer.
End ==
  /\ pc = "end" /\ pc' = "idle" /\ line' = "clean"
  /\ active' = IF kind = "test" THEN active ELSE FALSE
  /\ enabled' = (enabled /\ ~(kind = "ask" /\ result.status = "403"))
  /\ UNCHANGED <<abort, call, trans, spinner, spinning, shown, pressed, budget>>

-----------------------------------------------------------------------------
(* The spinner thread, the signal handler, the user and the clock.          *)

Spin ==
  /\ \/ spinner = "look" /\ spinner' = (IF spinning THEN "frame" ELSE "clear") /\ UNCHANGED line
     \/ spinner = "frame" /\ spinner' = "look" /\ line' = "spinner"
     \/ spinner = "clear" /\ spinner' = "ended" /\ line' = "clean"
  /\ UNCHANGED <<pc, flags, call, trans, spinning, shown, pressed, enabled, budget>>

SigintHandler ==
  /\ pc # "idle" /\ pressed' = TRUE
  /\ abort' = (abort \/ active)
  /\ UNCHANGED <<pc, active, call, trans, display, enabled, budget>>

OnOff ==
  /\ pc = "idle" /\ enabled' = ~enabled
  /\ UNCHANGED <<pc, flags, call, trans, display, pressed, budget>>

Tick ==
  /\ now < Horizon /\ now' = now + 1
  /\ UNCHANGED <<pc, flags, call, trans, display, pressed, enabled, stamps, last, requests>>

-----------------------------------------------------------------------------
Main ==
  \/ ClearFlag \/ MarkActive \/ StartSpinner \/ Aborts \/ FirstByte
  \/ AfterAttempt \/ Wake \/ StopSpinner \/ End

Next ==
  \/ Ask \/ Hook \/ Test
  \/ Main \/ Connect \/ Chunk \/ Answered \/ Fails
  \/ Spin \/ SigintHandler \/ OnOff \/ Tick

Spec == Init /\ [][Next]_vars

\* The two threads run.  Nothing is assumed of the server.
FairSpec == Spec /\ WF_vars(Main) /\ WF_vars(Spin)

\* Besides, CURLOPT_TIMEOUT ends a transfer the server does not.
TimedSpec == FairSpec /\ WF_vars(Fails)

-----------------------------------------------------------------------------
\* The user sees the answer of one attempt: once something is shown, neither a
\* retry nor another model says it again.
NothingTwice == Cardinality(shown) <= 1

\* The spinner, which erases the line it writes to, is gone before there is text.
TextUndisturbed == line = "text" => spinner = "none"

\* A question, or the hook's, ends as cancelled only if Ctrl-C was pressed during
\* it.  The connection test does not clear the flag first, and so may end by the
\* Ctrl-C of an earlier request.
CancelledOnlyIfAsked == (result.transport = "aborted" /\ kind # "test") => pressed

\* Once Ctrl-C has armed the flag no HTTP request goes out, by a retry or a
\* fallback either.
NoRequestAfterCancel == [][(abort /\ active) => requests' = requests]_vars

\* The prompt comes back after every request, given the transport timeouts, and
\* after Ctrl-C without another one.
RequestEnds == NoRequestAfterCancel /\ ((pc # "idle") ~> (pc = "idle"))

\* In any window there are at most max_requests_ tokens, of @ai and of the hook
\* together.
SharedBudget ==
  Cardinality({s \in stamps : now - Window < s[1] /\ s[1] <= now}) <= MaxRequests

=============================================================================
