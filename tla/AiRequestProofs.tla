-------------------------- MODULE AiRequestProofs --------------------------
(* What holds of a request for any number of models and chunks, any limits  *)
(* and any set of requesters.                                               *)
EXTENDS AiRequest, FiniteSetTheorems, TLAPS

\* The part of the state the proofs are about has its types.
Shape ==
  /\ pc \in {"idle", "clear", "mark", "ready", "perform", "join", "over", "sleep", "stop", "end"}
  /\ link \in {"new", "sent", "streaming"}
  /\ chunks \in Nat /\ model \in Nat /\ attempt \in Nat
  /\ spinner \in {"none", "look", "frame", "clear", "ended"}

\* Whatever has been shown is of the present attempt, whose transfer is a
\* stream with a 200 or without a status.
ShownNow ==
  /\ chunks > 0 => link = "streaming"
  /\ shown # {} => shown = {<<model, attempt>>} /\ chunks > 0 /\ kind = "ask"
  /\ (pc = "over" /\ link = "streaming") => result.status \in {"200", "none"}
  /\ pc = "sleep" => shown = {}
  /\ pc \in {"clear", "mark", "ready"} => shown = {} /\ chunks = 0

\* There is a spinner only inside the transfers, and none beside text.
SpinnerPlace ==
  /\ pc \in {"idle", "clear", "mark", "ready", "end"} => spinner = "none"
  /\ pc \in {"idle", "clear", "mark", "ready"} => line # "text"
  /\ (shown # {} /\ pc \notin {"join", "idle"}) => spinner = "none"
  /\ pc = "join" => shown # {} /\ line # "text"
  /\ line = "text" => shown # {}

IInv == Shape /\ ShownNow /\ SpinnerPlace

USE DEF flags, call, trans, display, budget

LEMMA InitIInv == Init => IInv
BY DEF Init, IInv, Shape, ShownNow, SpinnerPlace, NoResult

\* A request starts with nothing shown, and the spinner with nothing printed.
LEMMA StartKeepsIInv ==
  IInv /\ (Ask \/ Hook \/ Test \/ ClearFlag \/ MarkActive \/ StartSpinner) => IInv'
<1> SUFFICES ASSUME IInv, Ask \/ Hook \/ Test \/ ClearFlag \/ MarkActive \/ StartSpinner
             PROVE IInv'
    OBVIOUS
<1> USE DEF IInv, Shape, ShownNow, SpinnerPlace
<1>1. CASE Ask
      BY <1>1 DEF Ask, Enter, GivesUp, NoResult
<1>2. CASE Hook
      <2>1. pc = "idle" /\ (Enter("hook", "clear") \/ GivesUp)
            BY <1>2 DEF Hook
      <2> QED
          BY <2>1 DEF Enter, GivesUp, NoResult
<1>3. CASE Test
      BY <1>3 DEF Test, Enter, GivesUp, NoResult
<1>4. CASE ClearFlag
      BY <1>4 DEF ClearFlag
<1>5. CASE MarkActive
      BY <1>5 DEF MarkActive
<1>6. CASE StartSpinner
      BY <1>6 DEF StartSpinner
<1> QED
    BY <1>1, <1>2, <1>3, <1>4, <1>5, <1>6

\* The transfer.
LEMMA TransferKeepsIInv ==
  IInv /\ (Connect \/ Chunk \/ FirstByte \/ Answered \/ Fails \/ Aborts) => IInv'
<1> SUFFICES ASSUME IInv, Connect \/ Chunk \/ FirstByte \/ Answered \/ Fails \/ Aborts
             PROVE IInv'
    OBVIOUS
<1> USE DEF IInv, Shape, ShownNow, SpinnerPlace
<1>1. CASE Connect
      BY <1>1 DEF Connect, Goes
<1>2. CASE Chunk
      <2>1. chunks' > 0 /\ chunks' \in Nat /\ link' = "streaming" /\ kind' = "ask"
            BY <1>2 DEF Chunk, Goes, Streams
      <2>2. CASE UNCHANGED <<pc, spinning, line, shown>>
            BY <1>2, <2>1, <2>2 DEF Chunk, Goes, Streams
      <2>3. CASE shown' = shown \cup {<<model, attempt>>}
            <3>1. shown' = {<<model', attempt'>>}
                  BY <1>2, <2>3 DEF Chunk
            <3>2. shown' # {}
                  BY <3>1
            <3>3. CASE shown = {}
                  <4>1. pc' = "join" /\ line' = line
                        BY <1>2, <2>3, <3>1, <3>2, <3>3 DEF Chunk
                  <4>2. line # "text"
                        BY <3>3
                  <4> QED
                      BY <1>2, <2>1, <3>1, <3>2, <4>1, <4>2 DEF Chunk, Goes
            <3>4. CASE shown # {}
                  <4>1. pc' = pc /\ spinner' = spinner
                        BY <1>2, <2>3, <3>1, <3>2, <3>4 DEF Chunk
                  <4> QED
                      BY <1>2, <2>1, <3>1, <3>2, <3>4, <4>1 DEF Chunk, Goes
            <3> QED
                BY <3>3, <3>4
      <2> QED
          BY <1>2, <2>2, <2>3 DEF Chunk
<1>3. CASE FirstByte
      BY <1>3 DEF FirstByte
<1>4. CASE Answered
      BY <1>4 DEF Answered, Goes, Over
<1>5. CASE Fails
      BY <1>5 DEF Fails, Goes, Over
<1>6. CASE Aborts
      BY <1>6 DEF Aborts, Over
<1> QED
    BY <1>1, <1>2, <1>3, <1>4, <1>5, <1>6

\* What follows an attempt, and the other threads.
LEMMA RestKeepsIInv ==
  IInv /\ (AfterAttempt \/ Wake \/ StopSpinner \/ End \/ Spin \/ SigintHandler \/ OnOff \/ Tick)
    => IInv'
<1> SUFFICES ASSUME IInv,
                    AfterAttempt \/ Wake \/ StopSpinner \/ End \/ Spin \/ SigintHandler
                      \/ OnOff \/ Tick
             PROVE IInv'
    OBVIOUS
<1> USE DEF IInv, Shape, ShownNow, SpinnerPlace
<1>1. CASE AfterAttempt
      <2>1. CASE Retries
            <3>1. shown = {}
                  BY <2>1 DEF Retries, Streams
            <3> QED
                BY <1>1, <2>1, <3>1 DEF AfterAttempt
      <2>2. CASE ~Retries /\ FallsBack
            <3>1. link # "streaming"
                  BY <1>1, <2>2 DEF AfterAttempt, FallsBack, UnknownModel
            <3>2. shown = {}
                  BY <3>1
            <3> QED
                BY <1>1, <2>2, <3>2 DEF AfterAttempt
      <2>3. CASE ~Retries /\ ~FallsBack
            BY <1>1, <2>3 DEF AfterAttempt
      <2> QED
          BY <2>1, <2>2, <2>3
<1>2. CASE Wake
      BY <1>2 DEF Wake
<1>3. CASE StopSpinner
      BY <1>3 DEF StopSpinner
<1>4. CASE End
      BY <1>4 DEF End
<1>5. CASE Spin
      BY <1>5 DEF Spin
<1>6. CASE SigintHandler
      BY <1>6 DEF SigintHandler
<1>7. CASE OnOff
      BY <1>7 DEF OnOff
<1>8. CASE Tick
      BY <1>8 DEF Tick
<1> QED
    BY <1>1, <1>2, <1>3, <1>4, <1>5, <1>6, <1>7, <1>8

THEOREM Invariance == Spec => []IInv
<1>1. IInv /\ UNCHANGED vars => IInv'
      BY DEF IInv, Shape, ShownNow, SpinnerPlace, vars
<1>2. IInv /\ [Next]_vars => IInv'
      BY <1>1, StartKeepsIInv, TransferKeepsIInv, RestKeepsIInv DEF Next, Main
<1> QED
    BY <1>2, InitIInv, PTL DEF Spec

\* No retry and no fallback repeats text that has been shown
\* (llm_client.cpp:1058-1084, 1164-1184).
THEOREM ShownOnce == Spec => []NothingTwice
<1>1. IInv => NothingTwice
      <2> SUFFICES ASSUME IInv PROVE Cardinality(shown) <= 1
          BY DEF NothingTwice
      <2>1. CASE shown = {}
            BY <2>1, FS_EmptySet
      <2>2. CASE shown # {}
            <3>1. shown = {<<model, attempt>>}
                  BY <2>2 DEF IInv, ShownNow
            <3>2. Cardinality({<<model, attempt>>}) = 1
                  BY FS_Singleton
            <3> QED
                BY <3>1, <3>2
      <2> QED
          BY <2>1, <2>2
<1> QED
    BY <1>1, Invariance, PTL

\* The spinner thread has ended before the first text is printed
\* (ai_handler.cpp:109-122, 612-620).
THEOREM SpinnerGone == Spec => []TextUndisturbed
<1>1. IInv => TextUndisturbed
      BY DEF IInv, Shape, SpinnerPlace, TextUndisturbed
<1> QED
    BY <1>1, Invariance, PTL

-----------------------------------------------------------------------------
\* Of the requests that begin with begin_request: past the first of its stores
\* the flag is up only if Ctrl-C came.
Asked ==
  /\ (abort /\ kind # "test" /\ pc \notin {"idle", "clear"}) => pressed
  /\ CancelledOnlyIfAsked

\* A request that begins with begin_request is cancelled only by a Ctrl-C of
\* its own, never by that of an earlier one (ai_abort.h:29-51).
THEOREM CancelIsOwn == Spec => []CancelledOnlyIfAsked
<1> USE DEF CancelledOnlyIfAsked
<1>1. Init => Asked
      BY DEF Init, Asked, NoResult
<1>2. Asked /\ [Next]_vars => Asked'
      <2> SUFFICES ASSUME Asked, [Next]_vars PROVE Asked'
          OBVIOUS
      <2> USE DEF Asked
      <2>1. CASE Ask \/ Hook \/ Test
            BY <2>1 DEF Ask, Hook, Test, Enter, GivesUp, NoResult
      <2>2. CASE ClearFlag \/ MarkActive \/ StartSpinner
            BY <2>2 DEF ClearFlag, MarkActive, StartSpinner
      <2>3. CASE Connect \/ Chunk \/ FirstByte
            BY <2>3 DEF Connect, Chunk, FirstByte, Goes
      <2>4. CASE Answered \/ Fails \/ Aborts
            BY <2>4 DEF Answered, Fails, Aborts, Goes, Over
      <2>5. CASE AfterAttempt
            <3>1. pc = "over" /\ pc' # "idle" /\ UNCHANGED <<flags, kind, result, pressed>>
                  BY <2>5 DEF AfterAttempt
            <3> QED
                BY <3>1
      <2>8. CASE Wake
            <3>1. pc = "sleep" /\ pc' # "idle" /\ UNCHANGED <<flags, kind, result, pressed>>
                  BY <2>8 DEF Wake
            <3> QED
                BY <3>1
      <2>9. CASE StopSpinner
            <3>1. pc = "stop" /\ pc' # "idle" /\ UNCHANGED <<flags, kind, result, pressed>>
                  BY <2>9 DEF StopSpinner
            <3> QED
                BY <3>1
      <2>10. CASE End
            BY <2>10 DEF End
      <2>6. CASE Spin \/ SigintHandler \/ OnOff \/ Tick
            BY <2>6 DEF Spin, SigintHandler, OnOff, Tick
      <2>7. CASE UNCHANGED vars
            BY <2>7 DEF vars
      <2> QED
          BY <2>1, <2>2, <2>3, <2>4, <2>5, <2>6, <2>7, <2>8, <2>9, <2>10
             DEF Next, Main
<1>3. Asked => CancelledOnlyIfAsked
      BY DEF Asked
<1> QED
    BY <1>1, <1>2, <1>3, PTL DEF Spec

-----------------------------------------------------------------------------
\* There is a next attempt to sleep for, and a number for the next timestamp.
Typed == TypeOK /\ (pc = "sleep" => attempt < Attempts) /\ IsFiniteSet(stamps)

\* A new timestamp is one more, of this time.
LEMMA StampedIsTyped ==
  ASSUME IsFiniteSet(stamps), stamps \in SUBSET (Times \X Nat), now \in Times
  PROVE  Stamped \in SUBSET (Times \X Nat) /\ IsFiniteSet(Stamped)
<1> DEFINE Same == {s \in stamps : s[1] = now}
<1>1. Cardinality(Same) \in Nat
      <2>1. IsFiniteSet(Same)
            BY FS_Subset
      <2> QED
          BY <2>1, FS_CardinalityType
<1>2. <<now, Cardinality(Same)>> \in Times \X Nat
      BY <1>1
<1>3. Stamped = stamps \cup {<<now, Cardinality(Same)>>}
      BY DEF Stamped
<1> HIDE DEF Same
<1>4. IsFiniteSet(stamps \cup {<<now, Cardinality(Same)>>})
      BY FS_AddElement
<1> QED
    BY <1>2, <1>3, <1>4

\* The state has its types: no attempt and no model beyond the last is tried.
THEOREM TypeCorrect == Spec => []TypeOK
<1>1. Init => Typed
      <2> SUFFICES ASSUME Init PROVE Typed
          OBVIOUS
      <2>1. /\ active \in BOOLEAN /\ abort \in BOOLEAN /\ spinning \in BOOLEAN
            /\ pressed \in BOOLEAN /\ enabled \in BOOLEAN
            BY Zenon DEF Init
      <2>2. result \in [status : Statuses \cup {"none"}, transport : {"ok", "failed", "aborted"},
                       success : BOOLEAN]
            BY DEF Init, NoResult
      <2>3. /\ pc = "idle" /\ kind = "ask" /\ model = 1 /\ attempt = 1 /\ link = "new" /\ chunks = 0
            /\ spinner = "none" /\ line = "clean" /\ shown = {} /\ now = 0
            /\ stamps = {} /\ last = -1 /\ requests = 0
            BY DEF Init
      <2>4. IsFiniteSet(stamps)
            BY <2>3, FS_EmptySet
      <2> QED
          BY <2>1, <2>2, <2>3, <2>4, SizesAssumption, TimesAssumption DEF Typed, TypeOK, Times, Attempts
<1>2. Typed /\ [Next]_vars => Typed'
      <2> SUFFICES ASSUME Typed, [Next]_vars PROVE Typed'
          OBVIOUS
      <2> USE SizesAssumption, TimesAssumption DEF Typed, TypeOK, Attempts
      <2>1. CASE Ask \/ Hook \/ Test
            <3>1. stamps' = Stamped
                  BY <2>1 DEF Ask, Hook, Test, Allow, HookAllow
            <3>2. stamps' \in SUBSET (Times \X Nat) /\ IsFiniteSet(stamps')
                  BY <3>1, StampedIsTyped
            <3>3. NoResult \in [status : Statuses \cup {"none"}, transport : {"ok", "failed", "aborted"},
                                success : BOOLEAN]
                  BY DEF NoResult
            <3>4. \/ \E k \in {"ask", "hook", "test"}, at \in {"clear", "ready"} : Enter(k, at)
                  \/ GivesUp
                  BY <2>1 DEF Ask, Hook, Test
            <3>5. last' \in Times \cup {-1}
                  BY <2>1 DEF Ask, Hook, Test, GivesUp
            <3>6. CASE GivesUp
                  BY <3>2, <3>5, <3>6 DEF GivesUp
            <3>7. ASSUME NEW k \in {"ask", "hook", "test"}, NEW at \in {"clear", "ready"}, Enter(k, at)
                  PROVE  Typed'
                  <4>1. /\ active' \in BOOLEAN /\ abort' \in BOOLEAN /\ spinning' \in BOOLEAN
                        /\ enabled' \in BOOLEAN /\ pressed' \in BOOLEAN
                        <5>1. UNCHANGED <<active, abort, spinning, enabled>>
                              BY <3>7 DEF Enter
                        <5>2. pressed' \in BOOLEAN
                              BY <3>7, Zenon DEF Enter
                        <5> QED
                            BY <5>1, <5>2
                  <4>2. /\ pc' = at /\ kind' = k /\ model' = 1 /\ attempt' = 1 /\ link' = "new" /\ chunks' = 0
                        /\ result' = NoResult /\ shown' = {} /\ UNCHANGED <<spinner, line, now, requests>>
                        BY <3>7 DEF Enter
                  <4> QED
                      BY <3>2, <3>3, <3>5, <4>1, <4>2
            <3> QED
                BY <3>4, <3>6, <3>7
      <2>2. CASE ClearFlag
            <3>1. abort' \in BOOLEAN
                  BY <2>2, Zenon DEF ClearFlag
            <3>2. /\ pc' = "mark"
                  /\ UNCHANGED <<active, call, trans, display, pressed, enabled, budget>>
                  BY <2>2 DEF ClearFlag
            <3> QED
                BY <3>1, <3>2
      <2>3. CASE MarkActive
            <3>1. active' \in BOOLEAN
                  BY <2>3, Zenon DEF MarkActive
            <3>2. /\ pc' = "ready"
                  /\ UNCHANGED <<abort, call, trans, display, pressed, enabled, budget>>
                  BY <2>3 DEF MarkActive
            <3> QED
                BY <3>1, <3>2
      <2>4. CASE StartSpinner
            <3>1. spinning' \in BOOLEAN
                  <4>1. spinning' = TRUE \/ spinning' = spinning
                        BY <2>4 DEF StartSpinner
                  <4> QED
                      BY <4>1, Zenon
            <3>2. /\ pc' = "perform" /\ spinner' \in {"look", spinner}
                  /\ UNCHANGED <<flags, call, trans, line, shown, pressed, enabled, budget>>
                  BY <2>4 DEF StartSpinner
            <3> QED
                BY <3>1, <3>2
      <2>5. CASE Connect
            BY <2>5 DEF Connect, Goes
      <2>6. CASE Chunk
            <3>1. chunks' \in 0 .. MaxChunks /\ link' = "streaming" /\ pc = "perform"
                  BY <2>6 DEF Chunk, Goes
            <3>2. shown' = shown \/ shown' = shown \cup {<<model, attempt>>}
                  BY <2>6 DEF Chunk
            <3>3. shown' \subseteq (1 .. Models) \X (1 .. Attempts)
                  BY <3>2
            <3>4. /\ pc' \in {"perform", "join"} /\ spinning' \in BOOLEAN
                  /\ line' \in {"clean", "spinner", "text"}
                  BY <2>6, <3>1 DEF Chunk
            <3> QED
                BY <2>6, <3>1, <3>3, <3>4 DEF Chunk
      <2>7. CASE FirstByte
            BY <2>7 DEF FirstByte
      <2>8. CASE Answered
            <3>1. result' \in [status : Statuses \cup {"none"}, transport : {"ok", "failed", "aborted"},
                               success : BOOLEAN]
                  <4>1. PICK s \in IF link = "streaming" THEN {"200"} ELSE Statuses, ok \in BOOLEAN :
                          Over([status |-> s, transport |-> "ok", success |-> ok])
                        BY <2>8 DEF Answered
                  <4>2. s \in Statuses
                        BY DEF Statuses
                  <4> QED
                      BY <4>1, <4>2 DEF Over
            <3>2. pc' = "over"
                  BY <2>8 DEF Answered, Over
            <3> QED
                BY <2>8, <3>1, <3>2 DEF Answered
      <2>9. CASE Fails \/ Aborts
            <3>1. result' \in [status : Statuses \cup {"none"}, transport : {"ok", "failed", "aborted"},
                               success : BOOLEAN]
                  <4>1. \/ result' = [status |-> "none", transport |-> "failed", success |-> FALSE]
                        \/ result' = [status |-> "none", transport |-> "aborted", success |-> FALSE]
                        BY <2>9 DEF Fails, Aborts, Over
                  <4>2. ASSUME NEW tr \in {"failed", "aborted"}
                        PROVE  [status |-> "none", transport |-> tr, success |-> FALSE]
                                 \in [status : Statuses \cup {"none"}, transport : {"ok", "failed", "aborted"}, success : BOOLEAN]
                        OBVIOUS
                  <4> QED
                      BY ONLY <4>1, <4>2
            <3>2. pc' = "over"
                  BY <2>9 DEF Fails, Aborts, Over
            <3> QED
                BY <2>9, <3>1, <3>2 DEF Fails, Aborts
      <2>10. CASE AfterAttempt
            <3>1. CASE Retries
                  BY <2>10, <3>1 DEF AfterAttempt, Retries
            <3>2. CASE ~Retries /\ FallsBack
                  BY <2>10, <3>2 DEF AfterAttempt, FallsBack
            <3>3. CASE ~Retries /\ ~FallsBack
                  <4>1. spinning' \in BOOLEAN
                        <5>1. spinning' = FALSE
                              BY <2>10, <3>3 DEF AfterAttempt, TellSpinner
                        <5> QED
                            BY <5>1, Zenon
                  <4>2. /\ pc' = "stop"
                        /\ UNCHANGED <<model, attempt, link, chunks, flags, kind, result, spinner, line, shown,
                                        pressed, enabled, budget>>
                        BY <2>10, <3>3 DEF AfterAttempt
                  <4> QED
                      BY <4>1, <4>2
            <3> QED
                BY <3>1, <3>2, <3>3
      <2>11. CASE Wake
            BY <2>11 DEF Wake
      <2>12. CASE StopSpinner
            BY <2>12 DEF StopSpinner
      <2>13. CASE End
            <3>1. active' \in BOOLEAN /\ enabled' \in BOOLEAN
                  <4>1. active' = active \/ active' = FALSE
                        BY <2>13 DEF End
                  <4>2. enabled' = (enabled /\ ~(kind = "ask" /\ result.status = "403"))
                        BY <2>13 DEF End
                  <4> QED
                      BY <4>1, <4>2, Zenon
            <3>2. /\ pc' = "idle" /\ line' = "clean"
                  /\ UNCHANGED <<abort, call, trans, spinner, spinning, shown, pressed, budget>>
                  BY <2>13 DEF End
            <3> QED
                BY <3>1, <3>2
      <2>14. CASE Spin
            BY <2>14 DEF Spin
      <2>15. CASE SigintHandler
            BY <2>15 DEF SigintHandler
      <2>16. CASE OnOff
            BY <2>16 DEF OnOff
      <2>17. CASE Tick
            BY <2>17 DEF Tick, Times
      <2>18. CASE UNCHANGED vars
            BY <2>18 DEF vars
      <2> QED
          BY <2>1, <2>2, <2>3, <2>4, <2>5, <2>6, <2>7, <2>8, <2>9, <2>10, <2>11, <2>12, <2>13,
             <2>14, <2>15, <2>16, <2>17, <2>18 DEF Next, Main
<1>3. Typed => TypeOK
      BY DEF Typed
<1> QED
    BY <1>1, <1>2, <1>3, PTL DEF Spec

-----------------------------------------------------------------------------
\* The limiter's timestamps are none of the future, so that what a later window
\* holds of them a present one does.
Budgeted ==
  /\ now \in Times
  /\ IsFiniteSet(stamps) /\ stamps \in SUBSET (Times \X Nat)
  /\ \A s \in stamps : s[1] <= now
  /\ SharedBudget

\* What the limiter lets through leaves at most its number in the window.
LEMMA AllowKeepsBudget ==
  ASSUME Budgeted, Allow, now' = now
  PROVE  Budgeted'
<1> USE TimesAssumption, SizesAssumption
<1>1. /\ now \in Times /\ now \in Nat
      /\ IsFiniteSet(stamps) /\ stamps \in SUBSET (Times \X Nat)
      BY DEF Budgeted, Times
<1> DEFINE New == <<now, Cardinality({s \in stamps : s[1] = now})>>
<1>2. stamps' = stamps \cup {New}
      BY DEF Allow, Stamped
<1>3. New[1] = now
      OBVIOUS
<1> HIDE DEF New
<1>4. IsFiniteSet(Recent) /\ Cardinality(Recent) \in Nat
      <2>1. Recent \subseteq stamps
            BY DEF Recent
      <2>2. IsFiniteSet(Recent)
            BY <1>1, <2>1, FS_Subset
      <2> QED
          BY <2>2, FS_CardinalityType
<1>5. {s \in stamps' : now' - Window < s[1] /\ s[1] <= now'} = Recent \cup {New}
      <2>1. now - Window < now
            BY <1>1
      <2>2. \A s \in stamps : s[1] \in Int
            BY <1>1 DEF Times
      <2>3. ASSUME NEW s \in stamps
            PROVE  (now - Window < s[1] /\ s[1] <= now) <=> s \in Recent
            BY <1>1, <2>2 DEF Recent
      <2>4. Recent \subseteq stamps
            BY DEF Recent
      <2> QED
          BY <1>1, <1>2, <1>3, <2>1, <2>3, <2>4
<1>6. Cardinality(Recent \cup {New}) <= Cardinality(Recent) + 1
      <2>1. \/ Cardinality(Recent \cup {New}) = Cardinality(Recent)
            \/ Cardinality(Recent \cup {New}) = Cardinality(Recent) + 1
            BY <1>4, FS_AddElement, Zenon
      <2> QED
          BY <1>4, <2>1
<1>7. SharedBudget'
      <2>1. Cardinality(Recent) < MaxRequests
            BY DEF Allow
      <2>2. Cardinality(Recent \cup {New}) \in Int
            BY <1>4, FS_AddElement, FS_CardinalityType
      <2>3. Cardinality(Recent \cup {New}) <= MaxRequests
            BY <1>4, <1>6, <2>1, <2>2
      <2> QED
          BY <1>5, <2>3 DEF SharedBudget
<1>8. stamps' \in SUBSET (Times \X Nat) /\ IsFiniteSet(stamps')
      BY <1>1, StampedIsTyped DEF Allow
<1>9. \A s \in stamps' : s[1] <= now'
      BY <1>1, <1>2, <1>3 DEF Budgeted
<1> QED
    BY <1>1, <1>7, <1>8, <1>9 DEF Budgeted

\* When the clock moves on, the window only loses timestamps.
LEMMA TickKeepsBudget ==
  ASSUME Budgeted, Tick
  PROVE  Budgeted'
<1> USE TimesAssumption, SizesAssumption
<1>1. /\ now \in Times /\ now \in Nat
      /\ IsFiniteSet(stamps) /\ stamps \in SUBSET (Times \X Nat)
      /\ \A s \in stamps : s[1] <= now
      BY DEF Budgeted, Times
<1>2. now' = now + 1 /\ now' \in Times /\ stamps' = stamps
      BY <1>1 DEF Tick, Times
<1> DEFINE Before == {s \in stamps : now - Window < s[1] /\ s[1] <= now}
           After  == {s \in stamps' : now' - Window < s[1] /\ s[1] <= now'}
<1>3. After \subseteq Before
      <2>1. \A s \in stamps : s[1] \in Int
            BY <1>1 DEF Times
      <2> QED
          BY <1>1, <1>2, <2>1
<1>4. IsFiniteSet(Before)
      BY <1>1, FS_Subset
<1>5. Cardinality(Before) <= MaxRequests
      BY DEF Budgeted, SharedBudget
<1> HIDE DEF Before, After
<1>6. IsFiniteSet(After) /\ Cardinality(After) <= Cardinality(Before)
      BY <1>3, <1>4, FS_Subset
<1>7. Cardinality(After) \in Nat /\ Cardinality(Before) \in Nat
      BY <1>4, <1>6, FS_CardinalityType
<1>8. Cardinality(After) <= MaxRequests
      BY <1>5, <1>6, <1>7
<1>9. SharedBudget'
      BY <1>8 DEF After, SharedBudget
<1>10. \A s \in stamps' : s[1] <= now'
       <2>1. \A s \in stamps : s[1] \in Int
             BY <1>1 DEF Times
       <2> QED
           BY <1>1, <1>2, <2>1
<1> QED
    BY <1>1, <1>2, <1>9, <1>10 DEF Budgeted

\* Requests of @ai and of the hook together keep to the limiter's number in every
\* window.
THEOREM BudgetIsShared == Spec => []SharedBudget
<1>1. Init => Budgeted
      <2> SUFFICES ASSUME Init PROVE Budgeted
          OBVIOUS
      <2>1. stamps = {} /\ now = 0
            BY DEF Init
      <2>2. {s \in stamps : now - Window < s[1] /\ s[1] <= now} = {}
            BY <2>1
      <2>3. SharedBudget
            BY <2>2, FS_EmptySet, SizesAssumption DEF SharedBudget
      <2> QED
          BY <2>1, <2>3, FS_EmptySet, TimesAssumption DEF Budgeted, Times
<1>2. Budgeted /\ [Next]_vars => Budgeted'
      <2> SUFFICES ASSUME Budgeted, [Next]_vars PROVE Budgeted'
          OBVIOUS
      <2>1. CASE Ask \/ Hook \/ Test
            <3>1. Allow
                  BY <2>1 DEF Ask, Hook, Test, HookAllow
            <3>2. now' = now
                  BY <2>1 DEF Ask, Hook, Test, Enter, GivesUp
            <3> QED
                BY <3>1, <3>2, AllowKeepsBudget
      <2>2. CASE Tick
            BY <2>2, TickKeepsBudget
      <2>3. CASE ~(Ask \/ Hook \/ Test \/ Tick)
            <3>1. UNCHANGED <<now, stamps>>
                  <4>1. CASE Main
                        BY <4>1 DEF Main, ClearFlag, MarkActive, StartSpinner, Aborts, FirstByte,
                                    AfterAttempt, Wake, StopSpinner, End
                  <4>2. CASE Connect \/ Chunk \/ Answered \/ Fails
                        BY <4>2 DEF Connect, Chunk, Answered, Fails
                  <4>3. CASE Spin \/ SigintHandler \/ OnOff \/ UNCHANGED vars
                        BY <4>3 DEF Spin, SigintHandler, OnOff, vars
                  <4> QED
                      BY <2>3, <4>1, <4>2, <4>3 DEF Next
            <3> QED
                BY <3>1 DEF Budgeted, SharedBudget
      <2> QED
          BY <2>1, <2>2, <2>3
<1>3. Budgeted => SharedBudget
      BY DEF Budgeted
<1> QED
    BY <1>1, <1>2, <1>3, PTL DEF Spec

\* After Ctrl-C no attempt connects: not the retry whose sleep the signal cuts
\* short, nor the next model.
THEOREM CancelStopsRequests == Spec => NoRequestAfterCancel
<1>1. [Next]_vars => [(abort /\ active) => requests' = requests]_vars
      <2> SUFFICES ASSUME Next, abort, active PROVE requests' = requests
          OBVIOUS
      <2>1. ~Connect
            BY DEF Connect, Goes
      <2>2. CASE Ask \/ Hook \/ Test
            BY <2>2 DEF Ask, Hook, Test, Enter, GivesUp
      <2>3. CASE Main
            BY <2>3 DEF Main, ClearFlag, MarkActive, StartSpinner, Aborts, FirstByte,
                        AfterAttempt, Wake, StopSpinner, End
      <2>4. CASE Chunk \/ Answered \/ Fails \/ Spin \/ SigintHandler \/ OnOff \/ Tick
            BY <2>4 DEF Chunk, Answered, Fails, Spin, SigintHandler, OnOff, Tick
      <2> QED
          BY <2>1, <2>2, <2>3, <2>4 DEF Next
<1> QED
    BY <1>1, PTL DEF Spec, NoRequestAfterCancel

=============================================================================
