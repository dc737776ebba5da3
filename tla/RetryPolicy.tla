---------------------------- MODULE RetryPolicy -----------------------------
(***************************************************************************)
(* activity/options.go, builder.go, errors.go and recover.go: the options  *)
(* an activity is started with, by a preset or by the fluent builder, and  *)
(* what they make of its attempts.  Time is counted in half seconds.       *)
(*                                                                         *)
(* External, modelled from how the options are used: the server starts     *)
(* another attempt unless the error carries the non-retryable flag or has  *)
(* a listed type, the attempts are used up, or the next attempt would not  *)
(* start before the ScheduleToClose window ends; an attempt is cut when it *)
(* stops heartbeating, at its StartToClose timeout or at the window's end. *)
(* An attempt is one step, from its start to its end.                      *)
(***************************************************************************)
EXTENDS Integers, Sequences

CONSTANTS
  MaxCalls,  \* bound: builder calls before Build
  MaxTries,  \* bound: attempts the model follows
  Lags       \* how long a due attempt may wait for a free worker

ASSUME TriesAssumption == MaxCalls \in Nat /\ MaxTries \in Nat
ASSUME LagsAssumption == Lags \subseteq Nat

VARIABLES
  origin,    \* "preset" or "builder"
  calls,     \* builder calls made
  opts,      \* the builder's fields, or the options of a preset
  phase,     \* "building", "due", "failed" or "closed"
  clock,     \* since the activity was scheduled
  attempts,  \* attempts started
  delay,     \* the wait before the last retry
  last,      \* how the last attempt ended
  retried,   \* errors that were followed by another attempt
  prompt     \* no attempt took time, waited or was cut

retryVars == <<origin, calls, opts, phase, clock, attempts, delay, last, retried, prompt>>

Seconds(n) == 2 * n
Minutes(n) == Seconds(60 * n)
Hours(n) == Minutes(60 * n)
Least(a, b) == IF a < b THEN a ELSE b

-----------------------------------------------------------------------------
(* errors.go and recover.go.                                               *)

NewRetryableError == [type |-> "RetryableError", nonRetryable |-> FALSE]

\* Mistake: business errors rely on the list of types alone.
BusinessErrorByType(code) == [type |-> code, nonRetryable |-> FALSE]

NewBusinessError(code) == [type |-> code, nonRetryable |-> TRUE]

NewCompensationError == NewBusinessError("CompensationError")

\* A type comparison; the flag is not looked at.
IsBusinessError(err, code) == err.type = code

\* Codes the callers of NewBusinessError use: a listed one, and one that is not.
Codes == {"ExpiredOffer", "LoanRejected"}

\* The other ways in which an attempt ends; an error of another origin has no
\* type, or one that looks like ours.
Other(type) == [type |-> type, nonRetryable |-> FALSE]
Success == [type |-> "success", nonRetryable |-> TRUE]

\* What the activity function may do; ctxDone: its context was done before it
\* began.
Behaviours == {NewRetryableError, NewCompensationError, Success}
              \cup {NewBusinessError(c) : c \in Codes}
              \cup {Other(t) : t \in {"", "ExpiredOffer", "panic", "ctxDone"}}

Outcomes ==
  [type : Codes \cup {"", "RetryableError", "CompensationError", "timeout", "success"},
   nonRetryable : BOOLEAN]

\* Mistake: a panic is taken for a permanent failure.
PanicIsFinal(b) ==
  CASE b.type = "panic" -> NewCompensationError
    [] b.type = "ctxDone" -> Other("")
    [] OTHER -> b

\* The wrapped activity: a panic becomes a retryable error, and a context that
\* is already done is reported without a call.
WithPanicRecovery(b) ==
  CASE b.type = "panic" -> NewRetryableError
    [] b.type = "ctxDone" -> Other("")
    [] OTHER -> b

-----------------------------------------------------------------------------
(* options.go.                                                             *)

\* The listed types that matter here; the other five are like the first.
businessErrorCodes == {"ExpiredOffer", "CompensationError"}

Options(window, try, heartbeat, tries, first, coefficient, most) ==
  [scheduleToClose |-> window, startToClose |-> try, heartbeat |-> heartbeat,
   maxAttempts |-> tries, initialInterval |-> first, backoff |-> coefficient,
   maxInterval |-> most, nonRetryable |-> businessErrorCodes]

FinancialAPIOptions ==
  Options(Minutes(5), Minutes(2), Seconds(30), 5, Seconds(2), 2, Seconds(30))

NotificationOptions ==
  Options(Minutes(2), Minutes(1), 0, 3, Seconds(5), 1, Seconds(5))

\* Mistake: the retries begin with one second.
InternalServiceOptionsSlower ==
  Options(Minutes(1), Seconds(30), 0, 10, Seconds(1), 2, Seconds(10))

\* The first interval is 500 milliseconds.
InternalServiceOptions ==
  Options(Minutes(1), Seconds(30), 0, 10, 1, 2, Seconds(10))

\* Mistake: one attempt may take the whole window, and need not heartbeat.
LongRunningOptionsWhole ==
  Options(Hours(24), Hours(24), 0, 3, Seconds(10), 2, Minutes(5))

LongRunningOptions ==
  Options(Hours(24), Hours(23), Seconds(60), 3, Seconds(10), 2, Minutes(5))

Presets == {FinancialAPIOptions, NotificationOptions, InternalServiceOptions,
            LongRunningOptions}

-----------------------------------------------------------------------------
(* builder.go.                                                             *)

NewOptionsBuilder == Options(Minutes(5), Minutes(2), 0, 5, Seconds(2), 2, Seconds(30))

\* Unlimited attempts and no listed types; the window stays.
NoRetry(b) == [b EXCEPT !.maxAttempts = 0, !.nonRetryable = {}]

\* One call on the builder: each sets its field, AddNonRetryableErrors extends it.
With(b) ==
       {[b EXCEPT !.scheduleToClose = d] : d \in {Seconds(20), Minutes(10)}}
  \cup {[b EXCEPT !.startToClose = d] : d \in {0, Seconds(30), Minutes(5)}}
  \cup {[b EXCEPT !.heartbeat = d] : d \in {0, Seconds(45)}}
  \cup {[b EXCEPT !.maxAttempts = n] : n \in {0, 1, 7}}
  \cup {[b EXCEPT !.initialInterval = d] : d \in {1, Seconds(20)}}
  \cup {[b EXCEPT !.maxInterval = d] : d \in {Seconds(20), Minutes(2)}}
  \cup {[b EXCEPT !.backoff = c] : c \in {1, 2}}
  \cup {[b EXCEPT !.nonRetryable = cs] : cs \in {{}, {"LoanRejected"}}}
  \cup {[b EXCEPT !.nonRetryable = @ \cup {"LoanRejected"}]}
  \cup {NoRetry(b)}

\* Build leaves an unset StartToClose out; the server then allows the window.
StartToClose == IF opts.startToClose > 0 THEN opts.startToClose ELSE opts.scheduleToClose

-----------------------------------------------------------------------------
RetryInit ==
  /\ \/ origin = "preset" /\ opts \in Presets /\ phase = "due"
     \/ origin = "builder" /\ opts = NewOptionsBuilder /\ phase = "building"
  /\ calls = 0
  /\ clock = 0
  /\ attempts = 0
  /\ delay = 0
  /\ last = Success
  /\ retried = {}
  /\ prompt = TRUE

BuilderCall ==
  /\ phase = "building"
  /\ calls < MaxCalls
  /\ opts' \in With(opts)
  /\ calls' = calls + 1
  /\ UNCHANGED <<origin, phase, clock, attempts, delay, last, retried, prompt>>

Build ==
  /\ phase = "building"
  /\ phase' = "due"
  /\ UNCHANGED <<origin, calls, opts, clock, attempts, delay, last, retried, prompt>>

\* The wait before the next attempt.
Backoff == IF attempts = 1 THEN opts.initialInterval
                          ELSE Least(opts.maxInterval, delay * opts.backoff)

Window == opts.scheduleToClose

\* A worker runs the attempt after a lag, and the activity ends as b says, at
\* once or half way to its timeout.
AttemptEnds(lag, b) ==
  /\ phase = "due"
  /\ clock + lag < Window
  /\ attempts < MaxTries
  /\ \E d \in {0, StartToClose \div 2} :
       /\ clock + lag + d < Window
       /\ clock' = clock + lag + d
       /\ prompt' = (prompt /\ lag + d = 0)
  /\ attempts' = attempts + 1
  /\ last' = WithPanicRecovery(b)
  /\ phase' = "failed"
  /\ UNCHANGED <<origin, calls, opts, delay, retried>>

\* The worker dies, or the activity hangs, beating or not; the server cuts it.
AttemptIsCut(lag) ==
  /\ phase = "due"
  /\ clock + lag < Window
  /\ attempts < MaxTries
  /\ \E d \in {StartToClose} \cup ({opts.heartbeat} \ {0}) :
       clock' = Least(Window, clock + lag + Least(d, StartToClose))
  /\ attempts' = attempts + 1
  /\ last' = Other("timeout")
  /\ prompt' = FALSE
  /\ phase' = "failed"
  /\ UNCHANGED <<origin, calls, opts, delay, retried>>

\* No worker takes the attempt before the window ends.
WindowEnds ==
  /\ phase = "due"
  /\ clock' = Window
  /\ last' = Other("timeout")
  /\ prompt' = FALSE
  /\ phase' = "closed"
  /\ UNCHANGED <<origin, calls, opts, attempts, delay, retried>>

Retryable(e) == ~e.nonRetryable /\ e.type \notin opts.nonRetryable
AttemptsLeft == opts.maxAttempts = 0 \/ attempts < opts.maxAttempts
Fits == clock + Backoff <= Window

\* The server decides about the attempt that has ended.
Retry ==
  /\ phase = "failed"
  /\ Retryable(last) /\ AttemptsLeft /\ Fits
  /\ delay' = Backoff
  /\ clock' = clock + Backoff
  /\ retried' = retried \cup {last}
  /\ phase' = "due"
  /\ UNCHANGED <<origin, calls, opts, attempts, last, prompt>>

Close ==
  /\ phase = "failed"
  /\ ~(Retryable(last) /\ AttemptsLeft /\ Fits)
  /\ phase' = "closed"
  /\ UNCHANGED <<origin, calls, opts, clock, attempts, delay, last, retried, prompt>>

Attempt ==
  \E lag \in Lags : AttemptIsCut(lag) \/ \E b \in Behaviours : AttemptEnds(lag, b)

RetryNext == BuilderCall \/ Build \/ Attempt \/ WindowEnds \/ Retry \/ Close

RetrySpec == RetryInit /\ [][RetryNext]_retryVars

-----------------------------------------------------------------------------
\* A business error ends the activity at once whatever the builder was told,
\* NoRetry included; under a preset so does every error of a listed type,
\* whoever made it.
BusinessErrorIsFinal ==
  \A e \in retried :
    /\ \A c \in Codes \cup {"CompensationError"} : e # NewBusinessError(c)
    /\ origin = "preset" => \A c \in businessErrorCodes : ~IsBusinessError(e, c)

Transient == {NewRetryableError, WithPanicRecovery(Other("panic")), Other("timeout")}

\* An infrastructure error, a timeout or a panic ends an activity only when its
\* attempts are used up or the window has no room for another one; neither
\* limit is ever exceeded, and no panic reaches the server as such.
TransientErrorIsRetried ==
  /\ clock \in 0 .. Window
  /\ opts.maxAttempts > 0 => attempts <= opts.maxAttempts
  /\ last \in Outcomes
  /\ (phase = "closed" /\ last \in Transient) =>
       \/ opts.maxAttempts = attempts
       \/ clock = Window
       \/ clock + Backoff > Window

\* The windows of the presets have room for every attempt they promise when
\* each of them fails at once.
PromptFailuresUseAllAttempts ==
  (/\ origin = "preset" /\ phase = "closed"
   /\ prompt /\ last = NewRetryableError) => attempts = opts.maxAttempts

\* One worker that dies, or one activity that hangs, in its first attempt does
\* not cost a preset activity its result: there is time for a second one, if
\* the first one had a worker within 29 seconds.  (After 29.5 seconds of waiting
\* WithInternalServiceOptions has no time left in its minute.)
OneCutAttemptIsSurvived ==
  (origin = "preset" /\ phase = "failed" /\ attempts = 1 /\ last = Other("timeout")) =>
    AttemptsLeft /\ Fits /\ clock + Backoff < Window
=============================================================================
