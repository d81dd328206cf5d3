--------------------------- MODULE RequestLogging ---------------------------
(***************************************************************************)
(* The logs of GraphQL requests: an Apollo server with one of the two      *)
(* logging plugins of the toolkit, and the transport behind pino.          *)
(*   apollo-logger gathers the logs of a request in its context and hands  *)
(*   them to persistLogsFn; resolvers may log to the same context.         *)
(*   pino-apollo logs with pino, at level info, whose records go to the    *)
(*   transport of BatchQueue, and changes the errors that are sent.        *)
(* Both replace the messages of errors when securedMessages is set.        *)
(* Requests interleave wherever a hook awaits; Apollo calls the hooks of a *)
(* request in turn and awaits them (external).                             *)
(* Bounds: Requests; MaxErrors errors over all requests; MaxCalls logs of  *)
(* resolvers over all requests, which are those of Callers.                *)
(***************************************************************************)
EXTENDS Integers, Sequences, FiniteSets

CONSTANTS Requests, Callers, securedMessages, MaxErrors, MaxCalls, MaxLogs, batchLimit

ASSUME LoggingAssumption ==
  /\ Callers \subseteq Requests
  /\ securedMessages \in BOOLEAN
  /\ {MaxErrors, MaxCalls} \subseteq Nat
  /\ MaxLogs \in Nat /\ batchLimit \in Nat \ {0}
  /\ MaxLogs >= Cardinality(Requests) + MaxErrors

VARIABLES
  plugin,
  persists,   \* whether there is a persistLogsFn
  LEVEL,      \* APOLLO_LOGGING_LEVEL
  phase,      \* the hook each request comes to next
  operation,  \* what the plugin takes its operation for
  errors,     \* its errors, as they would be sent now
  done,       \* how many of them didEncounterErrors has seen
  failures,   \* how many errors there were, in all requests
  appended,   \* apollo-logger: how many logs were appended to its context,
  logs,       \*   which of them are in context.logs,
  due,        \*   which have to be given to persistLogsFn yet,
  persisting, \*   how many calls of resolvers wait for persistLogsFn,
  calls,      \*   and how many resolvers have made, for all requests
  records,    \* pino-apollo: what the logs say that came to the transport
  enqueued, queue, loop, closer, batch, table, dropped   \* BatchQueue

settings == <<plugin, persists, LEVEL>>
requestVars == <<phase, operation, errors, done, failures>>
contextVars == <<appended, logs, due, persisting, calls>>
transportVars == <<enqueued, queue, loop, closer, batch, table, dropped>>
vars == <<settings, requestVars, contextVars, records, transportVars>>

Transport == INSTANCE BatchQueue

Of(value) == [r \in Requests |-> value]

Init ==
  /\ plugin \in {"apollo-logger", "pino-apollo"}
  /\ persists \in (IF plugin = "apollo-logger" THEN BOOLEAN ELSE {FALSE})
  /\ LEVEL \in (IF plugin = "apollo-logger" THEN {"DEBUG", "INFO", "ERROR"} ELSE {"INFO"})
  /\ phase = Of("new") /\ operation = Of("other") /\ errors = Of(<< >>) /\ done = Of(0)
  /\ appended = Of(0) /\ logs = Of({}) /\ due = Of({}) /\ persisting = Of(0)
  /\ calls = 0 /\ failures = 0
  /\ records = << >>
  /\ Transport!Init

Apollo == plugin = "apollo-logger"
Goes(r, to) == phase' = [phase EXCEPT ![r] = to]

----------------------------------------------------------------------------
(* apollo-logger: the logger of a request's context.                       *)
shouldSkipLogging(name, level) ==
  \/ name = "introspection"
  \/ level = "INFO" /\ LEVEL = "ERROR"
  \/ level = "DEBUG" /\ LEVEL \in {"INFO", "ERROR"}

Appends(r) ==
  /\ appended' = [appended EXCEPT ![r] = @ + 1]
  /\ logs' = [logs EXCEPT ![r] = @ \cup {appended'[r]}]
AppendsDue(r) == Appends(r) /\ due' = [due EXCEPT ![r] = @ \cup {appended'[r]}]

(* logEvent of the plugin's own logger, which is given no persistLogsFn.   *)
PluginLogs(r, name, level) ==
  /\ IF Apollo /\ ~shouldSkipLogging(name, level) THEN AppendsDue(r)
     ELSE UNCHANGED <<appended, logs, due>>
  /\ UNCHANGED <<persisting, calls>>

(* logDbError without persistLogsFn appends a log and clears them all:     *)
(* they are not handed over, and are no longer due.                        *)
logDbError(r) ==
  /\ appended' = [appended EXCEPT ![r] = @ + 1]
  /\ due' = [due EXCEPT ![r] = @ \ logs[r]]
  /\ logs' = [logs EXCEPT ![r] = {}]
  /\ UNCHANGED persisting

\* Mutant: persistLogsFn is given the new log only.
HandsLast(r) ==
  /\ Appends(r)
  /\ due' = [due EXCEPT ![r] = @ \ {appended'[r]}]
(* A log is appended and all in the context are given to persistLogsFn.    *)
Hands(r) ==
  /\ Appends(r)
  /\ due' = [due EXCEPT ![r] = @ \ logs'[r]]

(* A resolver calls a logger that initializeLogger made for the context,   *)
(* with or without a persistLogsFn, whatever the plugin has, and under the *)
(* operation's name or another; it awaits the call or not.                 *)
ResolverCalls(r, level) ==
  /\ Apollo /\ r \in Callers /\ phase[r] \in {"executing", "responding", "persisting"}
  /\ \E name \in {operation[r], "other"} : ~shouldSkipLogging(name, level)
  /\ calls < MaxCalls /\ calls' = calls + 1
  /\ UNCHANGED <<settings, requestVars, records, transportVars>>

(* logInfo, logDebug or logError with persistLogsFn.                       *)
ResolverHands(r) ==
  /\ \E level \in {"DEBUG", "INFO", "ERROR"} : ResolverCalls(r, level)
  /\ Hands(r)
  /\ persisting' = [persisting EXCEPT ![r] = @ + 1]

(* logInfo or logDebug without it.  The log is due, unless another call    *)
(* awaits persistLogsFn, which was not given this log and will clear it.   *)
ResolverLogs(r) ==
  /\ \E level \in {"DEBUG", "INFO"} : ResolverCalls(r, level)
  /\ IF persisting[r] > 0 \/ phase[r] = "persisting"
     THEN Appends(r) /\ UNCHANGED due ELSE AppendsDue(r)
  /\ UNCHANGED persisting

(* logError without it.                                                    *)
ResolverClears(r) == ResolverCalls(r, "ERROR") /\ logDbError(r)

(* The promise of a skipped log never settles: nor does the resolver that  *)
(* awaits it.                                                              *)
ResolverHangs(r) ==
  /\ phase[r] = "executing" /\ Goes(r, "stuck")
  /\ \E level \in {"DEBUG", "INFO", "ERROR"} : shouldSkipLogging(operation[r], level)
  /\ UNCHANGED <<settings, operation, errors, done, failures, contextVars, records, transportVars>>

(* persistLogsFn of a resolver's log resolves, and the logs are cleared,   *)
(* those included that were appended meanwhile; or it rejects.             *)
ResolverPersisted(r) ==
  /\ persisting[r] > 0
  /\ persisting' = [persisting EXCEPT ![r] = @ - 1]
  /\ \E rejects \in BOOLEAN :
       logs' = IF rejects THEN logs ELSE [logs EXCEPT ![r] = {}]
  /\ UNCHANGED <<settings, requestVars, appended, due, calls, records, transportVars>>

----------------------------------------------------------------------------
(* pino-apollo: a record for the transport, which takes none once closed.  *)
Writes(r, i, message) ==
  IF closer = "open"
  THEN /\ Transport!Enqueue
       /\ records' = Append(records, [of |-> r, error |-> i, message |-> message])
  ELSE UNCHANGED <<records, transportVars>>
Silent == UNCHANGED <<records, transportVars>>

Raw(business) == [business |-> business, message |-> "raw", stack |-> TRUE]
Message == IF securedMessages THEN "secured" ELSE "full"

(* _enrichError                                                            *)
Enriched(e) ==
  [e EXCEPT !.message = Message, !.stack = @ /\ ~securedMessages]
(* _logRequestError: what becomes of an error once it is logged.           *)
\* Mutant: what is not logged is not enriched either.
SentWhenLogged(r, e) ==
  IF operation[r] = "introspection" THEN e
  ELSE IF e.business THEN [e EXCEPT !.stack = @ /\ ~securedMessages] ELSE Enriched(e)
Sent(r, e) ==
  IF e.business THEN [e EXCEPT !.stack = @ /\ ~securedMessages] ELSE Enriched(e)

\* Mutant: the error is logged after it was enriched.
LogsSent(r, i, e) ==
  IF operation[r] = "introspection" THEN Silent ELSE Writes(r, i, Sent(r, e).message)
LogsError(r, i, e) ==
  IF operation[r] = "introspection" THEN Silent ELSE Writes(r, i, e.message)

----------------------------------------------------------------------------
(* The operation's name comes from the request or, with pino-apollo, from  *)
(* the text of the query.                                                  *)
requestDidStart(r) ==
  /\ phase[r] = "new" /\ Goes(r, "parsing")
  /\ \E name \in {"introspection", "other"} :
       /\ operation' = [operation EXCEPT ![r] = name]
       /\ PluginLogs(r, name, "INFO")
       /\ IF Apollo \/ name = "introspection" THEN Silent ELSE Writes(r, 0, "started")
  /\ UNCHANGED <<settings, errors, done, failures>>

MayFail(n) == failures + n <= MaxErrors /\ failures' = failures + n
FailsWith(r, with) == MayFail(Len(with)) /\ errors' = [errors EXCEPT ![r] = with]

\* Mutant: the hook awaits its log, which never settles when skipped.
parsingDidStartAwaits(r) ==
  /\ Apollo /\ phase[r] = "parsing"
  /\ PluginLogs(r, operation[r], "DEBUG")
  /\ Goes(r, IF shouldSkipLogging(operation[r], "DEBUG") THEN "hung" ELSE "validating")
  /\ UNCHANGED <<settings, operation, errors, done, failures, records, transportVars>>
parsingDidStart(r) ==
  /\ Apollo /\ phase[r] = "parsing"
  /\ PluginLogs(r, operation[r], "DEBUG")
  /\ \/ Goes(r, "validating") /\ UNCHANGED <<errors, failures>>
     \/ Goes(r, "unparsable") /\ FailsWith(r, <<Raw(FALSE)>>)
  /\ UNCHANGED <<settings, operation, done, records, transportVars>>

(* The promise of a skipped logError never settles.                        *)
logError(r, then) ==
  IF operation[r] = "introspection"
  THEN Goes(r, "hung") /\ UNCHANGED contextVars
  ELSE Goes(r, then) /\ logDbError(r) /\ UNCHANGED calls

parsingDidEnd(r) ==
  /\ phase[r] = "unparsable"
  /\ logError(r, "failing")
  /\ UNCHANGED <<settings, operation, errors, done, failures, records, transportVars>>

validationDidStart(r) ==
  /\ phase[r] = "validating"
  /\ PluginLogs(r, operation[r], "DEBUG")
  /\ \/ Goes(r, "resolved") /\ UNCHANGED <<errors, failures>>
     \/ Goes(r, "failing") /\ FailsWith(r, <<Raw(FALSE)>>)
  /\ UNCHANGED <<settings, operation, done, records, transportVars>>

executionDidStart(r) ==
  /\ phase[r] = "resolved" /\ Goes(r, "executing")
  /\ PluginLogs(r, operation[r], "DEBUG")
  /\ UNCHANGED <<settings, operation, errors, done, failures, records, transportVars>>

(* Resolvers return or throw.  pino-apollo has no hook before this but     *)
(* didResolveOperation, in which the name of the document's first          *)
(* definition is taken for the operation's; none is reached by a document  *)
(* that is refused.                                                        *)
ExecutionEnds(r) ==
  /\ phase[r] = IF Apollo THEN "executing" ELSE "parsing"
  /\ \/ Goes(r, "responding") /\ UNCHANGED <<errors, failures>>
     \/ /\ Goes(r, "failing")
        /\ \E business \in BOOLEAN, n \in 1..2 :
             FailsWith(r, SubSeq(<<Raw(business), Raw(FALSE)>>, 1, n))
  /\ \E name \in (IF Apollo THEN {operation[r]} ELSE {"introspection", "other"}) :
       operation' = [operation EXCEPT ![r] = name]
  /\ UNCHANGED <<settings, done, contextVars, records, transportVars>>

(* didEncounterErrors, one error at a time.                                *)
didEncounterErrors(r) ==
  LET i == done[r] + 1
      next == IF i = Len(errors[r]) THEN "responding" ELSE "failing"
      becomes(e) == errors' = [errors EXCEPT ![r][i] = e]
  IN  /\ phase[r] = "failing"
      /\ IF Apollo
         THEN /\ logError(r, next) /\ Silent
              /\ IF operation[r] = "introspection" THEN UNCHANGED errors
                 ELSE becomes([errors[r][i] EXCEPT !.message = Message])
         ELSE /\ Goes(r, next) /\ UNCHANGED contextVars
              /\ LogsError(r, i, errors[r][i])
              /\ becomes(Sent(r, errors[r][i]))
      /\ done' = [done EXCEPT ![r] = i]
      /\ UNCHANGED <<settings, operation, failures>>

willSendResponse(r) ==
  /\ phase[r] = "responding"
  /\ IF persists
     THEN /\ Goes(r, "persisting")
          /\ IF shouldSkipLogging(operation[r], "DEBUG")
             THEN due' = [due EXCEPT ![r] = @ \ logs[r]] /\ UNCHANGED <<appended, logs>>
             ELSE Hands(r)
          /\ UNCHANGED <<persisting, calls>>
     ELSE Goes(r, "answered") /\ PluginLogs(r, operation[r], "DEBUG")
  /\ UNCHANGED <<settings, operation, errors, done, failures, records, transportVars>>

ResponsePersisted(r) ==
  /\ phase[r] = "persisting" /\ Goes(r, "answered")
  /\ logs' = [logs EXCEPT ![r] = {}]
  /\ UNCHANGED <<settings, operation, errors, done, failures, appended, due, persisting, calls,
                 records, transportVars>>

Answered(r, e) ==
  /\ Goes(r, "answered")
  /\ errors' = [errors EXCEPT ![r] = <<e>>]
  /\ UNCHANGED <<settings, operation, contextVars>>

(* persistLogsFn, or a hook of another plugin, throws: Apollo tells the    *)
(* plugins and answers with an error of its own.                           *)
unexpectedErrorProcessingRequest(r) ==
  /\ phase[r] \in {"failing", "resolved", "responding", "persisting"}
  /\ Answered(r, [business |-> FALSE, message |-> "internal", stack |-> FALSE])
  /\ MayFail(1)
  /\ IF Apollo THEN Silent ELSE LogsError(r, MaxErrors + 1, Raw(FALSE))
  /\ UNCHANGED done

(* contextCreationDidFail, invalidRequestWasReceived: hooks of pino-apollo.*)
logsServerError(r) ==
  /\ ~Apollo /\ phase[r] = "new" /\ MayFail(1)
  /\ Writes(r, 1, "raw")
  /\ Answered(r, Enriched(Raw(FALSE)))
  /\ done' = [done EXCEPT ![r] = 1]

----------------------------------------------------------------------------
(* The hooks of a request, once it has come.                               *)
Proceeds(r) ==
  \/ parsingDidStart(r) \/ parsingDidEnd(r) \/ validationDidStart(r)
  \/ executionDidStart(r) \/ ExecutionEnds(r) \/ didEncounterErrors(r)
  \/ willSendResponse(r) \/ ResponsePersisted(r)

Flushes(f) ==
  /\ ~Apollo /\ Transport!InsertEnds(f)
  /\ UNCHANGED <<settings, requestVars, contextVars, records>>
Ticks ==
  /\ ~Apollo /\ Transport!IntervalEnds
  /\ UNCHANGED <<settings, requestVars, contextVars, records>>
Closes ==
  /\ ~Apollo /\ Transport!Close
  /\ UNCHANGED <<settings, requestVars, contextVars, records>>

TransportEnds ==
  /\ ~Apollo /\ Transport!ThreadEnds
  /\ UNCHANGED <<settings, requestVars, contextVars, records>>

Next ==
  \/ \E r \in Requests :
       \/ requestDidStart(r) \/ Proceeds(r)
       \/ ResolverHands(r) \/ ResolverLogs(r) \/ ResolverClears(r)
       \/ ResolverPersisted(r) \/ ResolverHangs(r)
       \/ unexpectedErrorProcessingRequest(r) \/ logsServerError(r)
  \/ Ticks \/ Closes \/ TransportEnds
  \/ \E f \in {"loop", "close"} : Flushes(f)

(* Apollo goes on with a request, execution ends unless a resolver hangs,  *)
(* persistLogsFn, which the last hook awaits, settles, timers fire and     *)
(* inserts end.                                                            *)
Spec ==
  /\ Init /\ [][Next]_vars
  /\ \A r \in Requests : WF_vars(Proceeds(r))
  /\ WF_vars(Ticks) /\ \A f \in {"loop", "close"} : WF_vars(Flushes(f))

----------------------------------------------------------------------------
(* What a secured server sends does not tell what its errors said, except  *)
(* for the business errors of pino-apollo, which also hides every stack;   *)
(* whatever failed, and whether or not the error was logged (_enrichError, *)
(* logDbError).                                                            *)
SecuredAnswers ==
  \A r \in Requests : securedMessages /\ phase[r] = "answered" =>
    \A i \in DOMAIN errors[r] :
      LET e == errors[r][i]
      IN  /\ e.message \in {"secured", "internal"} \/ (~Apollo /\ e.business)
          /\ e.stack => Apollo

(* The log has what the client does not get: each error of a request that  *)
(* is no introspection came to the transport once, as it was thrown,       *)
(* though its object is changed to be sent (_logRequestError, _logError).  *)
ErrorsLoggedRaw ==
  ~Apollo /\ closer = "open" =>
    \A r \in Requests : operation[r] = "other" =>
      \A i \in 1..done[r] :
        /\ Cardinality({n \in DOMAIN records : records[n].of = r /\ records[n].error = i}) = 1
        /\ \E n \in DOMAIN records : records[n] = [of |-> r, error |-> i, message |-> "raw"]

(* When a request without errors is answered, all that was logged in its   *)
(* context was handed to persistLogsFn, though each call that awaits it    *)
(* clears what was appended meanwhile (logEvent).  Two kinds of logs may   *)
(* be lost, and no others: those of a logger without persistLogsFn while   *)
(* another call awaits it, and those in the context when logError is       *)
(* called of a logger without it (logDbError).                             *)
LogsHandedOver ==
  \A r \in Requests :
    persists /\ phase[r] = "answered" /\ errors[r] = << >> => due[r] = {}

(* Every request is answered, but for two that wait for the promise of a   *)
(* skipped log (initializeLogger): an introspection with errors, whose     *)
(* logError apollo-logger awaits, and a request of which a resolver awaits *)
(* a log, if it is an introspection or the level skips some.               *)
EveryRequestAnswered ==
  \A r \in Requests : phase[r] = "parsing" ~>
    \/ phase[r] = "answered"
    \/ Apollo /\ operation[r] = "introspection" /\ errors[r] # << >>
    \/ phase[r] = "stuck" /\ (operation[r] = "introspection" \/ LEVEL # "DEBUG")

(* What BatchQueue says of its logs, of the records of pino-apollo: each   *)
(* is in one place; in order until close; none is left in the queue; every *)
(* one but a last batch is written or dropped in the end; close stops the  *)
(* loop (flush).                                                           *)
EveryLogOnce == Transport!EveryLogOnce
WrittenInOrder == Transport!WrittenInOrder
CloseEmptiesQueue == Transport!CloseEmptiesQueue
EveryLogLeaves == Transport!EveryLogLeaves
CloseStopsLoop == Transport!CloseStopsLoop
=============================================================================
