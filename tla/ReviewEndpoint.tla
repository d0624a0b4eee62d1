--------------------------- MODULE ReviewEndpoint ---------------------------
(***************************************************************************)
(* How a review travels and what becomes of the answer, as operators: the  *)
(* lane and its transport (src/src/auto/model-channel.ts), the fence around *)
(* the target (src/src/auto/trust.ts), one POST and the reading of its      *)
(* reply (src/src/auto/endpoint-call.ts), and the failure the retry loop is *)
(* told (src/src/auto/review-pipeline.ts, src/src/auto/retry.ts).           *)
(*                                                                         *)
(* A filled setting is TRUE.  A URL is its scheme and the kind of its host; *)
(* an address is the range it lies in; a body is how far it can be read.    *)
(***************************************************************************)
EXTENDS Integers

Sources   == {"session", "preset", "endpoint"}
Protocols == {"openai", "anthropic", "responses", "systemone"}
Schemes   == {"https", "http", "bare", "other"}
Hosts     == {"loopback", "name", "public", "private", "proxy"}

Settings ==
  [source : Sources, provider : BOOLEAN, model : BOOLEAN,
   endpoint : [filled : BOOLEAN, parses : BOOLEAN, scheme : Schemes, host : Hosts,
               protocol : Protocols],
   route : BOOLEAN]   \* the session has a model route of its own

\* normalizeLane: only an incomplete preset is an error.
NormalizeLane(s) ==
  [source |-> s.source, error |-> s.source = "preset" /\ ~(s.provider /\ s.model)]

\* resolveTransport.  Nobody follows the session who did not choose it.
ResolveTransport(s) ==
  LET lane == NormalizeLane(s) IN
  CASE lane.source = "session"  -> IF s.route THEN "host" ELSE "none"
    [] lane.source = "preset"   -> IF lane.error THEN "none" ELSE "host"
    [] lane.source = "endpoint" -> IF s.endpoint.filled THEN "raw" ELSE "none"

\* validateReviewerBaseUrl: cleartext stays on the machine.
ValidBaseUrl(e) ==
  /\ e.parses /\ e.scheme # "other"
  /\ e.scheme \in {"http", "bare"} => e.host = "loopback"

\* The part of buildReviewSnapshot that awaits nothing: a host route, an
\* endpoint whose key is still to be resolved, or a failure.
Snapshot(s) ==
  CASE ResolveTransport(s) = "none" -> "refused"
    [] ResolveTransport(s) = "host" -> "host"
    [] OTHER -> IF s.endpoint.protocol # "systemone" /\ ValidBaseUrl(s.endpoint)
                THEN "raw" ELSE "refused"

\* resolvePublicReviewerTarget: every address is public, or all of them are a
\* proxy's.  A literal is its own answer, a name has those of this attempt.
Resolutions == SUBSET {"public", "private", "proxy"}
Answers(host, resolved) == IF host = "name" THEN resolved ELSE {host}
TargetAllowed(host, resolved) ==
  LET addresses == Answers(host, resolved) IN
  \/ host = "loopback"
  \/ addresses # {} /\ (addresses \subseteq {"public"} \/ addresses = {"proxy"})

-----------------------------------------------------------------------------
(* What one attempt comes to *)

\* A reply of the wire: broken before its end, or a status with a body and a
\* Retry-After in ticks (0: none, or one that is not a number of seconds).
Bodies == {"verdict", "prose", "blank", "unreadable"}
Replies(waits, statuses) ==
  [broken : BOOLEAN, status : statuses, body : Bodies, big : BOOLEAN, wait : waits]

Value == "value"
Result(code, wait) == [code |-> code, wait |-> wait]

\* httpStatusFailure.
HttpStatusFailure(status) ==
  CASE status = 429          -> "RATE_LIMIT"
    [] status >= 500         -> "SERVER"
    [] status \in {401, 403} -> "AUTH"
    [] status \in {400, 413} -> "INVALID_REQUEST"
    [] OTHER                 -> "HTTP"

\* parseReviewTextOrThrow, on the text extractEndpointText found.
ParseReviewText(body) ==
  CASE body = "blank" -> "EMPTY_RESPONSE"
    [] body = "prose" -> "BAD_RESPONSE"
    [] OTHER          -> Value

\* What is thrown without a code of its own (toLlmFailure): the fence, the
\* socket and the JSON parser throw plain errors.
Bare == Result("TRANSPORT", 0)

\* postEndpoint and the reading of its result: a body over the ceiling has no
\* status.
PostEndpoint(reply) ==
  CASE reply.broken                 -> Bare
    [] ~reply.broken /\ reply.big   -> Result(HttpStatusFailure(0), 0)
    [] ~reply.broken /\ ~reply.big /\ reply.status \notin 200..299 ->
         Result(HttpStatusFailure(reply.status), reply.wait)
    [] OTHER -> IF reply.body = "unreadable" THEN Bare
                ELSE Result(ParseReviewText(reply.body), 0)

RawAttempt(host, resolved, reply) ==
  IF TargetAllowed(host, resolved) THEN PostEndpoint(reply) ELSE Bare

\* The adapter of the host throws codes of its own (external), or a plain error.
HostCodes == {"RATE_LIMIT", "SERVER", "TIMEOUT", "AUTH", "INVALID_REQUEST",
              "NO_ADAPTER", "UNSUPPORTED_REASONING_EFFORT"}
Codes == HostCodes \cup {"TRANSPORT", "EMPTY_RESPONSE", "BAD_RESPONSE", "HTTP"}
HostAttempts(waits) ==
  [code : HostCodes, wait : waits] \cup {Bare}
    \cup {Result(ParseReviewText(body), 0) : body \in Bodies \ {"unreadable"}}

\* isReviewRetryable.
RetryableCodes == {"RATE_LIMIT", "SERVER", "TIMEOUT", "TRANSPORT", "EMPTY_RESPONSE"}
IsReviewRetryable(code, async) ==
  code \in RetryableCodes /\ (code = "TIMEOUT" => ~async)

-----------------------------------------------------------------------------
(* What an answer was, whatever the code makes of it: for the properties.   *)

\* An answer for now, or none: a broken connection, a provider that is busy or
\* down, a blank text.  Or a final one: the fence refuses the target ("a
\* configuration/trust violation", endpoint-call.ts:248), the body cannot be read
\* ("malformed", review-pipeline.ts:288), the provider refuses.
RawNature(host, resolved, reply) ==
  CASE ~TargetAllowed(host, resolved) -> "FENCED"
    [] TargetAllowed(host, resolved) /\ reply.broken -> "TRANSIENT"
    [] OTHER ->
         IF reply.big THEN "REFUSED"
         ELSE IF reply.status = 429 \/ reply.status >= 500 THEN "TRANSIENT"
         ELSE IF reply.status \notin 200..299 \/ reply.body = "prose" THEN "REFUSED"
         ELSE IF reply.body = "unreadable" THEN "UNREADABLE" ELSE "TRANSIENT"
HostNature(code) ==
  CASE code \in {"RATE_LIMIT", "SERVER", "TRANSPORT", "EMPTY_RESPONSE"} -> "TRANSIENT"
    [] code = "TIMEOUT" -> "TIMEOUT"
    [] OTHER -> "REFUSED"
=============================================================================
