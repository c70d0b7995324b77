---------------------------- MODULE RequestPipeline ----------------------------
(***************************************************************************)
(* One call of the client in src/src/client.rs, from the compatibility check   *)
(* to the answer it returns, and the opt-in retry loop around JSON calls       *)
(* (request_json_with_retry with a RetryPolicy).  A client is immutable, so    *)
(* calls meet only in the compatibility verdict, which is modelled in          *)
(* CompatibilityVerification and final here.                                   *)
(*                                                                          *)
(* The kinds of call differ in how the request is built and the answer read:   *)
(*   json    request_json_query_headers_accepting                             *)
(*   secret  request_auth_secret_json_headers_accepting: sensitive even bare   *)
(*   raw     request_registered_secret_json_accepting: the JSON is not parsed  *)
(*   bytes   request_bytes_headers_accepting_internal                         *)
(*   form    request_registered_form_json_headers_accepting                   *)
(*   upload  request_sys_exact_stream_accepting over ExactLengthRequestStream  *)
(*   stream  request_sys_stream_internal: the body is left to MonitorStream    *)
(*                                                                          *)
(* Bodies are counted in bytes and delays in ticks.  The server, the network,  *)
(* the caller's stream and the randomness of the jitter are external.          *)
(***************************************************************************)
EXTENDS Integers, Sequences, FiniteSetsExt

CONSTANTS
  MaxAttempts, InitialDelay, MaxDelay, JitterPercent,  \* RetryPolicy
  MaxResponse,   \* OpenBaoConfig::max_response_bytes
  MaxRequest,    \* OpenBaoConfig::max_request_bytes
  RequestSizes, BodySizes, ChunkSizes  \* bounds: lengths of requests and of
                 \* answers, and of their chunks

\* RetryPolicy::exponential
ASSUME PolicyAssumption ==
  /\ MaxAttempts \in Nat \ {0}
  /\ InitialDelay \in Nat \ {0} /\ MaxDelay \in Nat /\ InitialDelay <= MaxDelay
  /\ JitterPercent \in 0 .. 255

ASSUME SizeAssumption ==
  /\ MaxResponse \in Nat /\ MaxRequest \in Nat
  /\ RequestSizes \subseteq Nat \ {0} /\ BodySizes \subseteq Nat /\ ChunkSizes \subseteq Nat \ {0}

VARIABLES
  kind,          \* which of the functions above is called
  scheme,        \* "https", or "http" to a loopback address
  parts,         \* what the call carries besides method and path
  size,          \* the length of its body; of an upload, the length declared
  verdict,       \* ensure_compatibility: "Ok" or "Err"
  pc,
  attempt, retry_index, waited,
  remaining,     \* ExactLengthRequestStream::remaining
  total, got,    \* the answer being read: its length, and what is accumulated
  result,        \* what the call returned
  errors,        \* whether server diagnostics are part of the error
  wire,          \* history: the requests sent
  sent, complete,  \* history: bytes of an upload handed over, and whether the
                 \* HTTP stack may take them for the whole body
  short,         \* history: the caller's stream broke off before its length
  failures       \* history: attempts that failed temporarily

call == <<kind, scheme, parts, size, verdict>>

counters == <<attempt, retry_index, waited>>

answer == <<total, got>>

upload == <<remaining, sent, complete, short>>

vars == <<call, pc, counters, upload, answer, result, errors, wire, failures>>

Kinds == {"json", "secret", "raw", "bytes", "form", "upload", "stream"}

Parts == {"token", "namespace", "query", "headers", "body"}

Temporary == {"Transport", "Unavailable"}

\* What each kind can carry: forms and uploads have a body and their own
\* headers, a stream has no body.
PartsOf(k) ==
  CASE k \in {"form", "upload"} ->
         {own \cup {"headers", "body"} : own \in SUBSET {"token", "namespace"}}
    [] k = "stream" -> SUBSET (Parts \ {"headers", "body"})
    [] OTHER -> SUBSET Parts

-----------------------------------------------------------------------------
(* RetryPolicy *)

\* 1_u32 shifted left n places.
shl[n \in Nat] == IF n = 0 THEN 1 ELSE 2 * shl[n - 1]

\* u32 multiplier, saturating product: the shift stops at 31.
Base(i) == Min({InitialDelay * shl[Min({i, 31})], MaxDelay})

\* Mutant of delay_for_retry: the jitter may shorten the delay.
delay_for_retry_both_ways(i) ==
  {Base(i) - j : j \in 0 .. (Base(i) * JitterPercent) \div 100}

\* Every delay the random source may lead to; without one it is the base.
delay_for_retry(i) ==
  {Min({Base(i) + j, MaxDelay}) : j \in 0 .. (Base(i) * JitterPercent) \div 100}

-----------------------------------------------------------------------------
Init ==
  /\ kind \in Kinds
  /\ scheme \in {"https", "http"}
  /\ parts \in PartsOf(kind)
  /\ size \in IF "body" \in parts THEN RequestSizes ELSE {0}
  /\ verdict \in {"Ok", "Err"}
  /\ pc = "attempt"
  /\ attempt = 1 /\ retry_index = 0 /\ waited = 0
  /\ remaining = size /\ sent = 0 /\ complete = FALSE /\ short = FALSE
  /\ total = 0 /\ got = 0
  /\ result = "none" /\ errors = FALSE
  /\ wire = <<>> /\ failures = 0

\* Calls are single-shot; only request_json is retried, which takes neither a
\* query nor headers.
max_attempts ==
  IF kind = "json" /\ parts \cap {"query", "headers"} = {} THEN MaxAttempts ELSE 1

Return(r, e) ==
  /\ pc' = "done"
  /\ result' = r
  /\ errors' = e

\* Mutant of Failed: one attempt too many.
FailedOnceMore(error, e) ==
  IF attempt <= max_attempts /\ error \in Temporary
  THEN /\ pc' = "delay"
       /\ failures' = failures + 1
       /\ UNCHANGED <<result, errors>>
  ELSE Return(error, e) /\ failures' = failures + (IF error \in Temporary THEN 1 ELSE 0)

\* The attempt ends with an error, which the loop retries or returns.
Failed(error, e) ==
  IF attempt < max_attempts /\ error \in Temporary
  THEN /\ pc' = "delay"
       /\ failures' = failures + 1
       /\ UNCHANGED <<result, errors>>
  ELSE Return(error, e) /\ failures' = failures + (IF error \in Temporary THEN 1 ELSE 0)

\* The caller's delay, then the counters.
Delay ==
  /\ pc = "delay"
  /\ \E d \in delay_for_retry(retry_index) : waited' = waited + d
  /\ attempt' = attempt + 1
  /\ retry_index' = retry_index + 1
  /\ pc' = "attempt"
  /\ UNCHANGED <<call, upload, answer, result, errors, wire, failures>>

-----------------------------------------------------------------------------
(* Sending.  The transport is checked before anything is built, and bodies     *)
(* that are held in memory against the request limit.                          *)

\* Mutant of is_sensitive: the namespace is forgotten.
is_sensitive_but_namespace == kind # "json" \/ parts \ {"namespace"} # {}

is_sensitive == kind # "json" \/ parts # {}

\* Compatibility, path, header or body size: the call ends before anything is sent.
Refuse ==
  /\ pc = "attempt"
  /\ Failed("Refused", FALSE)
  /\ UNCHANGED <<call, counters, upload, answer, wire>>

Sent(carried) ==
  /\ pc' = IF kind = "upload" THEN "upload" ELSE "status"
  /\ wire' = Append(wire, [cleartext |-> scheme = "http", parts |-> carried])
  /\ UNCHANGED <<call, counters, upload, answer, result, errors, failures>>

\* send_sensitive_json_request, send_sensitive_bytes_request and
\* send_sensitive_prevalidated_body_request
SendSensitive ==
  /\ pc = "attempt" /\ verdict = "Ok"
  /\ is_sensitive
  /\ scheme # "http"
  /\ kind # "upload" => size <= MaxRequest
  /\ Sent(parts)

\* send_non_sensitive_json_request: only the URL, and so the query, goes out.
SendPlain ==
  /\ pc = "attempt" /\ verdict = "Ok"
  /\ ~is_sensitive
  /\ Sent(parts \cap {"query"})

(* ExactLengthRequestStream::poll_next, as the HTTP stack asks for the body.   *)
(* An error ends the request; the stack does not poll a body that failed or    *)
(* ended.                                                                      *)

\* A chunk of the caller's: refused when it is empty or too long.  A stack that
\* counts for itself may stop asking once it has the declared length.
Produce(n) ==
  /\ pc = "upload"
  /\ IF n = 0 \/ n > remaining
     THEN /\ Failed("Transport", FALSE)
          /\ short' = (short \/ (n = 0 /\ remaining > 0))
          /\ UNCHANGED <<remaining, sent, complete>>
     ELSE /\ remaining' = remaining - n
          /\ sent' = sent + n
          /\ complete' = (remaining' = 0)
          /\ UNCHANGED <<short, pc, result, errors, failures>>
  /\ UNCHANGED <<call, counters, answer, wire>>

SourceFails ==
  /\ pc = "upload"
  /\ Failed("Transport", FALSE)
  /\ short' = (remaining > 0)
  /\ UNCHANGED <<call, counters, remaining, sent, complete, answer, wire>>

\* Mutant of SourceEnds: a stream that ends early ends the body.
SourceEndsEarly ==
  /\ pc = "upload"
  /\ complete' = TRUE
  /\ short' = (remaining > 0)
  /\ UNCHANGED <<call, pc, counters, remaining, sent, answer, result, errors, wire, failures>>

\* The end is passed on only when nothing is missing.
SourceEnds ==
  /\ pc = "upload"
  /\ IF remaining = 0
     THEN complete' = TRUE /\ UNCHANGED <<short, pc, result, errors, failures>>
     ELSE Failed("Transport", FALSE) /\ short' = TRUE /\ UNCHANGED complete
  /\ UNCHANGED <<call, counters, remaining, sent, answer, wire>>

-----------------------------------------------------------------------------
(* Receiving.  The server may refuse an upload at any time and accepts it      *)
(* when it holds all of it.                                                    *)

AwaitingStatus == pc = "status" \/ pc = "upload"

\* A status that is not accepted.  Only the diagnostics of a call that carried
\* nothing sensitive are read, and only if they can be.
Rejected(status, e) ==
  /\ AwaitingStatus
  /\ e => ~is_sensitive
  /\ Failed(status, e)
  /\ UNCHANGED <<call, counters, upload, answer, wire>>

\* The status is all an upload waits for; a stream is handed on unread.
StatusOnly ==
  /\ \/ kind = "upload" /\ pc = "upload" /\ complete
     \/ kind = "stream" /\ pc = "status"
  /\ Return("Ok", FALSE)
  /\ UNCHANGED <<call, counters, upload, answer, wire, failures>>

ReadsBody == pc = "status" /\ kind # "stream"

\* A 204 is decoded as an empty object, which the caller's type may not allow.
NoContent(r) ==
  /\ ReadsBody /\ kind \in {"json", "secret"}
  /\ IF r = "Ok" THEN Return(r, FALSE) /\ UNCHANGED failures ELSE Failed(r, FALSE)
  /\ total' = 0 /\ got' = 0
  /\ UNCHANGED <<call, counters, upload, wire>>

\* Any other accepted status: media type and declared length are checked
\* before the body is read.
Accepted(length, declared) ==
  /\ ReadsBody
  /\ declared => length <= MaxResponse
  /\ pc' = "body"
  /\ total' = length /\ got' = 0
  /\ UNCHANGED <<call, counters, upload, result, errors, wire, failures>>

BadHead ==
  /\ ReadsBody
  /\ Failed("Decode", FALSE)
  /\ UNCHANGED <<call, counters, upload, answer, wire>>

\* read_response_bytes_into
Chunk(n) ==
  /\ pc = "body" /\ got + n <= total
  /\ IF got + n > MaxResponse THEN Failed("Decode", FALSE) /\ UNCHANGED got
     ELSE got' = got + n /\ UNCHANGED <<pc, result, errors, failures>>
  /\ UNCHANGED <<call, counters, upload, total, wire>>

\* Mutant of EndOfBody: a connection that closes early ends the body.
EndOfBodyEarly(r) ==
  /\ pc = "body"
  /\ r = "Decode" => kind \notin {"raw", "bytes"}
  /\ IF r = "Ok" THEN Return(r, FALSE) /\ UNCHANGED failures ELSE Failed(r, FALSE)
  /\ UNCHANGED <<call, counters, upload, answer, wire>>

\* The whole body is there; bytes are returned as they are, the rest is decoded.
EndOfBody(r) ==
  /\ pc = "body" /\ got = total
  /\ r = "Decode" => kind \notin {"raw", "bytes"}
  /\ IF r = "Ok" THEN Return(r, FALSE) /\ UNCHANGED failures ELSE Failed(r, FALSE)
  /\ UNCHANGED <<call, counters, upload, answer, wire>>

\* The connection fails, is cut or times out.
TransportFails ==
  /\ AwaitingStatus \/ pc = "body"
  /\ Failed("Transport", FALSE)
  /\ UNCHANGED <<call, counters, upload, answer, wire>>

Done == pc = "done" /\ UNCHANGED vars

Step ==
  \/ Delay \/ Refuse \/ SendSensitive \/ SendPlain \/ BadHead \/ TransportFails
  \/ StatusOnly \/ SourceFails \/ SourceEnds
  \/ \E n \in ChunkSizes \cup {0} : Produce(n)
  \/ \E status \in {"Unavailable", "Denied"}, e \in BOOLEAN : Rejected(status, e)
  \/ \E length \in BodySizes, declared \in BOOLEAN : Accepted(length, declared)
  \/ \E n \in ChunkSizes : Chunk(n)
  \/ \E r \in {"Ok", "Decode"} : EndOfBody(r) \/ NoContent(r)

Next == Step \/ Done

Spec == Init /\ [][Next]_vars

-----------------------------------------------------------------------------
(* Properties *)

\* The accumulated body never exceeds its limit, in any state.
TypeOK ==
  /\ kind \in Kinds /\ scheme \in {"https", "http"} /\ parts \subseteq Parts
  /\ size \in Nat /\ verdict \in {"Ok", "Err"}
  /\ pc \in {"attempt", "upload", "status", "body", "delay", "done"}
  /\ attempt \in 1 .. MaxAttempts /\ retry_index = attempt - 1
  /\ waited \in Nat /\ total \in Nat /\ got \in 0 .. MaxResponse
  /\ remaining \in Nat /\ sent \in Nat /\ complete \in BOOLEAN /\ short \in BOOLEAN
  /\ result \in {"none", "Ok", "Refused", "Decode", "Denied"} \cup Temporary
  /\ errors \in BOOLEAN
  /\ wire \in Seq([cleartext : BOOLEAN, parts : SUBSET Parts])
  /\ failures \in Nat
  /\ pc = "done" <=> result # "none"

\* A request carries exactly what the call was given, none is sent before the
\* server was accepted, and over cleartext only JSON calls that carry nothing;
\* of any other, no server diagnostics reach the caller.
CarriesItsParts ==
  /\ errors => kind = "json" /\ parts = {}
  /\ \A i \in DOMAIN wire :
       /\ wire[i].parts = parts /\ verdict = "Ok"
       /\ wire[i].cleartext => kind = "json" /\ parts = {}

\* A call that reads its answer succeeds only when it has read all of it.
AnswerIsComplete == result = "Ok" => got = total

\* The server takes an upload for complete, and so the call succeeds, only when
\* it got exactly the declared length from a stream that did not break off.
UploadIsExact ==
  kind = "upload" =>
    /\ complete => sent = size /\ ~short
    /\ result = "Ok" => complete

\* The policy's number of requests is an upper limit; each request after the
\* first follows a temporary failure, and a temporary failure is returned only
\* when the attempts are used up.
RetriesAreJustified ==
  /\ Len(wire) <= max_attempts
  /\ Len(wire) > 0 => failures >= Len(wire) - 1
  /\ result \in Temporary => Len(wire) = max_attempts

\* The bare backoff before retry n: the sum of the first n base delays.
Backoff[n \in Nat] == IF n = 0 THEN 0 ELSE Backoff[n - 1] + Base(n - 1)

\* The delays between attempts back off exponentially: no sequence of them is
\* shorter than the bare backoff, or longer than the maximum delay each time.
BackoffBounds ==
  /\ waited >= Backoff[retry_index]
  /\ waited <= retry_index * MaxDelay
=============================================================================
