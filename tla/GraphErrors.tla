---------------------------- MODULE GraphErrors ----------------------------
(***************************************************************************)
(* How a failed Graph call is read: graph-error.mapper.ts, and the order in *)
(* which OutboundRelayWorker.handleSendFailure consults it.                 *)
(*                                                                          *)
(* An error is abstracted to what the mapper branches on.  HTTP status 0    *)
(* (no response at all) is "none"; the numeric Meta codes are grouped by    *)
(* the branch that reads them.                                              *)
(***************************************************************************)

\* "2xx" is the one success status that still throws: a body the response
\* schema refuses (GraphApiError.fromSchema).
HttpStatus == {"none", "2xx", "4xx", "5xx"}

\* oauth = 190, throttle = 4, 17, 32, 613 and 80000..80099, temporary = 2,
\* denied = 10, denied_window = 10 with the 24-hour wording, capability = 3.
MetaCode == {"oauth", "throttle", "temporary", "denied", "denied_window",
             "capability", "other"}

\* window = 2534022, token = 463 and 467, throttled = 2446079.
MetaSubcode == {"window", "token", "throttled", "none"}

\* Transport failures and schema refusals carry no Meta code.
GraphError ==
    {e \in [http: HttpStatus, code: MetaCode, sub: MetaSubcode] :
        e.http \in {"none", "2xx"} => e.code = "other" /\ e.sub = "none"}

isRateLimit(e) == e.code = "throttle" \/ e.sub = "throttled"

Mapped(c, reauth, retry) ==
    [code |-> c, requiresReauth |-> reauth, retryable |-> retry]

mapGraphError(e) ==
    IF e.http = "none" THEN Mapped("unavailable", FALSE, TRUE)
    ELSE IF e.sub = "window" THEN Mapped("window_closed", FALSE, FALSE)
    ELSE IF e.code = "oauth" \/ e.sub = "token" THEN Mapped("reauth", TRUE, FALSE)
    ELSE IF isRateLimit(e) THEN Mapped("rate_limited", FALSE, TRUE)
    ELSE IF e.code = "temporary" \/ e.http = "5xx" THEN Mapped("unavailable", FALSE, TRUE)
    \* Permission, closed window, capability, schema and every unknown code.
    ELSE Mapped("refused", FALSE, FALSE)

\* A failed send that may nevertheless have taken effect.
isAmbiguousFailure(e) == e.http \in {"none", "5xx"}

\* Mutant of FailureClass: an unknown outcome is retried like any other error.
RetriesAmbiguous(e) ==
    LET mapped == mapGraphError(e) IN
    IF mapped.requiresReauth THEN "reauth"
    ELSE IF ~mapped.retryable THEN "terminal"
    ELSE IF mapped.code = "rate_limited" THEN "throttled"
    ELSE "retryable"

(***************************************************************************)
(* The branch of handleSendFailure an error takes, in the order the handler *)
(* asks: a dead credential first, then ambiguity, then whether a retry can  *)
(* help, then whether it is a rate limit.                                   *)
(***************************************************************************)
FailureClass(e) ==
    LET mapped == mapGraphError(e) IN
    IF mapped.requiresReauth THEN "reauth"
    ELSE IF isAmbiguousFailure(e) THEN "ambiguous"
    ELSE IF ~mapped.retryable THEN "terminal"
    ELSE IF mapped.code = "rate_limited" THEN "throttled"
    ELSE "retryable"

\* What Meta may have done before answering with this error: a 4xx created
\* nothing, an unreadable 2xx did create it, anything else may be either.
MayHaveLanded(e, accepted) ==
    CASE e.http = "4xx" -> ~accepted
      [] e.http = "2xx" -> accepted
      [] OTHER          -> TRUE

FailureClasses == {"reauth", "ambiguous", "terminal", "throttled", "retryable"}
=============================================================================
