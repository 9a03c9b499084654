---------------------------- MODULE HttpExchange ----------------------------
(***************************************************************************)
(* fetch() of UXSPClient and AsyncUXSPClient (client/) against one host    *)
(* that runs a middleware of contrib/, in hybrid or strict mode, or none.  *)
(* Fetches run concurrently and share the capability cache; requests are   *)
(* delayed, answers are lost, and a package may reach the server again.    *)
(*                                                                         *)
(* The middlewares open packages with the ReplayGuard of their process.    *)
(* Unless the application configures another store it marks nonces in the  *)
(* memory of the process: every worker has its own guard, and one that is  *)
(* started again knows nothing.  A store that outlives the processes may   *)
(* be one for all workers, or one for each.  Nothing is said of how long   *)
(* marks last, which NonceStore and ReplayGuard treat.                     *)
(*                                                                         *)
(* Every fetch is one operation of the application on the server; what it  *)
(* carries is left out.  So is what becomes of an answer on the way: a     *)
(* response package does not say to which request it belongs.              *)
(***************************************************************************)
EXTENDS Integers, FiniteSets

CONSTANTS
    Fetches,       \* the calls of fetch()
    Guards,        \* the guards that workers of the host may have
    LastStarted    \* bound of the model: the guards started without a mark

ASSUME HttpAssumption == IsFiniteSet(Guards) /\ LastStarted \in Nat

VARIABLES
    serverMode,     \* "hybrid", "strict", or "none" without the middleware
    clientFallback, \* allow_fallback of the client, the default of its calls
    capability,     \* what the cache knows of the host
    fetch,          \* the state of each call
    mail,           \* the requests of each call that may still reach the server
    guards,         \* the guards of the host: one in each worker, or one store for all
    durable,        \* whether their stores outlive the processes
    openedBy,       \* the guards whose store has the nonce of the call's package
    started,        \* history: how many guards began without a mark
    applied,        \* history: how often the operation was carried out
    sentPlain       \* history: the call went out unencrypted

httpVars == <<serverMode, clientFallback, capability, fetch, mail, guards, durable,
              openedBy, started, applied, sentPlain>>

\* "known" and "fellBack" are history: the capability the call looked up, and
\* whether it fell back.  The steps "plain", "probe" and "uxsp" await an answer.
FetchStates ==
    [step : {"idle", "plain", "probe", "uxsp", "done", "failed"},
     answer : {"none", "bare", "selected", "package", "unreadable"},
     force : BOOLEAN, allow : BOOLEAN,
     known : {"unknown", "yes", "no"}, fellBack : BOOLEAN]

HttpTypeOK ==
    /\ serverMode \in {"hybrid", "strict", "none"}
    /\ clientFallback \in BOOLEAN
    /\ capability \in {"unknown", "yes", "no"}
    /\ fetch \in [Fetches -> FetchStates]
    /\ mail \in [Fetches -> SUBSET {"plain", "probe", "uxsp"}]
    /\ guards \subseteq Guards
    /\ durable \in BOOLEAN
    /\ openedBy \in [Fetches -> SUBSET Guards]
    /\ started \in Nat
    /\ applied \in [Fetches -> Nat]
    /\ sentPlain \in [Fetches -> BOOLEAN]

HttpInit ==
    /\ serverMode \in {"hybrid", "strict", "none"}
    /\ clientFallback \in BOOLEAN
    /\ capability = "unknown"
    /\ fetch = [f \in Fetches |-> [step |-> "idle", answer |-> "none", force |-> FALSE,
                                   allow |-> FALSE, known |-> "unknown", fellBack |-> FALSE]]
    /\ mail = [f \in Fetches |-> {}]
    /\ guards \in (SUBSET Guards) \ {{}}
    /\ durable \in BOOLEAN
    /\ openedBy = [f \in Fetches |-> {}]
    /\ started = Cardinality(guards)
    /\ applied = [f \in Fetches |-> 0]
    /\ sentPlain = [f \in Fetches |-> FALSE]

hostGuardVars == <<guards, durable, openedBy, started>>
serverVars == <<serverMode, hostGuardVars, applied>>

----------------------------------------------------------------------------
(* The client.                                                             *)

SendsUxsp(force) == capability = "yes" \/ force

\* _send_plain() with or without the header that asks for UXSP, or _send_uxsp().
Begin(f, step, force, allow) ==
    /\ fetch' = [fetch EXCEPT ![f] = [@ EXCEPT !.step = step, !.force = force, !.allow = allow,
                                                !.known = capability]]
    /\ mail' = [mail EXCEPT ![f] = IF step = "failed" THEN @ ELSE @ \cup {step}]
    /\ sentPlain' = [sentPlain EXCEPT ![f] = @ \/ step \in {"plain", "probe"}]

(* fetch() with what the cache says of the host, and "carded" when the     *)
(* card of the host could be resolved (_resolve_peer_card()).  A call may  *)
(* set allow_fallback to other than the default of the client.             *)
StartFetch(f, force, allow, carded) ==
    /\ fetch[f].step = "idle"
    /\ Begin(f, CASE capability = "no" /\ force -> "failed"
                  [] capability = "no" -> "plain"
                  [] SendsUxsp(force) -> IF carded THEN "uxsp" ELSE "failed"
                  [] OTHER -> "probe",
             force, allow)
    /\ UNCHANGED <<clientFallback, capability, serverVars>>

Finish(f, step) == fetch' = [fetch EXCEPT ![f].step = step]

\* Bug: the force_uxsp of the call is not looked at again.
BadFallBack(f) ==
    IF ~fetch[f].allow
    THEN Finish(f, "failed") /\ UNCHANGED <<mail, sentPlain>>
    ELSE /\ fetch' = [fetch EXCEPT ![f].step = "plain", ![f].answer = "none",
                                   ![f].fellBack = TRUE]
         /\ mail' = [mail EXCEPT ![f] = @ \cup {"plain"}]
         /\ sentPlain' = [sentPlain EXCEPT ![f] = TRUE]

\* _send_uxsp() raised.
FallBack(f) ==
    IF ~fetch[f].allow \/ fetch[f].force
    THEN Finish(f, "failed") /\ UNCHANGED <<mail, sentPlain>>
    ELSE /\ fetch' = [fetch EXCEPT ![f].step = "plain", ![f].answer = "none",
                                   ![f].fellBack = TRUE]
         /\ mail' = [mail EXCEPT ![f] = @ \cup {"plain"}]
         /\ sentPlain' = [sentPlain EXCEPT ![f] = TRUE]

\* A timeout, a broken connection, a card that is revoked or expired.
UxspFails(f) ==
    /\ fetch[f].step = "uxsp"
    /\ FallBack(f)
    /\ UNCHANGED <<clientFallback, capability, serverVars>>

PlainFails(f) ==
    /\ fetch[f].step \in {"plain", "probe"}
    /\ Finish(f, "failed")
    /\ UNCHANGED <<clientFallback, capability, mail, sentPlain, serverVars>>

PlainAnswered(f) ==
    /\ fetch[f].step = "plain"
    /\ fetch[f].answer # "none"
    /\ Finish(f, "done")
    /\ UNCHANGED <<clientFallback, capability, mail, sentPlain, serverVars>>

ProbeAnswered(f) ==
    /\ fetch[f].step = "probe"
    /\ fetch[f].answer # "none"
    /\ capability' = IF fetch[f].answer = "selected" THEN "yes" ELSE "no"
    /\ Finish(f, "done")
    /\ UNCHANGED <<clientFallback, mail, sentPlain, serverVars>>

(* Whatever the answer, the host is cached as one that supports UXSP.  A   *)
(* package that cannot be read raises unless the client allows fallback.   *)
UxspAnswered(f) ==
    /\ fetch[f].step = "uxsp"
    /\ fetch[f].answer # "none"
    /\ capability' = "yes"
    /\ IF fetch[f].answer = "unreadable" /\ ~clientFallback
       THEN FallBack(f)
       ELSE Finish(f, "done") /\ UNCHANGED <<mail, sentPlain>>
    /\ UNCHANGED <<clientFallback, serverVars>>

\* The entry expires, or clear() is called.
Forget ==
    /\ capability' = "unknown"
    /\ UNCHANGED <<clientFallback, fetch, mail, sentPlain, serverVars>>

----------------------------------------------------------------------------
(* The server.  An answer reaches the client if it still waits for one to  *)
(* that request; PlainFails and UxspFails also stand for a lost answer.    *)

Answers(f, request, answer) ==
    fetch' = [fetch EXCEPT ![f].answer =
                 IF fetch[f].step = request /\ @ = "none" THEN answer ELSE @]

Apply(f) == applied' = [applied EXCEPT ![f] = @ + 1]

\* Without require_encryption the request goes on to the endpoint.
ServePlain(f, request) ==
    /\ request \in mail[f] \ {"uxsp"}
    /\ serverMode # "strict"
    /\ mail' = [mail EXCEPT ![f] = @ \ {request}]
    /\ Apply(f)
    /\ Answers(f, request,
               IF request = "probe" /\ serverMode = "hybrid" THEN "selected" ELSE "bare")
    /\ UNCHANGED <<serverMode, clientFallback, capability, hostGuardVars, sentPlain>>

(* A strict server answers 400, and any middleware 413 to what is too      *)
(* large.  Of these answers after_request() of Flask alone makes one that  *)
(* says the server supports UXSP.                                          *)
RefusePlain(f, request, answer) ==
    /\ request \in mail[f] \ {"uxsp"}
    /\ serverMode # "none"
    /\ answer = "selected" => request = "probe"
    /\ mail' = [mail EXCEPT ![f] = @ \ {request}]
    /\ Answers(f, request, answer)
    /\ UNCHANGED <<serverVars, clientFallback, capability, sentPlain>>

(* A guard lets a package through once; then the endpoint runs, and the    *)
(* response is sealed, in one package or, streamed, in several the client  *)
(* cannot read as one; one that is too large raises, after all was done.   *)
ServePackage(f, g, answer) ==
    /\ "uxsp" \in mail[f]
    /\ serverMode # "none"
    /\ g \in guards \ openedBy[f]
    /\ openedBy' = [openedBy EXCEPT ![f] = @ \cup {g}]
    /\ Apply(f)
    /\ Answers(f, "uxsp", answer)
    /\ UNCHANGED <<serverMode, guards, durable, started, clientFallback, capability, mail,
                   sentPlain>>

(* 400 to a package that was opened before or cannot be opened, or what a  *)
(* host without the middleware says to it.  The client takes any for an    *)
(* answer, and the package may yet reach another worker.                   *)
RefusePackage(f) ==
    /\ "uxsp" \in mail[f]
    /\ Answers(f, "uxsp", "bare")
    /\ UNCHANGED <<serverVars, clientFallback, capability, mail, sentPlain>>

(* Some worker processes are started again: all of them, when the host is  *)
(* deployed with another configuration.  Their guards have lost what they  *)
(* marked in memory.                                                       *)
RestartWorkers(mode, new) ==
    /\ mode # serverMode => new = guards
    /\ serverMode' = mode
    /\ IF durable
       THEN UNCHANGED <<openedBy, started>>
       ELSE /\ started + Cardinality(new) <= LastStarted
            /\ started' = started + Cardinality(new)
            /\ openedBy' = [f \in Fetches |-> openedBy[f] \ new]
    /\ UNCHANGED <<guards, durable, applied, clientFallback, capability, fetch, mail, sentPlain>>

HttpNext ==
    \/ \E f \in Fetches :
          \/ \E force, allow, carded \in BOOLEAN : StartFetch(f, force, allow, carded)
          \/ UxspFails(f)
          \/ PlainFails(f)
          \/ PlainAnswered(f)
          \/ ProbeAnswered(f)
          \/ UxspAnswered(f)
          \/ \E request \in {"plain", "probe"} :
                \/ ServePlain(f, request)
                \/ \E answer \in {"bare", "selected"} : RefusePlain(f, request, answer)
          \/ \E g \in guards, answer \in {"package", "unreadable", "bare"} :
                ServePackage(f, g, answer)
          \/ RefusePackage(f)
    \/ Forget
    \/ \E mode \in {"hybrid", "strict", "none"}, new \in SUBSET guards :
          RestartWorkers(mode, new)

HttpSpec == HttpInit /\ [][HttpNext]_httpVars

----------------------------------------------------------------------------
(* A fetch with force_uxsp, or one without allow_fallback to a host that   *)
(* is known to support UXSP, never goes out in plain; an operation is      *)
(* carried out once by every guard that began without a mark, however      *)
(* often its package arrives, and once more at most if the call fell back  *)
(* while its package was under way: once in all, when one store serves all *)
(* workers and outlives them; and an answer that could be read is the      *)
(* answer to an operation that was carried out (the cases of fetch(), the  *)
(* guard behind the middlewares' Receive() and the store of SecureContext).*)
ExchangeOnce ==
    \A f \in Fetches :
        /\ sentPlain[f] =>
               /\ ~fetch[f].force
               /\ fetch[f].known = "yes" => fetch[f].allow /\ fetch[f].fellBack
        /\ applied[f] <= started + IF fetch[f].fellBack THEN 1 ELSE 0
        /\ fetch[f].answer = "package" => applied[f] >= 1
=============================================================================
