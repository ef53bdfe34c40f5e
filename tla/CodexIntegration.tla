--------------------------- MODULE CodexIntegration ---------------------------
(***************************************************************************)
(* The integration test of Codex, scripts/qualify-codex-integration.py: a  *)
(* provider with a thread for each request answers a scripted exchange of  *)
(* two requests, while the runner waits for Codex, kills it when the time  *)
(* is up, stops the provider and gives a verdict on what it has seen.      *)
(*                                                                         *)
(* Codex is what is being tested: it may send anything, at once or one     *)
(* after the other, do its work or not, and exit, hang or be killed.       *)
(***************************************************************************)
EXTENDS Naturals, Sequences, SequencesExt

CONSTANTS
    Connections, \* bound: the requests Codex makes
    Sendable,    \* what it may send
    Unsent

\* What the checks of the handler tell apart: an intact request to the one
\* endpoint without credentials, one that advertises the exec tool, and one
\* that carries the result of the call.
Request == [intact : BOOLEAN, advertises : BOOLEAN, hasResult : BOOLEAN]

ASSUME ConnectionsAssumption == Unsent \notin Request /\ Sendable \subseteq Request

VARIABLES
    phase,          \* what the runner does next
    codex,       \* the process: "off", "running" or "exited"
    returncode,        \* its exit status
    timedOut,    \* result["reason"] is set
    server,      \* "up", or no connection is accepted any more
    conn,        \* connection -> how far its request is
    sent,        \* connection -> the request
    requests,    \* the connections whose requests were counted
    errors,      \* the connections about which errors says something
    proof,       \* proof.txt: "none", "right" or "wrong"
    final,       \* Codex has printed the checked reply
    outcome       \* status in result.json

codexVars == <<codex, returncode, sent, proof, final>>
handlerVars == <<conn, requests, errors>>
testVars == <<phase, timedOut, server, outcome>>
exchangeVars == <<codexVars, handlerVars, testVars>>

ExchangeInit ==
    /\ phase = "start" /\ timedOut = FALSE /\ server = "up" /\ outcome = "none"
    /\ codex = "off" /\ returncode = "none" /\ proof = "none" /\ final = FALSE
    /\ conn = [c \in Connections |-> "none"]
    /\ sent = [c \in Connections |-> Unsent]
    /\ requests = <<>> /\ errors = {}

-----------------------------------------------------------------------------
(* Codex.                                                                  *)

Connect(c) ==
    /\ codex = "running" /\ conn[c] = "none"
    /\ conn' = [conn EXCEPT ![c] = "queued"]
    /\ \E request \in Sendable : sent' = [sent EXCEPT ![c] = request]
    /\ UNCHANGED <<codex, returncode, proof, final, requests, errors, testVars>>

\* The tools write the file, and may write it again.
Work ==
    /\ codex = "running"
    /\ \/ proof' \in {"right", "wrong"} /\ UNCHANGED final
       \/ final' = TRUE /\ UNCHANGED proof
    /\ UNCHANGED <<codex, returncode, sent, handlerVars, testVars>>

CodexExits ==
    /\ codex = "running"
    /\ codex' = "exited" /\ returncode' \in {"zero", "other"}
    /\ UNCHANGED <<sent, proof, final, handlerVars, testVars>>

-----------------------------------------------------------------------------
(* The provider: one thread for each connection.                           *)

Accept(c) ==
    /\ server = "up" /\ conn[c] = "queued"
    /\ conn' = [conn EXCEPT ![c] = "handled"]
    /\ UNCHANGED <<codexVars, requests, errors, testVars>>

\* The exception that ends a handler is noted before the client hears of it.
RejectRequest(c) ==
    /\ conn' = [conn EXCEPT ![c] = "rejected"]
    /\ errors' = errors \cup {c}

\* The body is read and checked, and its place in requests is the number that
\* decides on the answer.  A body that stays silent for ten seconds is an
\* exception as well; a connection that is silent or closed before it, or
\* that asks for anything but a POST, never reaches the handler's own code.
ReadRequest(c) ==
    /\ conn[c] = "handled"
    /\ \/ /\ sent[c].intact
          /\ requests' = Append(requests, c)
          /\ conn' = [conn EXCEPT ![c] = "counted"]
          /\ UNCHANGED errors
       \/ RejectRequest(c) /\ UNCHANGED requests
       \/ conn' = [conn EXCEPT ![c] = "dropped"] /\ UNCHANGED <<requests, errors>>
    /\ UNCHANGED <<codexVars, testVars>>

\* advertised_exec for the first request; tool_output and the file the tool
\* wrote for the second; no more than two.
IsExpected(c) ==
    \/ c = requests[1] /\ sent[c].advertises
    \/ Len(requests) > 1 /\ c = requests[2] /\ sent[c].hasResult /\ proof = "right"

\* The answer; writing it may fail.
Respond(c) ==
    /\ conn[c] = "counted"
    /\ \/ IsExpected(c) /\ conn' = [conn EXCEPT ![c] = "answered"] /\ UNCHANGED errors
       \/ RejectRequest(c)
    /\ UNCHANGED <<codexVars, requests, testVars>>

Handler(c) == ReadRequest(c) \/ Respond(c)

-----------------------------------------------------------------------------
(* The runner.                                                             *)

GoOn(to) == phase' = to

\* Codex is started, or cannot be.
Start ==
    /\ phase = "start"
    /\ \/ codex' = "running" /\ GoOn("wait") /\ UNCHANGED timedOut
       \/ timedOut' = TRUE /\ GoOn("shutdown") /\ UNCHANGED codex
    /\ UNCHANGED <<returncode, sent, proof, final, handlerVars, server, outcome>>

\* process.wait(timeout=...).
Wait ==
    /\ phase = "wait"
    /\ GoOn("kill")
    /\ \/ codex = "exited" /\ UNCHANGED timedOut
       \/ codex = "running" /\ timedOut' = TRUE
    /\ UNCHANGED <<codexVars, handlerVars, server, outcome>>

\* SIGKILL to the process group, whether or not its leader has exited; one that
\* is not gone after ten seconds is an exception that ends the program.
KillCodex ==
    /\ phase = "kill"
    /\ \/ codex' = "exited" /\ GoOn("shutdown")
       \/ codex = "running" /\ UNCHANGED codex /\ GoOn("raised")
    /\ UNCHANGED <<returncode, sent, proof, final, handlerVars, timedOut, server, outcome>>

Shutdown ==
    /\ phase = "shutdown"
    /\ server' = "down" /\ GoOn("close")
    /\ UNCHANGED <<codexVars, handlerVars, timedOut, outcome>>

\* Mutant: the handlers are daemon threads, which nobody joins.
CloseAtOnce ==
    /\ phase = "close"
    /\ GoOn("verdict")
    /\ UNCHANGED <<codexVars, handlerVars, timedOut, server, outcome>>

\* Mutant: connections that nobody accepts are waited for as well.
CloseWhenQuiet ==
    /\ phase = "close"
    /\ \A c \in Connections : conn[c] \notin {"queued", "handled", "counted"}
    /\ GoOn("verdict")
    /\ UNCHANGED <<codexVars, handlerVars, timedOut, server, outcome>>

\* server_close joins the handler threads.
Close ==
    /\ phase = "close"
    /\ \A c \in Connections : conn[c] \notin {"handled", "counted"}
    /\ GoOn("verdict")
    /\ UNCHANGED <<codexVars, handlerVars, timedOut, server, outcome>>

Passes ==
    /\ ~timedOut /\ returncode = "zero"
    /\ errors = {} /\ Len(requests) = 2
    /\ proof = "right" /\ sent[requests[2]].hasResult /\ final

\* The host may be missing, and what is written may fail.
Verdict ==
    /\ phase = "verdict"
    /\ GoOn("done")
    /\ \/ Passes /\ outcome' = "pass"
       \/ outcome' = "fail"
    /\ UNCHANGED <<codexVars, handlerVars, timedOut, server>>

TestRunner == Start \/ Wait \/ KillCodex \/ Shutdown \/ Close \/ Verdict

ExchangeNext ==
    \/ Work \/ CodexExits \/ TestRunner
    \/ \E c \in Connections : Connect(c) \/ Accept(c) \/ Handler(c)

ExchangeSpec == ExchangeInit /\ [][ExchangeNext]_exchangeVars

\* The runner's waits and the handlers' reads have timeouts.
FairExchangeSpec ==
    /\ ExchangeSpec
    /\ WF_exchangeVars(TestRunner)
    /\ \A c \in Connections : WF_exchangeVars(Handler(c))

-----------------------------------------------------------------------------

\* "exactly two checked requests": of a run that passed two requests were
\* made, both were answered, and no handler has found or will find a fault.
PassIsEarned ==
    outcome = "pass" =>
        /\ errors = {} /\ Len(requests) = 2
        /\ \A i \in 1..2 : conn[requests[i]] = "answered"
        /\ sent[requests[1]].advertises /\ sent[requests[2]].hasResult

\* Handlers of a Codex that was killed in the middle of a request do not keep
\* the runner from its verdict, unless Codex itself cannot be killed.
VerdictComes == <>(phase \in {"done", "raised"})
=============================================================================
