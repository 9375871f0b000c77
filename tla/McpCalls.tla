------------------------------ MODULE McpCalls ------------------------------
(***************************************************************************)
(* A call of a tool in another process: MCPTool opens a session for it,    *)
(* the server (another harness, through HarnessMCPServer) looks the tool   *)
(* up, gates it and runs it.  Calls share nothing on the client's side, so *)
(* each call is a process of its own.                                      *)
(***************************************************************************)
EXTENDS Naturals

CONSTANTS
    McpCallIds,
    McpTools,      \* names a caller may use
    McpHidden,     \* those with brain_visible FALSE
    McpHardware,   \* those that must pass the safety envelope
    McpExpected,   \* PERCEPTION_TOOL_NAMES
    McpCatalogs    \* what the server may have registered

ASSUME McpAssumption ==
    /\ McpHidden \subseteq McpTools /\ McpHardware \subseteq McpTools
    /\ McpExpected \subseteq McpTools
    /\ McpCatalogs \subseteq SUBSET McpTools
    /\ "verify" \notin McpTools

\* By scheme: http and https, stdio with a command and without, anything else.
McpUrls == {"http", "stdio", "bare", "other"}

\* Errors the handler answers with, and those the SDK makes of the rest: an
\* output that breaks the published schema, an exception of another type.
Refusals == {"ToolNotFoundError", "SafetyEnvelopeViolation", "BadArguments"}
Failures == {"failed", "fault", "mismatch", "exception"}

VARIABLES
    mcpCatalog,  \* the tools the server registered
    session,   \* of each call: how far it is, and what it was told
    held,      \* calls whose exit stack holds a connection or a subprocess
    serving,   \* the handler of each call at the server
    passed,    \* history: calls the envelope passed
    ran        \* history: calls whose tool began to run

mcpVars == <<mcpCatalog, session, held, serving, passed, ran>>

McpInit ==
    /\ mcpCatalog \in McpCatalogs
    /\ session = [c \in McpCallIds |-> [at |-> "idle", url |-> "none", tool |-> "none",
                                        told |-> "none"]]
    /\ held = {}
    /\ serving = [c \in McpCallIds |-> "none"]
    /\ passed = {} /\ ran = {}

McpAt(c, where) == session[c].at = where
McpInSession(c) == session[c].at \in {"shaking", "calling", "listing"}

McpGoes(c, where) == session' = [session EXCEPT ![c].at = where]
McpTold(c, what) == session' = [session EXCEPT ![c] = [@ EXCEPT !.at = "done", !.told = what]]

(* The client. *)

\* MCPTool.invoke; or, before the loop starts, verify_server_compatibility.
\* A token cancelled already, by an earlier attempt's timeout, ends it here.
McpInvoke(c, tool, url, cancelled) ==
    /\ McpAt(c, "idle")
    /\ session' = [session EXCEPT ![c] =
           [at |-> IF cancelled THEN "done" ELSE "opening", url |-> url, tool |-> tool,
            told |-> IF cancelled THEN "cancelled" ELSE "none"]]
    /\ UNCHANGED <<mcpCatalog, held, serving, passed, ran>>

\* What becomes of the handler when the connection of the call is closed: a
\* subprocess ends with it, a server reached over HTTP may go on.
McpPeer(c) ==
    \/ /\ serving[c] \in {"asked", "running"}
       /\ serving' = [serving EXCEPT ![c] = "killed"]
    \/ /\ serving[c] \notin {"asked", "running"} \/ session[c].url = "http"
       /\ UNCHANGED serving

\* (Mutant: only the typed errors close the stack.)
McpCloseTyped(c) == UNCHANGED <<held, serving>>

\* stack.aclose(), at the end of the session or when its handshake fails.
McpClose(c) == held' = held \ {c} /\ McpPeer(c)

McpOpen(c) ==
    /\ McpAt(c, "opening") /\ session[c].url \in {"http", "stdio"}
    /\ held' = held \cup {c}
    /\ McpGoes(c, "shaking")
    /\ UNCHANGED <<mcpCatalog, serving, passed, ran>>

\* The scheme is unknown, the command is missing, or the transport fails.
McpUnopened(c) ==
    /\ McpAt(c, "opening")
    /\ McpTold(c, "unreachable")
    /\ UNCHANGED <<mcpCatalog, held, serving, passed, ran>>

McpShake(c) ==
    /\ McpAt(c, "shaking")
    /\ IF session[c].tool = "verify"
       THEN McpGoes(c, "listing") /\ UNCHANGED serving
       ELSE McpGoes(c, "calling") /\ serving' = [serving EXCEPT ![c] = "asked"]
    /\ UNCHANGED <<mcpCatalog, held, passed, ran>>

\* In the handshake any exception closes the stack; later, McpError becomes
\* ToolBackendUnreachableError and the session is left.
McpBroken(c) ==
    /\ McpInSession(c)
    /\ McpClose(c)
    /\ McpTold(c, "unreachable")
    /\ UNCHANGED <<mcpCatalog, passed, ran>>

\* (Mutant: the handshake is waited for whatever the transport.)
McpTimedNever(c) == McpAt(c, "calling")

\* Which waits have a timeout: the client of the HTTP transport has one of its
\* own, a subprocess that never answers the handshake or the listing has none.
McpTimed(c) == McpAt(c, "calling") \/ (McpInSession(c) /\ session[c].url = "http")

McpTimeout(c) ==
    /\ McpTimed(c)
    /\ McpClose(c)
    /\ McpTold(c, IF McpAt(c, "calling") THEN "timeout" ELSE "unreachable")
    /\ UNCHANGED <<mcpCatalog, passed, ran>>

\* _marshal_call_result: isError makes a failed result, never an exception.
McpMarshalled(answer) == IF answer = "output" THEN "ok" ELSE answer

McpAnswered(c) ==
    /\ McpAt(c, "calling")
    /\ serving[c] \in {"output"} \cup Refusals \cup Failures
    /\ McpClose(c)
    /\ McpTold(c, McpMarshalled(serving[c]))
    /\ UNCHANGED <<mcpCatalog, passed, ran>>

\* The server lists what it registered and does not hide.
McpVisible == mcpCatalog \ McpHidden

McpListed(c) ==
    /\ McpAt(c, "listing")
    /\ McpClose(c)
    /\ McpTold(c, IF McpExpected \subseteq McpVisible THEN "compatible" ELSE "unreachable")
    /\ UNCHANGED <<mcpCatalog, passed, ran>>

\* The task is cancelled, or an outer timeout expires.  __aexit__ closes the
\* session; before that the stack is a local variable of __aenter__, and no
\* handler of it catches a cancellation.
McpCancel(c) ==
    /\ McpAt(c, "opening") \/ McpInSession(c)
    /\ IF McpAt(c, "calling") \/ McpAt(c, "listing") THEN McpClose(c)
       ELSE UNCHANGED <<held, serving>>
    /\ McpTold(c, "cancelled")
    /\ UNCHANGED <<mcpCatalog, passed, ran>>

\* The interpreter finalizes a stack that was dropped, at a time of its own.
McpFinalize(c) ==
    /\ c \in held /\ McpAt(c, "done")
    /\ held' = held \ {c} /\ McpPeer(c)
    /\ UNCHANGED <<mcpCatalog, session, passed, ran>>

(* The server.  It sees nothing of a client that has left. *)

\* The SDK validates the arguments of a tool it lists.
McpValidated(tool) == tool \in McpVisible

\* SafetyGatedToolRegistry.get: hardware-bound tools come back gated.
McpGated(tool) == tool \in McpHardware

\* How the gate ends a call: it refuses a command, the robot's own check is out of
\* reach, or arguments that nobody has validated make no command.
McpGateAnswers(tool) ==
    {"SafetyEnvelopeViolation", "fault"} \cup (IF McpValidated(tool) THEN {} ELSE {"exception"})

\* _handle_call, up to the tool: every registered tool can be called, listed or
\* not.  A refusal is an answer, and the server lives on.
McpHandle(c) ==
    /\ serving[c] = "asked"
    /\ LET tool == session[c].tool
           answer(a) == /\ serving' = [serving EXCEPT ![c] = a]
                        /\ UNCHANGED <<passed, ran>>
           run == serving' = [serving EXCEPT ![c] = "running"] /\ ran' = ran \cup {c}
       IN  \/ McpValidated(tool) /\ answer("BadArguments")
           \/ tool \notin mcpCatalog /\ answer("ToolNotFoundError")
           \/ tool \in mcpCatalog /\ McpGated(tool)
                /\ \E a \in McpGateAnswers(tool) : answer(a)
           \/ tool \in mcpCatalog /\ McpGated(tool) /\ run /\ passed' = passed \cup {c}
           \/ tool \in mcpCatalog /\ ~McpGated(tool) /\ run /\ UNCHANGED passed
    /\ UNCHANGED <<mcpCatalog, session, held>>

\* The tool returns or raises.
McpRan(c) ==
    /\ serving[c] = "running"
    /\ \E answer \in {"output"} \cup Failures : serving' = [serving EXCEPT ![c] = answer]
    /\ UNCHANGED <<mcpCatalog, session, held, passed, ran>>

McpNext == \E c \in McpCallIds :
    \/ \E tool \in McpTools \cup {"verify"}, url \in McpUrls, cancelled \in BOOLEAN :
           McpInvoke(c, tool, url, cancelled)
    \/ McpOpen(c) \/ McpUnopened(c) \/ McpShake(c) \/ McpBroken(c) \/ McpTimeout(c)
    \/ McpAnswered(c) \/ McpListed(c) \/ McpCancel(c) \/ McpFinalize(c)
    \/ McpHandle(c) \/ McpRan(c)

McpSpec == McpInit /\ [][McpNext]_mcpVars

TypeOKMcp ==
    /\ mcpCatalog \in McpCatalogs
    /\ \A c \in McpCallIds :
        /\ session[c].at \in {"idle", "opening", "shaking", "calling", "listing", "done"}
        /\ session[c].url \in McpUrls \cup {"none"}
        /\ session[c].tool \in McpTools \cup {"verify", "none"}
        /\ session[c].told \in {"none", "ok", "unreachable", "timeout", "cancelled",
                                "compatible"} \cup Refusals \cup Failures
        /\ serving[c] \in {"none", "asked", "running", "killed", "output"}
                              \cup Refusals \cup Failures
    /\ held \subseteq McpCallIds /\ passed \subseteq ran /\ ran \subseteq McpCallIds

\* A connection, or a server's process, outlives its call only if the call was
\* cancelled in the handshake, and then the server was never asked for anything.
McpSessionsClose ==
    \A c \in held : \/ McpInSession(c)
                    \/ session[c].told = "cancelled" /\ serving[c] = "none"

\* What a caller is told of a remote call is what happened to it.  "ok": the
\* tool ran to its end, and one that moves a robot went through the gate.  A
\* refusal: nothing ran, nor will.  A failure: it ran, unless the error can be the
\* gate's.  No answer, but the server asked: it may have run, may be running and
\* may yet begin, unless it was a process of the call's.
McpToldTrue ==
    \A c \in McpCallIds : LET s == session[c] IN
        /\ c \in ran /\ s.tool \in McpHardware => c \in passed
        /\ s.told = "ok" => c \in ran /\ serving[c] = "output"
        /\ s.told \in Refusals => c \notin ran
        /\ s.told \in Failures =>
               c \in ran \/ (s.tool \in McpHardware /\ s.told \in {"fault", "exception"})
        /\ s.told = "compatible" => McpExpected \subseteq mcpCatalog
        /\ /\ McpAt(c, "done") /\ s.url = "stdio" /\ c \notin held
           => serving[c] \notin {"asked", "running"}

\* Whatever a remote call and its server meet, its caller is not misled, and
\* nothing of the call stays behind; a handshake that was cancelled half way is the
\* exception, for the client cleans up after an Exception alone (client.py:90).
McpCallsAreHonest == TypeOKMcp /\ McpSessionsClose /\ McpToldTrue

\* A call over HTTP comes to its end whatever the server does.  (Over stdio only
\* once the server has answered the handshake: until then nothing but an outer
\* cancellation ends it.)
McpCallsEnd ==
    \A c \in McpCallIds :
        session[c].url = "http" \/ McpAt(c, "calling") ~> McpAt(c, "done")
=============================================================================
