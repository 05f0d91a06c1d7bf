------------------------------ MODULE LspProxy ------------------------------
(***************************************************************************)
(* core/toolchain/lsp_proxy.py: a client thread, the reader thread and a   *)
(* language server, joined by two byte streams.  One document; a text is   *)
(* the number of the edit that made it.                                    *)
(***************************************************************************)
EXTENDS Naturals, Sequences

CONSTANTS
    MaxEdits,   \* bound: texts the document gets
    Sessions    \* the sets of things that may happen in one session

ASSUME LspAssumption ==
    /\ MaxEdits \in Nat
    /\ Sessions \subseteq SUBSET {"reopen", "ranged", "silent", "dies"}

\* "reopen": the client calls did_open for a document it has open; "ranged": it
\* sends ranged changes without the new text; "silent": the server leaves
\* requests unanswered; "dies": it dies.
VARIABLES
    lspMay,     \* what may happen in this session
    lspState,   \* LspState
    pending,    \* ids in _pending
    responses,  \* ids in _responses
    fired,      \* ids whose Event is set
    waiting,    \* id of the request the client is in, 0 if none
    edits,      \* texts so far
    buffer,     \* the _Buffer: version and text, both 0 before did_open
    diags,      \* _diagnostics: the text they are of, the text their byte
                \* offsets were computed with
    diagEvent,  \* _diag_event
    reader,     \* the reader thread: what it is handling
    toServer, toClient,
    server      \* what the server has seen

clientVars == <<lspMay, lspState, pending, waiting, edits, buffer>>
lspVars == <<lspMay, lspState, pending, responses, fired, waiting, edits, buffer, diags,
          diagEvent, reader, toServer, toClient, server>>

\* Request ids: initialize is the first request of a proxy, shutdown the last.
InitId == 1
ShutdownId == 2

Msg(kind) == [kind |-> kind, version |-> 0, text |-> 0]
Sync(kind, v, t) == [kind |-> kind, version |-> v, text |-> t]
Answer(id) == [kind |-> "answer", id |-> id, text |-> 0]
Publish(t) == [kind |-> "publish", id |-> 0, text |-> t]
Off == [at |-> "off", id |-> 0, text |-> 0, spans |-> 0]
Idle == [Off EXCEPT !.at = "idle"]
Dead == [Off EXCEPT !.at = "dead"]

\* A write to a server that has died raises, or is lost in the pipe.
Send(msgs) ==
    IF server.alive THEN toServer' = toServer \o msgs ELSE UNCHANGED toServer

-----------------------------------------------------------------------------
LspInit ==
    /\ lspMay \in Sessions
    /\ lspState = "disconnected" /\ pending = {} /\ responses = {} /\ fired = {}
    /\ waiting = 0 /\ edits = 0 /\ buffer = [version |-> 0, text |-> 0]
    /\ diags = [text |-> 0, spans |-> 0] /\ diagEvent = FALSE
    /\ reader = Off /\ toServer = << >> /\ toClient = << >>
    /\ server = [alive |-> TRUE, phase |-> "new", version |-> 0, text |-> 0,
                 published |-> 0, rejected |-> FALSE]

\* _send_request up to the wait.
Request(id, kind) ==
    /\ pending' = pending \cup {id}
    /\ waiting' = id
    /\ Send(<<Msg(kind)>>)

Initialize ==
    /\ waiting = 0 /\ lspState = "disconnected"
    /\ lspState' = "initializing" /\ reader' = Idle
    /\ Request(InitId, "initialize")
    /\ UNCHANGED <<lspMay, responses, fired, edits, buffer, diags, diagEvent, toClient, server>>

\* The Event is set; the request takes its response.
InitializeReturns ==
    /\ waiting = InitId /\ InitId \in fired
    /\ pending' = pending \ {InitId} /\ responses' = responses \ {InitId}
    /\ waiting' = 0 /\ lspState' = "initialized"
    /\ Send(<<Msg("initialized")>>)
    /\ UNCHANGED <<lspMay, fired, edits, buffer, diags, diagEvent, reader, toClient, server>>

\* initialize raises TimeoutError and leaves the state as it is.
InitializeTimesOut ==
    /\ waiting = InitId /\ InitId \notin fired
    /\ pending' = pending \ {InitId} /\ waiting' = 0
    /\ UNCHANGED <<lspMay, lspState, responses, fired, edits, buffer, diags, diagEvent, reader,
                   toServer, toClient, server>>

DidOpen ==
    /\ waiting = 0 /\ lspState = "initialized" /\ edits < MaxEdits
    /\ buffer.version > 0 => "reopen" \in lspMay
    /\ edits' = edits + 1
    /\ buffer' = [version |-> 1, text |-> edits']
    /\ Send(<<Sync("didOpen", 1, edits')>>)
    /\ UNCHANGED <<lspMay, lspState, pending, responses, fired, waiting, diags, diagEvent, reader,
                   toClient, server>>

BufferAfterChange_Kept == [buffer EXCEPT !.version = @ + 1]  \* Mutant: the text is not replaced.

\* A ranged change without new_text bumps the version and keeps the text.
BufferAfterChange ==
    IF "ranged" \in lspMay THEN [buffer EXCEPT !.version = @ + 1]
    ELSE [version |-> buffer.version + 1, text |-> edits + 1]

DidChange ==
    /\ waiting = 0 /\ lspState = "initialized" /\ edits < MaxEdits
    /\ buffer.version > 0
    /\ edits' = edits + 1
    /\ buffer' = BufferAfterChange
    /\ diagEvent' = FALSE
    /\ Send(<<Sync("didChange", buffer'.version, edits')>>)
    /\ UNCHANGED <<lspMay, lspState, pending, responses, fired, waiting, diags, reader, toClient,
                   server>>

\* After shutdown the transport is closed: the reader ends, the pipe is cut.
Closed ==
    /\ lspState' = "shutdown" /\ waiting' = 0
    /\ toClient' = << >>

ShutdownAtOnce ==
    /\ waiting = 0 /\ lspState \in {"disconnected", "initializing"}
    /\ Closed
    /\ UNCHANGED <<lspMay, pending, responses, fired, edits, buffer, diags, diagEvent, reader,
                   toServer, server>>

ShutdownRequest ==
    /\ waiting = 0 /\ lspState = "initialized"
    /\ Request(ShutdownId, "shutdown")
    /\ UNCHANGED <<lspMay, lspState, responses, fired, edits, buffer, diags, diagEvent, reader,
                   toClient, server>>

ShutdownReturns ==
    /\ waiting = ShutdownId /\ ShutdownId \in fired
    /\ pending' = pending \ {ShutdownId} /\ responses' = responses \ {ShutdownId}
    /\ Closed /\ Send(<<Msg("exit")>>)
    /\ UNCHANGED <<lspMay, fired, edits, buffer, diags, diagEvent, reader, server>>

ShutdownTimesOut ==
    /\ waiting = ShutdownId /\ ShutdownId \notin fired
    /\ pending' = pending \ {ShutdownId}
    /\ Closed
    /\ UNCHANGED <<lspMay, responses, fired, edits, buffer, diags, diagEvent, reader, toServer,
                   server>>

-----------------------------------------------------------------------------

\* _dispatch has stored the answer; or _on_publish_diagnostics has converted
\* the positions with the text the buffer has now.
ReadMessage ==
    /\ reader.at = "idle" /\ lspState # "shutdown" /\ toClient # << >>
    /\ LET m == Head(toClient) IN
         IF m.kind = "answer"
         THEN /\ reader' = [Idle EXCEPT !.at = "answer", !.id = m.id]
              /\ responses' = responses \cup {m.id}
         ELSE /\ reader' = [Idle EXCEPT !.at = "publish", !.text = m.text, !.spans = buffer.text]
              /\ UNCHANGED responses
    /\ toClient' = Tail(toClient)
    /\ UNCHANGED <<clientVars, fired, diags, diagEvent, toServer, server>>

\* The Event of a request that is still pending is set.
FireEvent ==
    /\ reader.at = "answer"
    /\ fired' = fired \cup ({reader.id} \cap pending)
    /\ reader' = Idle
    /\ UNCHANGED <<clientVars, responses, diags, diagEvent, toServer, toClient, server>>

StoreDiagnostics ==
    /\ reader.at = "publish"
    /\ diags' = [text |-> reader.text, spans |-> reader.spans]
    /\ diagEvent' = TRUE
    /\ reader' = Idle
    /\ UNCHANGED <<clientVars, responses, fired, toServer, toClient, server>>

\* End of stream, or the loop sees that the proxy does not run any more.
ReaderEnds ==
    /\ reader.at = "idle"
    /\ lspState = "shutdown" \/ (~server.alive /\ toClient = << >>)
    /\ reader' = Dead
    /\ UNCHANGED <<clientVars, responses, fired, diags, diagEvent, toServer, toClient, server>>

-----------------------------------------------------------------------------
\* The server takes a message; what the protocol forbids it rejects.
Accepts(m) ==
    \/ m.kind \in {"initialize"} /\ server.phase = "new"
    \/ m.kind = "initialized" /\ server.phase = "answered"
    \/ m.kind = "didOpen" /\ server.phase = "ready" /\ server.version = 0
    \/ m.kind = "didChange" /\ server.phase = "ready" /\ server.version \in 1..(m.version - 1)
    \/ m.kind = "shutdown" /\ server.phase = "ready"
    \/ m.kind = "exit" /\ server.phase = "ending"

PhaseAfter(m) ==
    CASE m.kind = "initialize" -> "answered"
      [] m.kind = "initialized" -> "ready"
      [] m.kind = "shutdown" -> "ending"
      [] OTHER -> server.phase

ServerReceives ==
    /\ server.alive /\ toServer # << >>
    /\ LET m == Head(toServer) IN
         /\ server' =
              IF ~Accepts(m) THEN [server EXCEPT !.rejected = TRUE]
              ELSE IF m.kind \in {"didOpen", "didChange"}
                   THEN [server EXCEPT !.version = m.version, !.text = m.text]
                   ELSE [server EXCEPT !.phase = PhaseAfter(m)]
         /\ LET id == IF m.kind = "initialize" THEN InitId
                      ELSE IF m.kind = "shutdown" THEN ShutdownId ELSE 0
            IN \/ id > 0 /\ lspState # "shutdown" /\ toClient' = Append(toClient, Answer(id))
               \/ (id > 0 => "silent" \in lspMay \/ lspState = "shutdown") /\ UNCHANGED toClient
    /\ toServer' = Tail(toServer)
    /\ UNCHANGED <<clientVars, responses, fired, diags, diagEvent, reader>>

ServerPublishes ==
    /\ server.alive /\ lspState # "shutdown"
    /\ server.phase = "ready" /\ server.text > server.published
    /\ server' = [server EXCEPT !.published = server.text]
    /\ toClient' = Append(toClient, Publish(server.text))
    /\ UNCHANGED <<clientVars, responses, fired, diags, diagEvent, reader, toServer>>

ServerDies ==
    /\ "dies" \in lspMay /\ server.alive
    /\ server' = [server EXCEPT !.alive = FALSE]
    /\ toServer' = << >>
    /\ UNCHANGED <<clientVars, responses, fired, diags, diagEvent, reader, toClient>>

LspNext ==
    \/ Initialize
    \/ InitializeReturns
    \/ InitializeTimesOut
    \/ DidOpen
    \/ DidChange
    \/ ShutdownAtOnce
    \/ ShutdownRequest
    \/ ShutdownReturns
    \/ ShutdownTimesOut
    \/ ReadMessage
    \/ FireEvent
    \/ StoreDiagnostics
    \/ ReaderEnds
    \/ ServerReceives
    \/ ServerPublishes
    \/ ServerDies

LspSpec == LspInit /\ [][LspNext]_lspVars

\* Event.wait has a timeout, and the reader thread runs while there is input.
LspFairSpec ==
    /\ LspSpec
    /\ WF_lspVars(InitializeReturns \/ InitializeTimesOut)
    /\ WF_lspVars(ShutdownReturns \/ ShutdownTimesOut)
    /\ WF_lspVars(ReadMessage \/ FireEvent \/ StoreDiagnostics \/ ReaderEnds)

-----------------------------------------------------------------------------
\* "The proxy enforces the precise initialization workflow so servers never
\* reject out-of-order synchronization messages": it does, whatever is answered
\* late or never, for a client that opens its document once.
NeverRejected == "reopen" \notin lspMay => ~server.rejected

\* A request whose Event is set finds its response, also if the answer and the
\* timeout come together.
AnswerIsThere == \A id \in fired \cap pending : id \in responses

\* When everything that was sent has been handled, the diagnostics are of the
\* client's text, the byte offsets too, which are computed with the text that
\* the buffer has when they come, and a waiter is told.  (A ranged change
\* leaves the buffer's text behind the server's.)
SettledIsExact ==
    (/\ lspMay \cap {"ranged", "reopen"} = {}
     /\ lspState = "initialized" /\ server.alive /\ reader = Idle
     /\ toServer = << >> /\ toClient = << >> /\ server.published = server.text
     /\ buffer.version > 0)
        => diags = [text |-> edits, spans |-> edits] /\ diagEvent

\* initialize and shutdown return, whatever the server does, and after shutdown
\* the reader thread ends.
NothingHangs ==
    /\ waiting # 0 ~> waiting = 0
    /\ (lspState = "shutdown" /\ reader.at # "off") ~> reader = Dead

\* Client and server stay in step: no message is rejected, no answer that was
\* announced is missing, and the diagnostics settle on the last text
\* (initialize, _dispatch, did_change, _on_publish_diagnostics).
ClientIsInStep == NeverRejected /\ AnswerIsThere /\ SettledIsExact
=============================================================================
