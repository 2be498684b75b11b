----------------------------- MODULE Translation -----------------------------
(***************************************************************************)
(* What the native engines translate (native_codex.go, native_claude.go): the *)
(* content blocks of a prompt into each CLI's input, and the events each CLI  *)
(* writes for one session into session/update notifications.  A prompt is a  *)
(* sequence of blocks, the output of a CLI a sequence of events.            *)
(***************************************************************************)
EXTENDS Naturals, Sequences

-----------------------------------------------------------------------------
(* Prompts.  A block has a type and the set of its fields that are not empty;  *)
(* a resource without "json" does not decode.  An item says how the CLI gets  *)
(* it (as), which field it carries (of), and the media type of inline data.  *)

Block(type, has) == [type |-> type, has |-> has]
Item(as, of, mime) == [as |-> as, of |-> of, mime |-> mime]
Text(of) == <<Item("text", of, "none")>>
Mime(b) == IF "mime" \in b.has THEN "given" ELSE "image/png"

\* Mutation: a resource with a text and a URI is sent as its link.
LinkFirst(b) ==
    IF "json" \notin b.has THEN <<>>
    ELSE IF "uri" \in b.has THEN Text("link")
    ELSE IF "text" \in b.has THEN Text("text") ELSE <<>>

\* codexInputFromBlocks: a resource degrades to its text, or to a link.
CodexResource(b) ==
    IF "json" \notin b.has THEN <<>>
    ELSE IF "text" \in b.has THEN Text("text")
    ELSE IF "uri" \in b.has THEN Text("link") ELSE <<>>

CodexItems(b) ==
    CASE b.type = "text" -> IF "text" \in b.has THEN Text("text") ELSE <<>>
      [] b.type = "image" ->
            IF "data" \in b.has THEN <<Item("input_image", "data", Mime(b))>>
            ELSE IF "uri" \in b.has THEN <<Item("input_image", "uri", "none")>> ELSE <<>>
      [] b.type = "resource_link" -> Text("link")
      [] b.type = "resource" -> CodexResource(b)
      [] OTHER -> <<>>

AddCodex(input, b) == input \o CodexItems(b)
CodexInput(blocks) ==
    LET input[n \in 0..Len(blocks)] == IF n = 0 THEN <<>> ELSE AddCodex(input[n - 1], blocks[n])
    IN  input[Len(blocks)]

\* claudeContentFromBlocks
ClaudeItems(b) ==
    CASE b.type = "text" -> IF "text" \in b.has THEN Text("text") ELSE <<>>
      [] b.type = "image" /\ "data" \in b.has -> <<Item("base64", "data", Mime(b))>>
      [] b.type = "image" /\ "data" \notin b.has ->
            IF "uri" \in b.has THEN <<Item("url", "uri", "none")>> ELSE <<>>
      [] b.type = "resource_link" -> Text("link")
      [] b.type = "resource" ->
            IF "json" \in b.has /\ "text" \in b.has THEN Text("text")
            ELSE IF "json" \in b.has /\ "uri" \in b.has THEN Text("link") ELSE <<>>
      [] OTHER -> <<>>

AddClaude(content, b) == content \o ClaudeItems(b)
ClaudeContent(blocks) ==
    LET content[n \in 0..Len(blocks)] == IF n = 0 THEN <<>> ELSE AddClaude(content[n - 1], blocks[n])
    IN  content[Len(blocks)]

-----------------------------------------------------------------------------
(* The notifications of codex for one thread (registerHandlers).  "begin" is a *)
(* prompt: it records a turn, unless the one on record is still in flight.    *)
(* "end" is turn/completed: the turn settles, and stays on record.  A usage   *)
(* carries the position of its event; the prompt reads it as the turn settles. *)

NoTurn == [known |-> FALSE, live |-> FALSE, deltas |-> {}, usage |-> 0]
CodexStart == [turn |-> NoTurn, out |-> <<>>, returned |-> <<>>]

Update(kind, id) == [kind |-> kind, id |-> id]
Out(s, kind, id) == [s EXCEPT !.out = Append(@, Update(kind, id))]

TurnBegins(s) == IF s.turn.live THEN s ELSE [s EXCEPT !.turn = [NoTurn EXCEPT !.known = TRUE, !.live = TRUE]]
TurnSettles(s) ==
    IF s.turn.live THEN [s EXCEPT !.turn.live = FALSE, !.returned = Append(@, s.turn.usage)] ELSE s

\* item/agentMessage/delta: text before the first turn is dropped.
\* Mutation: the item is not remembered as streamed.
Unmarked(s, id) == IF s.turn.known THEN Out(s, "agent_message_chunk", id) ELSE s
Delta(s, id) ==
    IF s.turn.known
    THEN [Out(s, "agent_message_chunk", id) EXCEPT !.turn.deltas = @ \cup {id}] ELSE s

\* item/completed: the whole text, unless its deltas went out before.
Completed(s, type, id) ==
    CASE type = "commandExecution" -> Out(s, "tool_call_update", id)
      [] type = "agentMessage" /\ id \notin s.turn.deltas -> Out(s, "agent_message_chunk", id)
      [] OTHER -> s

CodexStep(s, e, at) ==
    CASE e[1] = "begin" -> TurnBegins(s)
      [] e[1] = "end" -> TurnSettles(s)
      [] e[1] = "delta" -> Delta(s, e[2])
      [] e[1] = "reasoning" -> Out(s, "agent_thought_chunk", "none")
      [] e[1] = "started" -> Out(s, "tool_call", e[2])
      [] e[1] = "completed" -> Completed(s, "commandExecution", e[2])
      [] e[1] = "message" -> Completed(s, "agentMessage", e[2])
      [] e[1] = "usage" -> IF s.turn.known THEN [s EXCEPT !.turn.usage = at] ELSE s

CodexStream(events) ==
    LET after[n \in 0..Len(events)] == IF n = 0 THEN CodexStart ELSE CodexStep(after[n - 1], events[n], n)
    IN  after[Len(events)]

-----------------------------------------------------------------------------
(* The lines of claude for one session (handleLine, handleAssistantBlocks).    *)

ClaudeStart == [plans |-> {}, out |-> <<>>]

\* emitPlanFromTodoWrite: the id of a plan is remembered.
\* Mutation: it is not.
Forgotten(s, id) == Out(s, "plan", "none")
Plan(s, id) == [Out(s, "plan", "none") EXCEPT !.plans = @ \cup {id}]

ClaudeStep(s, e) ==
    CASE e[1] = "init" -> Out(Out(s, "available_commands_update", "none"), "current_mode_update", "none")
      [] e[1] = "text" -> Out(s, "agent_message_chunk", "none")
      [] e[1] = "thinking" -> Out(s, "agent_thought_chunk", "none")
      [] e[1] = "tool_use" -> IF e[2] = "" THEN s ELSE Out(s, "tool_call", e[2])
      [] e[1] = "TodoWrite" -> IF e[2] = "" THEN s ELSE Plan(s, e[2])
      [] e[1] = "TodoWrite undecodable" -> s
      [] e[1] = "tool_result" ->
            IF e[2] = "" \/ e[2] \in s.plans THEN s ELSE Out(s, "tool_call_update", e[2])

ClaudeStream(events) ==
    LET after[n \in 0..Len(events)] == IF n = 0 THEN ClaudeStart ELSE ClaudeStep(after[n - 1], events[n])
    IN  after[Len(events)]
=============================================================================
