--------------------------- MODULE ProviderForms ---------------------------
(***************************************************************************)
(* What the provider adapters make of a conversation, and of an answer     *)
(* (extensions/providers/<provider>/index.ts).  A conversation is the      *)
(* list of normalized messages the harness keeps:                          *)
(*   [role |-> "system" or "user" or "assistant", text, of]                *)
(*   [role |-> "calls", ids]           an assistant message that calls     *)
(*   [role |-> "tool", id]             the result of one call              *)
(* "of" is the inbound message a text is, or 0; "text" is FALSE when the   *)
(* text is empty.  The id of a call is its place in its answer: that is    *)
(* all a Gemini id holds when the provider gives none, and ids of the      *)
(* other providers tell more calls apart, never fewer.                     *)
(***************************************************************************)
EXTENDS Naturals, SequencesExt, Subsequences

CONSTANT Tool   \* names a call can give

Provider == {"openai", "grok", "openrouter", "anthropic", "gemini"}

Says(role, text, of) == [role |-> role, text |-> text, of |-> of]
Calls(ids)           == [role |-> "calls", ids |-> ids]
Result(id)           == [role |-> "tool", id |-> id]

\* The providers' own messages: a turn of the model, of the user, or of the
\* system, with the text it tells, or the calls and results its blocks hold.
Turn(who, of, calls, results) ==
  [who |-> who, of |-> of, calls |-> calls, results |-> results]

-----------------------------------------------------------------------------
(* Requests. *)

\* A chat completion keeps one message for each, empty ones as well.
ChatTurn(msg) ==
  CASE msg.role = "calls" -> Turn("assistant", 0, msg.ids, <<>>)
    [] msg.role = "tool"  -> Turn("tool", 0, <<>>, <<msg.id>>)
    [] OTHER              -> Turn(msg.role, msg.of, <<>>, <<>>)

OpenAiForm(chat)     == [i \in DOMAIN chat |-> ChatTurn(chat[i])]
GrokForm(chat)       == OpenAiForm(chat)
OpenRouterForm(chat) == OpenAiForm(chat)

\* System messages become the system prompt; messages without a block are
\* dropped; a result is a block of a user message of its own.
AnthropicForm(chat) ==
  LET Kept == {msg \in Range(chat) :
                 msg.role \in {"calls", "tool"} \/ (msg.role # "system" /\ msg.text)}
      Put(msg) == CASE msg.role = "calls" -> Turn("assistant", 0, msg.ids, <<>>)
                    [] msg.role = "tool"  -> Turn("user", 0, <<>>, <<msg.id>>)
                    [] OTHER              -> Turn(msg.role, msg.of, <<>>, <<>>)
      kept == Those(chat, Kept)
  IN  [i \in DOMAIN kept |-> Put(kept[i])]

\* A system message is told as the user; the name of the tool is read back
\* from the id of the call.
GeminiForm(chat) ==
  LET Kept == {msg \in Range(chat) : msg.role \in {"calls", "tool"} \/ msg.text}
      Put(msg) == CASE msg.role = "calls"     -> Turn("assistant", 0, msg.ids, <<>>)
                    [] msg.role = "tool"      -> Turn("user", 0, <<>>, <<msg.id>>)
                    [] msg.role = "assistant" -> Turn("assistant", msg.of, <<>>, <<>>)
                    [] OTHER                  -> Turn("user", msg.of, <<>>, <<>>)
      kept == Those(chat, Kept)
  IN  [i \in DOMAIN kept |-> Put(kept[i])]

Form(p, chat) ==
  CASE p = "openai"     -> OpenAiForm(chat)
    [] p = "grok"       -> GrokForm(chat)
    [] p = "openrouter" -> OpenRouterForm(chat)
    [] p = "anthropic"  -> AnthropicForm(chat)
    [] p = "gemini"     -> GeminiForm(chat)

\* The adapters that send a message without text as well.
KeepsEmpty == {"openai", "grok", "openrouter"}

\* The results between turn i of the model and its next turn.
ResultsAfter(form, i) ==
  LET next == {j \in i + 1 .. Len(form) : form[j].who = "assistant"}
      last == IF next = {} THEN Len(form) ELSE CHOOSE j \in next : \A k \in next : j <= k
  IN  FlattenSeq([k \in 1 .. last - i |-> form[i + k].results])

\* What every provider demands: each call is answered once, before the model
\* speaks again, and nothing else is answered.
Paired(form) ==
  /\ \A i \in DOMAIN form :
       form[i].who = "assistant" => ResultsAfter(form, i) = form[i].calls
  /\ \A j \in DOMAIN form :
       form[j].results # <<>> => \E i \in 1 .. j - 1 : form[i].calls # <<>>

-----------------------------------------------------------------------------
(* Answers.  A block of an answer may lack its name or its id, or hold       *)
(* arguments that are no JSON.                                               *)

Block == [tool : Tool, named : BOOLEAN, identified : BOOLEAN, parsable : BOOLEAN]

Named == {b \in Block : b.named}
Whole == {b \in Named : b.identified}

\* An answer of a provider: what the harness gets of it.
Threw == [threw |-> TRUE, calls |-> <<>>]
Gave(calls) == [threw |-> FALSE, calls |-> calls]

ToolsOf(blocks) == [i \in DOMAIN blocks |-> blocks[i].tool]

\* Calls without an id or a name are passed over; broken arguments throw.
OpenAiCalls(raw) ==
  LET kept == Those(raw, Whole)
  IN  IF \E i \in DOMAIN kept : ~kept[i].parsable THEN Threw ELSE Gave(ToolsOf(kept))

GrokCalls(raw)       == OpenAiCalls(raw)
OpenRouterCalls(raw) == OpenAiCalls(raw)

\* Broken arguments are read as none.
AnthropicCalls(raw) ==
  Gave(ToolsOf(Those(raw, Whole)))

\* Ids are made by the adapter, so none is missing.
GeminiCalls(raw) ==
  Gave(ToolsOf(Those(raw, Named)))

\* One request: "ok" when the exchange succeeds with a status of success.
OpenAiAnswer(ok, raw)     == IF ok THEN OpenAiCalls(raw) ELSE Threw
GrokAnswer(ok, raw)       == IF ok THEN GrokCalls(raw) ELSE Threw
OpenRouterAnswer(ok, raw) == IF ok THEN OpenRouterCalls(raw) ELSE Threw
AnthropicAnswer(ok, raw)  == IF ok THEN AnthropicCalls(raw) ELSE Threw
GeminiAnswer(ok, raw)     == IF ok THEN GeminiCalls(raw) ELSE Threw

Answer(p, ok, raw) ==
  CASE p = "openai"     -> OpenAiAnswer(ok, raw)
    [] p = "grok"       -> GrokAnswer(ok, raw)
    [] p = "openrouter" -> OpenRouterAnswer(ok, raw)
    [] p = "anthropic"  -> AnthropicAnswer(ok, raw)
    [] p = "gemini"     -> GeminiAnswer(ok, raw)
=============================================================================
