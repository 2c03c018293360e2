---------------------------- MODULE PromptCalls -----------------------------
(***************************************************************************)
(* The calls a flow makes: `call llm` (PromptLlmCaller), with the schema of*)
(* its prompt and up to three attempts, and the result of `run agent` with *)
(* the escalation of its prompt. One context holds the variables and the   *)
(* last result.                                                            *)
(*                                                                         *)
(* A text is a sequence of lines: a code fence, with the tag of a language *)
(* or without, a word, a line of JSON, or the Python form of a value. A    *)
(* JSON value carries its kind in "is".                                    *)
(***************************************************************************)
EXTENDS Naturals, SequencesExt

CONSTANTS
  Models,       \* model name -> identifier, as the file defines them
  Prompts,      \* prompt name -> [body, schema, array, model, escalation]
  SchemaDefs,   \* schema name -> (field -> type expression)
  TargetVars,   \* the variables the flow assigns
  Answers,      \* the texts a model may answer with
  MaxDepth,     \* bound: how deep the values of an answer nest
  MaxCalls      \* bound: calls of the flow

MAX_SCHEMA_RETRIES == 3

ASSUME PromptCallsAssumption ==
  /\ MaxCalls \in Nat /\ MaxDepth \in Nat
  /\ \A p \in DOMAIN Prompts :
       Prompts[p].schema \in DOMAIN SchemaDefs \cup {"none"}

VARIABLES
  held,      \* vars of the context
  stage,     \* "flow", "asking", "answered" or "raised"
  asked,     \* the statement that runs: its prompt, model and target
  messages,  \* what the next request sends
  result,    \* _last_result of the caller, then _last_call_result
  sawWord,   \* _last_escalated of the context
  calls      \* statements run so far

callVars == <<held, stage, asked, messages, result, sawWord, calls>>

----------------------------------------------------------------------------
(* Texts and values. *)

Fence     == [line |-> "fence", tag |-> "none"]
Tagged(t) == [line |-> "fence", tag |-> t]     \* ```json
IsFence(l) == l.line = "fence"
Word(w)  == [line |-> "word", word |-> w, dressed |-> FALSE]
Dressed(w) == [line |-> "word", word |-> w, dressed |-> TRUE]   \* **Word.**
Json(v)  == [line |-> "json", value |-> v]
Repr(v)  == [line |-> "repr", value |-> v]

Null        == [is |-> "null"]
Num(n)      == [is |-> "num", n |-> n]
Str(text)   == [is |-> "str", lines |-> text]
List(items) == [is |-> "list", items |-> items]
Object(at)  == [is |-> "object", at |-> at]

IsContainer(v) == v.is \in {"list", "object"}

Ok(v)     == [ok |-> TRUE, value |-> v]
Error(why) == [ok |-> FALSE, error |-> why]

(* json.loads of a text that is one line of JSON; nothing else parses. *)
Loads(text) ==
  IF Len(text) = 1 /\ text[1].line = "json" THEN Ok(text[1].value) ELSE Error("no json")

(* WorkflowContext.stringify, and str() of a result: they differ on dicts  *)
(* and lists.                                                              *)
TextOf(v, container) ==
  CASE v.is = "str"  -> v.lines
    [] v.is = "null" -> <<Word("None")>>
    [] v.is = "num"  -> <<Json(v)>>
    [] OTHER         -> <<container>>

Stringify(v) == TextOf(v, Json(v))
PyStr(v)     == TextOf(v, Repr(v))

----------------------------------------------------------------------------
(* response_parser and schema_validator. *)

(* extract_code_blocks: a block that is not closed is no block. *)
CodeBlocks(text) ==
  LET Read(s, l) ==
        CASE IsFence(l) /\ s.open  -> [blocks |-> Append(s.blocks, s.block),
                                       block |-> << >>, open |-> FALSE]
          [] IsFence(l) /\ ~s.open -> [s EXCEPT !.open = TRUE]
          [] ~IsFence(l) /\ s.open -> [s EXCEPT !.block = Append(@, l)]
          [] OTHER                 -> s
      Scan[i \in 0..Len(text)] ==
        IF i = 0 THEN [blocks |-> << >>, block |-> << >>, open |-> FALSE]
        ELSE Read(Scan[i - 1], text[i])
  IN  Scan[Len(text)].blocks

(* MUTANT: the whole text is parsed, the fences of a block included. *)
ParseJsonResponse_WholeText(text) == Loads(text)

ParseJsonResponse(text) ==
  LET blocks == CodeBlocks(text)
  IN  CASE Len(blocks) = 0 -> Loads(text)
        [] Len(blocks) = 1 -> Loads(blocks[1])
        [] OTHER           -> Error("several blocks")

HoldsJson(v) == v.is = "str" /\ Loads(v.lines).ok /\ IsContainer(Loads(v.lines).value)

(* The values v holds, those of a text that looks like JSON included, and  *)
(* what these hold, v among them.                                          *)
Held(v) ==
  CASE v.is = "object" -> {v.at[f] : f \in DOMAIN v.at}
    [] v.is = "list"   -> {v.items[i] : i \in DOMAIN v.items}
    [] HoldsJson(v)    -> {Loads(v.lines).value}
    [] OTHER           -> {}

Parts(v) ==
  LET Upto[n \in 0..MaxDepth] ==
        IF n = 0 THEN {v}
        ELSE LET found == Upto[n - 1] IN found \cup UNION {Held(u) : u \in found}
  IN  Upto[MaxDepth]

(* An answer is a sequence of lines, its JSON is made of values and nests  *)
(* no deeper than the bound, and a normalized condition compares a word.   *)
IsValue(v) ==
  /\ v.is = "object" => v = Object([f \in DOMAIN v.at |-> v.at[f]])
  /\ v.is = "list"   => v = List([i \in 1..Len(v.items) |-> v.items[i]]) /\ Len(v.items) \in Nat

ASSUME TextsAssumption ==
  /\ \A a \in Answers :
       /\ a \in Seq(Range(a))
       /\ \A i \in DOMAIN a : a[i].line = "json" =>
            \A u \in Parts(a[i].value) : IsValue(u) /\ Held(u) \subseteq Parts(a[i].value)
  /\ \A p \in DOMAIN Prompts :
       LET cond == Prompts[p].escalation
       IN  cond.op = "~" => cond.value \in {Word(cond.value.word), Dressed(cond.value.word)}

(* Strings that look like JSON arrays or objects are replaced by what they *)
(* hold, at any depth.                                                     *)
DeepParse(v) ==
  LET parts == Parts(v)
      Parsed[n \in 0..MaxDepth] ==
        [u \in parts |->
           CASE n > 0 /\ u.is = "object" ->
                  Object([f \in DOMAIN u.at |-> Parsed[n - 1][u.at[f]]])
             [] n > 0 /\ u.is = "list" ->
                  List([i \in DOMAIN u.items |-> Parsed[n - 1][u.items[i]]])
             [] n > 0 /\ HoldsJson(u) -> Parsed[n - 1][Loads(u.lines).value]
             [] OTHER -> u]
  IN  Parsed[MaxDepth][v]

(* The values pydantic makes of v for a type: none or one. A number may be *)
(* given as the text of a number, a text not as a number.                  *)
OfBase(base, v) ==
  IF base = "int"
    THEN IF v.is = "num" THEN {v}
         ELSE IF v.is = "str" /\ Loads(v.lines).ok /\ Loads(v.lines).value.is = "num"
                THEN {Loads(v.lines).value} ELSE {}
    ELSE IF v.is = "str" THEN {v} ELSE {}

OfType(type, v) ==
  IF type.isOptional /\ v = Null THEN {Null}
  ELSE IF ~type.isList THEN OfBase(type.base, v)
  ELSE IF v.is = "list" /\ \A i \in DOMAIN v.items : OfBase(type.base, v.items[i]) # {}
         THEN {List([i \in DOMAIN v.items |-> CHOOSE x \in OfBase(type.base, v.items[i]) : TRUE])}
         ELSE {}

(* MUTANT: the answer itself is handed on once it has been validated. *)
ModelValidate_GivesInput(schema, v) ==
  LET Given(f) == IF f \in DOMAIN v.at THEN v.at[f] ELSE Null
  IN  IF v.is = "object" /\ \A f \in DOMAIN schema : OfType(schema[f], Given(f)) # {}
        THEN Ok(v) ELSE Error("schema")

(* model_validate, model_dump: unknown fields are dropped, optional ones   *)
(* that are missing are None.                                              *)
ModelValidate(schema, v) ==
  LET Given(f) == IF f \in DOMAIN v.at THEN v.at[f] ELSE Null
  IN  IF v.is = "object" /\ \A f \in DOMAIN schema : OfType(schema[f], Given(f)) # {}
        THEN Ok(Object([f \in DOMAIN schema |-> CHOOSE x \in OfType(schema[f], Given(f)) : TRUE]))
        ELSE Error("schema")

ValidateItems(schema, items) ==
  LET each == [i \in DOMAIN items |-> ModelValidate(schema, items[i])]
  IN  IF \A i \in DOMAIN items : each[i].ok
        THEN Ok(List([i \in DOMAIN items |-> each[i].value])) ELSE Error("schema")

ValidateResponse(text, schema, isArray) ==
  LET parsed == ParseJsonResponse(text)
      value  == DeepParse(parsed.value)
  IN  CASE ~parsed.ok -> parsed
        [] parsed.ok /\ ~isArray -> ModelValidate(schema, value)
        [] parsed.ok /\ isArray /\ value.is # "list" -> Error("no array")
        [] parsed.ok /\ isArray /\ value.is = "list" -> ValidateItems(schema, value.items)

(* _try_parse_json: the result of an agent whose prompt has no schema. The *)
(* fences come off when they enclose the whole text.                       *)
TryParseJson(text) ==
  LET fenced == Len(text) >= 3 /\ IsFence(text[1]) /\ text[Len(text)] = Fence
      loaded == Loads(IF fenced THEN SubSeq(text, 2, Len(text) - 1) ELSE text)
  IN  IF loaded.ok THEN loaded.value ELSE Str(text)

----------------------------------------------------------------------------
(* The text of a prompt: its body is a sequence of pieces, each a literal, *)
(* a name or a property of a variable.                                     *)

Property(v, path) ==
  LET Walk(u, f) == IF u.is = "object" /\ f \in DOMAIN u.at THEN u.at[f] ELSE Null
      loaded == IF v.is = "str" THEN Loads(v.lines) ELSE Ok(v)
      at     == FoldLeft(Walk, loaded.value, path)
  IN  CASE ~loaded.ok -> v.lines
        [] loaded.ok /\ at = Null -> << >>
        [] loaded.ok /\ at # Null -> Stringify(at)

(* resolve looks among the variables, then among the prompts, whose bodies *)
(* resolve names in turn. A circle ends in a RecursionError.               *)
BodyText[chain \in Seq(DOMAIN Prompts)] ==
  LET p == Last(chain)
      PieceText(piece) ==
        CASE piece.get = "literal" -> Ok(<<Word(p)>>)
          [] piece.get = "name" ->
               CASE piece.name \in DOMAIN held -> Ok(Stringify(held[piece.name]))
                 [] piece.name \in DOMAIN Prompts \ (DOMAIN held \cup Range(chain)) ->
                      BodyText[Append(chain, piece.name)]
                 [] piece.name \in Range(chain) -> Error("RecursionError")
                 [] OTHER -> Error("UndefinedVariableError")
          [] piece.get = "property" ->
               IF piece.name \in DOMAIN held
                 THEN Ok(Property(held[piece.name], piece.path))
                 ELSE Error("UndefinedVariableError")
      Add(text, piece) ==
        IF ~text.ok THEN text
        ELSE LET more == PieceText(piece)
             IN  IF more.ok THEN Ok(text.value \o more.value) ELSE more
  IN  FoldLeft(Add, Ok(<< >>), Prompts[p].body)

EvaluatePromptText(p) == BodyText[<<p>>]

HasSchema(p) == Prompts[p].schema # "none"

(* Instructions for the schema end the prompt. *)
EnrichPrompt(text, p) ==
  IF ~HasSchema(p) THEN text
  ELSE Append(text, [line |-> "format", schema |-> Prompts[p].schema, array |-> Prompts[p].array])

(* Nothing outside the tests calls set_prompt_models: the mapping of the   *)
(* context stays as __init__ leaves it.                                    *)
PromptModels == [p \in {} |-> ""]

ResolveModel(p) ==
  IF p \in DOMAIN PromptModels
    THEN IF PromptModels[p] \in DOMAIN Models THEN Models[PromptModels[p]] ELSE PromptModels[p]
    ELSE IF "main" \in DOMAIN Models THEN Models["main"] ELSE ""

----------------------------------------------------------------------------
(* Escalation. *)

(* normalize_for_comparison: markdown, punctuation, case and white space   *)
(* do not count. Of a code fence the backticks go, the tag of its language *)
(* stays as a word of the text.                                            *)
(* MUTANT: backticks go, other markdown stays. *)
Normalized_KeepsMarkdown(text) ==
  SelectSeq(text, LAMBDA l : l # Fence)

Normalized(text) ==
  LET Bare(l) == CASE l.line = "word"  -> Word(l.word)
                   [] l.line = "fence" -> Word(l.tag)
                   [] OTHER            -> l
      Shown[i \in 0..Len(text)] ==
        IF i = 0 THEN << >>
        ELSE IF text[i] = Fence THEN Shown[i - 1]
        ELSE Append(Shown[i - 1], Bare(text[i]))
  IN  Shown[Len(text)]

NormalizedEquals(left, right) == Normalized(left) = Normalized(right)

(* get_condition: the agent's instruction prompt may carry one. *)
Condition(p) == Prompts[p].escalation

EscalationHolds(cond, v) ==
  CASE cond.op = "none" -> FALSE
    [] cond.op = "~"    -> NormalizedEquals(PyStr(v), <<cond.value>>)
    [] cond.op = "=="   -> PyStr(v) = <<cond.value>>
    [] cond.op = "!="   -> PyStr(v) # <<cond.value>>
    [] cond.op = "contains" -> \E i \in DOMAIN PyStr(v) : PyStr(v)[i] = cond.value

----------------------------------------------------------------------------
NothingAsked == [prompt |-> "none"]

(* create_context *)
InitialVars == [input_prompt |-> Str(<<Word("input")>>)]

CallsInit ==
  /\ held = InitialVars
  /\ stage = "flow"
  /\ asked = NothingAsked
  /\ messages = << >>
  /\ result = Null
  /\ sawWord = FALSE
  /\ calls = 0

User(text)      == [role |-> "user", text |-> text]
Assistant(text) == [role |-> "assistant", text |-> text]
Feedback(error) == [role |-> "user", error |-> error]

(* What the generated call hands over as its model: nothing, or, with a    *)
(* `using model` clause of its own, the first token of that clause, which  *)
(* is the keyword.                                                         *)
CallModifiers == {"none", "using"}

(* ctx.call_llm up to the first request: the text that cannot be evaluated *)
(* raises through the flow.                                                *)
CallLlm(p, target, model) ==
  /\ stage = "flow" /\ calls < MaxCalls
  /\ calls' = calls + 1
  /\ LET text == EvaluatePromptText(p)
     IN  IF text.ok
           THEN /\ stage' = "asking"
                /\ asked' = [prompt |-> p, target |-> target,
                           model |-> IF model # "none" THEN model ELSE ResolveModel(p)]
                /\ messages' = <<User(EnrichPrompt(text.value, p))>>
                /\ result' = Null
           ELSE stage' = "raised" /\ UNCHANGED <<asked, messages, result>>
  /\ UNCHANGED <<held, sawWord>>

Attempt == Len(messages) \div 2

(* MUTANT: the model is told what is wrong, not what it said. *)
AddRetryFeedback_ErrorOnly(content, error) ==
  IF Attempt < MAX_SCHEMA_RETRIES - 1
    THEN Append(messages, Feedback(error)) ELSE messages

AddRetryFeedback(content, error) ==
  IF Attempt < MAX_SCHEMA_RETRIES - 1
    THEN messages \o <<Assistant(content), Feedback(error)>> ELSE messages

(* One attempt: a text without a schema is the result; a text with one is  *)
(* validated, sent back with its error, or given up.                       *)
GetAnswer(content) ==
  /\ stage = "asking" /\ asked.model # ""
  /\ LET p == Prompts[asked.prompt]
         checked == IF ~HasSchema(asked.prompt) THEN Ok(Str(content))
                    ELSE ValidateResponse(content, SchemaDefs[p.schema], p.array)
     IN  IF checked.ok
           THEN result' = checked.value /\ stage' = "answered" /\ UNCHANGED messages
           ELSE /\ messages' = AddRetryFeedback(content, checked.error)
                /\ stage' = IF Attempt = MAX_SCHEMA_RETRIES - 1 THEN "raised" ELSE "asking"
                /\ UNCHANGED result
  /\ UNCHANGED <<held, asked, sawWord, calls>>

(* Any other exception of the request is logged; the call yields nothing. *)
RequestFails ==
  /\ stage = "asking"
  /\ result' = Null
  /\ stage' = "answered"
  /\ UNCHANGED <<held, asked, messages, sawWord, calls>>

(* The generated assignment of the statement. *)
AssignResult ==
  /\ stage = "answered"
  /\ held' = [x \in DOMAIN held \cup {asked.target} |->
                IF x = asked.target THEN result ELSE held[x]]
  /\ stage' = "flow" /\ asked' = NothingAsked /\ messages' = << >>
  /\ UNCHANGED <<result, sawWord, calls>>

(* run_agent_with_escalation of an agent whose prompt has no schema: the   *)
(* result is what its answer parses to, and the condition looks at that.   *)
RunWithPrompt(p, target, content) ==
  /\ stage = "flow" /\ calls < MaxCalls
  /\ ~HasSchema(p)
  /\ calls' = calls + 1
  /\ result' = TryParseJson(content)
  /\ sawWord' = EscalationHolds(Condition(p), result')
  /\ asked' = [prompt |-> p, target |-> target, agent |-> content]
  /\ stage' = "answered"
  /\ UNCHANGED <<held, messages>>

CallsNext ==
  \/ \E p \in DOMAIN Prompts, x \in TargetVars, m \in CallModifiers : CallLlm(p, x, m)
  \/ \E a \in Answers : GetAnswer(a)
  \/ RequestFails \/ AssignResult
  \/ \E p \in DOMAIN Prompts, x \in TargetVars, a \in Answers : RunWithPrompt(p, x, a)

CallsSpec == CallsInit /\ [][CallsNext]_callVars

----------------------------------------------------------------------------
IsPromptCall == stage \in {"asking", "answered", "raised"} /\ "model" \in DOMAIN asked

Conforms(schema, v) ==
  /\ v.is = "object" /\ DOMAIN v.at = DOMAIN schema
  /\ \A f \in DOMAIN schema : OfType(schema[f], v.at[f]) = {v.at[f]}

ConformsTo(p, v) ==
  LET schema == SchemaDefs[Prompts[p].schema]
  IN  IF Prompts[p].array
        THEN v.is = "list" /\ \A i \in DOMAIN v.items : Conforms(schema, v.items[i])
        ELSE Conforms(schema, v)

(* A flow reads the fields of a result without looking first: a call with  *)
(* a schema gives None or a value with exactly the fields of the schema,   *)
(* each of its type, whatever the model added, left out or put in text.    *)
ResultFitsTheSchema ==
  IsPromptCall /\ stage = "answered" /\ HasSchema(asked.prompt) =>
    result = Null \/ ConformsTo(asked.prompt, result)

(* Every request after the first shows the model its own last answer and   *)
(* what was wrong with that one, in turn, and there are three at the most. *)
RetriesShowTheFailure ==
  IsPromptCall =>
    /\ Attempt < MAX_SCHEMA_RETRIES
    /\ \A i \in DOMAIN messages : messages[i].role = IF i % 2 = 1 THEN "user" ELSE "assistant"
    /\ \A i \in DOMAIN messages : i % 2 = 0 =>
         /\ i < Len(messages)
         /\ LET p == Prompts[asked.prompt]
            IN  messages[i + 1] =
                  Feedback(ValidateResponse(messages[i].text, SchemaDefs[p.schema], p.array).error)

(* What holds no text that looks like JSON. *)
IsPlain(v) == \A u \in Parts(v) : ~HoldsJson(u)

(* The answers that say v: the value alone, or in a block of code with or  *)
(* without a tag, with or without words around it.                         *)
Says(text, v) ==
  \E before, after \in {<< >>, <<Word("prose")>>}, opening \in {Fence, Tagged("json")} :
    text \in {<<Json(v)>>, before \o <<opening, Json(v), Fence>> \o after}

(* A model that answers as it was asked is not asked again, on whichever   *)
(* attempt, and its value is the result as it stands.                      *)
ConformingAnswerIsTaken ==
  [][\A a \in Answers : GetAnswer(a) /\ HasSchema(asked.prompt) =>
       \A i \in {1, 2, 3} \cap DOMAIN a :
         a[i].line = "json" /\ Says(a, a[i].value) /\ IsPlain(a[i].value)
           /\ ConformsTo(asked.prompt, a[i].value)
         => stage' = "answered" /\ result' = a[i].value]_callVars

(* A normalized condition looks through what the model puts around a word: *)
(* markdown, the quotes of a JSON string, a block of code. The tag of a    *)
(* block hides a bare word, which no one who writes the condition expects, *)
(* but not a word in quotes: that one is parsed out of the block first.    *)
EscalationSeesTheWord ==
  stage = "answered" /\ "agent" \in DOMAIN asked /\ Condition(asked.prompt).op = "~" =>
    LET w == Condition(asked.prompt).value.word
        said == {Word(w), Dressed(w)}
        quoted == Json(Str(<<Word(w)>>))
    IN  /\ asked.agent \in {<<l>> : l \in said \cup {quoted}}
                           \cup {<<Fence, l, Fence>> : l \in said \cup {quoted}}
                           \cup {<<Tagged("json"), quoted, Fence>>}
              => sawWord
        /\ asked.agent \in {<<Tagged("text"), l, Fence>> : l \in said} => ~sawWord
=============================================================================
