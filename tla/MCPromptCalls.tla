--------------------------- MODULE MCPromptCalls ----------------------------
(***************************************************************************)
(* Prompts, a schema and answers for TLC.                                  *)
(***************************************************************************)
EXTENDS PromptCalls

MCModels == [main |-> "large", fast |-> "small"]

Type(base, isList, isOptional) ==
  [base |-> base, isList |-> isList, isOptional |-> isOptional]

MCSchemaDefs ==
  [Finding |-> [title |-> Type("string", FALSE, FALSE),
                lines |-> Type("int", TRUE, TRUE)]]

Literal       == [get |-> "literal"]
Name(x)       == [get |-> "name", name |-> x]
PropertyOf(x, f) == [get |-> "property", name |-> x, path |-> <<f>>]

Prompt(body, schema, array, model, escalation) ==
  [body |-> body, schema |-> schema, array |-> array, model |-> model,
   escalation |-> escalation]

Never == [op |-> "none"]
If(op, value) == [op |-> op, value |-> value]

MCPrompts ==
  [find   |-> Prompt(<<Literal, Name("input_prompt")>>, "Finding", FALSE, "fast", Never),
   list   |-> Prompt(<<Literal, Name("x")>>, "Finding", TRUE, "none", Never),
   report |-> Prompt(<<Name("find"), PropertyOf("x", "title")>>, "none", FALSE, "none",
                     If("~", Word("done"))),
   ring   |-> Prompt(<<Name("ring")>>, "none", FALSE, "none", If("contains", Word("done")))]

Title   == Str(<<Word("title")>>)
Listing == Str(<<Json(List(<<Num(1)>>))>>)       \* the text "[1]"
Five    == Str(<<Json(Num(5))>>)                 \* the text "5"

Good    == Object([title |-> Title, lines |-> List(<<Num(1)>>)])
Exact   == Object([title |-> Title, lines |-> Null])
Extra   == Object([title |-> Five, lines |-> List(<<Five>>), other |-> Num(1)])
Quoted  == Object([title |-> Title, lines |-> Listing])
Untitled == Object([lines |-> List(<< >>)])
Swallowed == Object([title |-> Listing])

MCAnswers ==
  {<<Json(Good)>>, <<Word("prose"), Tagged("json"), Json(Exact), Fence>>, <<Json(Extra)>>,
   <<Tagged("json"), Json(Quoted), Fence>>, <<Json(List(<<Exact>>))>>, <<Json(Untitled)>>,
   <<Json(List(<<Exact, Untitled>>))>>, <<Json(Swallowed)>>,
   <<Fence, Json(Exact), Fence, Fence, Json(Good), Fence>>, << >>, <<Fence, Json(Good)>>,
   <<Word("done")>>, <<Fence, Dressed("done"), Fence>>,
   <<Tagged("text"), Word("done"), Fence>>, <<Tagged("json"), Json(Str(<<Word("done")>>)), Fence>>}
=============================================================================
