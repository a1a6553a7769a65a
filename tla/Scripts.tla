------------------------------- MODULE Scripts --------------------------------
(***************************************************************************)
(* What a script is to its host, and what the libraries compute for it,    *)
(* one component at a time, beside the components of Requests.             *)
(***************************************************************************)
EXTENDS Requests

VARIABLES check_code, check_pos, check_cleaned, check_verdict, check_place, check_route
VARIABLES result_limit, result_path, result_shebang, result_at, result_value, result_error,
          result_sent, result_report
VARIABLES buffer_memory, buffer_this, buffer_target, buffer_call
VARIABLES text_call, text_buffer
VARIABLES params_params, params_arrays, params_taken, params_given, params_loop, params_visits,
          params_start, params_changed, params_listed, params_calls

check_vars == <<check_code, check_pos, check_cleaned, check_verdict, check_place, check_route>>
result_vars == <<result_limit, result_path, result_shebang, result_at, result_value,
                 result_error, result_sent, result_report>>
buffer_vars == <<buffer_memory, buffer_this, buffer_target, buffer_call>>
text_vars == <<text_call, text_buffer>>
params_vars == <<params_params, params_arrays, params_taken, params_given, params_loop,
                 params_visits, params_start, params_changed, params_listed, params_calls>>

Check == INSTANCE CodeCheck WITH
  Alphabets <- {<<{"slash", "star", "newline", "quote", "backslash"}, 4>>,
                <<{"slash", "quote", "backslash"}, 5>>,
                <<{"slash", "newline", "quote", "tick", "backslash"}, 4>>,
                <<{"while(true)", "open", "close", "return"}, 6>>,
                <<{"return"}, 7>>,
                <<{"quote", "slash", "console", "pattern", "return"}, 4>>,
                <<{"do", "for(;;)", "open", "break", "close", "return"}, 4>>,
                <<{"quote", "promise", "catch", "@async", "return"}, 3>>},
  MaxCodeLength <- 6, AllowConsole <- FALSE, code <- check_code, pos <- check_pos,
  cleaned <- check_cleaned, verdict <- check_verdict, place <- check_place,
  route <- check_route

Result == INSTANCE ResultReport WITH
  Limits <- {4, 24}, TextLength <- 3, MaxItems <- 2, Lines <- {1, 3}, limit <- result_limit,
  path <- result_path, shebang <- result_shebang, at <- result_at, value <- result_value,
  error <- result_error, sent <- result_sent, report <- result_report

Buffer == INSTANCE BufferViews WITH
  Size <- 3, Base <- 4,
  Contents <- {[i \in 0..2 |-> IF i = 1 THEN 1 ELSE 0]},
  memory <- buffer_memory, this <- buffer_this, target <- buffer_target, call <- buffer_call

Text == INSTANCE BufferTexts WITH
  MaxText <- 3, Length <- 3, call <- text_call, buffer <- text_buffer

Params == INSTANCE SearchParams WITH
  Name <- {1, 2}, Value <- {"u", "v"},
  Given <- {<<>>, <<<<1, "u">>, <<1, "v">>>>, <<<<1, "u">>, <<2, "v">>>>, <<<<1, "u">>, <<>>>>},
  MaxCalls <- 3, MaxLength <- 4, params <- params_params, arrays <- params_arrays,
  taken <- params_taken, given <- params_given, loop <- params_loop, visits <- params_visits,
  start <- params_start, changed <- params_changed, listed <- params_listed,
  calls <- params_calls

ScriptVars == <<check_vars, result_vars, buffer_vars, text_vars, params_vars>>

\* The others do nothing.
RestOfScripts(f) == /\ Rest(f)
                    /\ IF f = "check" THEN TRUE ELSE UNCHANGED check_vars
                    /\ IF f = "result" THEN TRUE ELSE UNCHANGED result_vars
                    /\ IF f = "buffer" THEN TRUE ELSE UNCHANGED buffer_vars
                    /\ IF f = "text" THEN TRUE ELSE UNCHANGED text_vars
                    /\ IF f = "params" THEN TRUE ELSE UNCHANGED params_vars

InitOfScripts ==
  /\ IF focus = "check" THEN TRUE ELSE check_code = <<"return">>
  /\ Check!Init
  /\ IF focus = "result" THEN TRUE ELSE
     /\ result_limit = 4
     /\ result_path = "pool"
     /\ result_shebang = FALSE
  /\ Result!Init
  /\ IF focus = "buffer" THEN TRUE ELSE
     /\ buffer_memory = [a \in {"x", "y"} |-> [i \in 0..2 |-> IF i = 1 THEN 1 ELSE 0]]
     /\ buffer_this = [of |-> "x", start |-> 0, length |-> 3]
     /\ buffer_target = buffer_this
  /\ Buffer!Init
  /\ Text!Init
  /\ IF focus = "params" THEN TRUE ELSE params_given = [pairs |-> <<>>, form |-> "array"]
  /\ Params!Init

NextOfScripts ==
  \/ focus = "check" /\ Check!Next /\ RestOfScripts("check")
  \/ focus = "result" /\ Result!Next /\ RestOfScripts("result")
  \/ focus = "buffer" /\ Buffer!Next /\ RestOfScripts("buffer")
  \/ focus = "text" /\ Text!Next /\ RestOfScripts("text")
  \/ focus = "params" /\ Params!Next /\ RestOfScripts("params")

\* One component is at work in a behaviour, of these or of Requests; what SpecOfAll allows, Spec of
\* Requests allows too, so that the theorems about Spec hold of SpecOfAll.
Everything == <<vars, ScriptVars>>
InitOfAll == Init /\ InitOfScripts
NextOfAll == (Next /\ UNCHANGED ScriptVars) \/ NextOfScripts
SpecOfAll == InitOfAll /\ [][NextOfAll]_Everything

-----------------------------------------------------------------------------
\* A code is read as it is written, what it gives back fits the limit or names its lines, and what a
\* library is called with is what it reads, moves and writes, and nothing else.
ScriptsServed ==
  /\ focus = "check" => Check!CodeRead
  /\ focus = "result" => Result!ReportRight
  /\ focus = "buffer" => Buffer!BufferKept
  /\ focus = "text" => Text!TextsKept
  /\ focus = "params" => Params!ParamsKept
=============================================================================
