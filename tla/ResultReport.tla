---------------------------- MODULE ResultReport ----------------------------
(***************************************************************************)
(* What an execution gives back: a value is measured, exported, checked    *)
(* and serialized under the limit of results; an error is classified and   *)
(* the lines it names are put back to those of the user's code.            *)
(* utils/ordered_json.go and service/executor_helpers.go (validateResult,  *)
(* extractErrorDetails, categorizeError, adjustErrorLineNumber).           *)
(*                                                                         *)
(* A value is a tree of depth two, whose texts and keys have one length    *)
(* each; a message is a sequence of texts and numbers.                     *)
(***************************************************************************)
EXTENDS Integers, Sequences, FiniteSets, FiniteSetsExt, SequencesExt

CONSTANTS Limits,        \* MAX_RESULT_SIZE, of which a behaviour has one
          TextLength,
          MaxItems,      \* of an array, an object: bound
          Lines          \* of the user's code

VARIABLES limit,
          path,      \* "pool" or "loop": which wrapper the code has
          shebang,   \* the code begins with #!, whose line is removed
          at,
          value,     \* the value the code returned, as exported later
          error,     \* the error it threw: [kind, line, message, stack]
          sent,      \* JSON, or NoValue
          report     \* [type, message, stack], or NoValue

vars == <<limit, path, shebang, at, value, error, sent, report>>

NoValue == [kind |-> "none", items |-> <<>>]
NoReport == [type |-> "none", message |-> <<>>, stack |-> <<>>]

-----------------------------------------------------------------------------
\* Values.

Leaf(k) == [kind |-> k, items |-> <<>>]
Leaves  == {Leaf(k) : k \in {"null", "undefined", "nan", "int", "text"}}
Items(S) == UNION {[1..n -> S] : n \in 0..MaxItems}
Trees(S) == [kind : {"array", "object"}, items : Items(S)]
\* An object with a toJSON, which is called when the value is measured and again when it is exported.
Lasting == [kind : {"toJSON"}, items : [1..2 -> Leaves]]
Shallow == Leaves \cup Trees(Leaves) \cup Lasting
Value   == Shallow \cup [kind : {"array", "object"}, items : [1..1 -> Shallow]]

SumOf(f(_), items) == FoldLeft(LAMBDA n, x : n + f(x), 0, items)
Commas(items) == IF items = <<>> THEN 0 ELSE Len(items) - 1

\* estimateSizeFromGojaValue: numbers count for the longest there are, an undefined member of an object for
\* nothing but its comma.
KeyLength == 1
Estimate[v \in Value] ==
  CASE v.kind \in {"null", "undefined"} -> 4
    [] v.kind = "text"   -> TextLength + TextLength \div 10 + 2
    [] v.kind = "int"    -> 20
    [] v.kind = "nan"    -> 25
    [] v.kind = "array"  -> 2 + SumOf(LAMBDA x : Estimate[x], v.items) + Commas(v.items)
    [] v.kind = "object" -> 2 + Commas(v.items) + SumOf(LAMBDA x : IF x.kind = "undefined" THEN 0 ELSE KeyLength + 3 + Estimate[x], v.items)
    [] v.kind = "toJSON" -> IF v.items[1].kind = "undefined" THEN 2 ELSE Estimate[v.items[1]]

\* ExportWithOrder: undefined members become null, a toJSON's answer stands for its object.
Export[v \in Value] ==
  CASE v.kind = "undefined" -> Leaf("null")
    [] v.kind = "toJSON"    -> IF v.items[2].kind = "undefined" THEN [kind |-> "object", items |-> <<>>] ELSE Export[v.items[2]]
    [] OTHER                -> [v EXCEPT !.items = [i \in DOMAIN v.items |-> Export[v.items[i]]]]

\* validateJSONSerializable.
Serializable[v \in Value] == v.kind # "nan" /\ \A i \in DOMAIN v.items : Serializable[v.items[i]]

\* The JSON the encoder writes, a digit for an int; OrderedMap.MarshalJSON keeps every key.
JSONSize[v \in Value] ==
  CASE v.kind = "null"   -> 4
    [] v.kind = "text"   -> TextLength + 2
    [] v.kind = "int"    -> 1
    [] v.kind = "array"  -> 2 + Commas(v.items) + SumOf(LAMBDA x : JSONSize[x], v.items)
    [] v.kind = "object" -> 2 + Commas(v.items) + SumOf(LAMBDA x : KeyLength + 3 + JSONSize[x], v.items)

-----------------------------------------------------------------------------
\* Errors. A part of a message is a text, "Line n:", "line n:" or ":n:"; a frame of a stack names a line of
\* the user's code with or without a column, or one of a library.

Text == [form |-> "text", line |-> 0]
Parts == [form : {"Line", "line", ":"}, line : {7}] \cup {Text}
WrapperLines == IF path = "pool" THEN 4 ELSE 9
\* Lines the user's line l has in the wrapped code: a removed first line is not counted.
Wrapped(l) == l + WrapperLines - (IF shebang THEN 1 ELSE 0)
Frames(l) == [file : {"user_code", "library"}, line : {Wrapped(l)}, column : BOOLEAN]

\* adjustErrorLineNumber: the first form that matches, "Line" and "line" alike to the pattern but not to the
\* text that is replaced; every frame of the user's code.
\* (A comment still gives the loop's wrapper five lines: a mutant.)
StaleOffset == IF path = "pool" THEN 4 ELSE 5
LineOffset == IF path = "pool" THEN 4 ELSE 9
Back(n) == IF n - LineOffset < 1 THEN 1 ELSE n - LineOffset
First(message, forms) == SelectInSeq(message, LAMBDA p : p.form \in forms)
AdjustMessage(message) ==
  LET word == First(message, {"Line", "line"})
      colon == First(message, {":"})
      same(f) == SelectInSeq(message, LAMBDA p : p.form = f /\ p.line = message[word].line)
  IN IF word # 0 THEN (IF same("Line") = 0 THEN message ELSE [message EXCEPT ![same("Line")].line = Back(@)])
     ELSE IF colon # 0 THEN [message EXCEPT ![colon].line = Back(@)] ELSE message
AdjustStack(stack) == [i \in DOMAIN stack |-> IF stack[i].file = "user_code" THEN [stack[i] EXCEPT !.line = Back(@)] ELSE stack[i]]

\* categorizeGojaException by the name of the error, categorizeCompilerError and the rest of categorizeError.
Names == {"SyntaxError", "ReferenceError", "TypeError", "RangeError", "URIError", "EvalError"}
Category(kind) == IF kind \in Names THEN kind ELSE IF kind = "interrupted" THEN "InterruptedError" ELSE "RuntimeError"
\* extractErrorDetails: what is no object makes ToObject fail, and what was found by then is not returned.
Extracted(e) == IF e.kind = "primitive" THEN [e EXCEPT !.message = <<>>, !.stack = <<>>] ELSE e

-----------------------------------------------------------------------------
Init == /\ limit \in Limits /\ path \in {"pool", "loop"} /\ shebang \in BOOLEAN /\ at = "running"
        /\ value = NoValue /\ error = [kind |-> "none", line |-> 0, message |-> <<>>, stack |-> <<>>]
        /\ sent = NoValue /\ report = NoReport

Refuse(type) == at' = "done" /\ report' = [type |-> type, message |-> <<>>, stack |-> <<>>]

\* (Neither the path nor a first line matters to a value: one of each.)
Return == /\ at = "running" /\ ~shebang /\ path = "pool" /\ value' \in Value
          /\ IF value'.kind = "undefined" THEN Refuse("ValidationError") ELSE at' = "estimate" /\ UNCHANGED report
          /\ UNCHANGED <<limit, path, shebang, error, sent>>

\* ExportWithOrderAndLimit.
ExportWithOrderAndLimit ==
  /\ at = "estimate"
  /\ IF Estimate[value] > limit THEN Refuse("ValidationError") /\ UNCHANGED value
     ELSE at' = "validate" /\ value' = Export[value] /\ UNCHANGED report
  /\ UNCHANGED <<limit, path, shebang, error, sent>>

\* validateResult: the line end the encoder writes counts, and is cut off afterwards. (A mutant trusts the estimate.)
NeverRefuses(v) == FALSE
WriterRefuses(v) == JSONSize[v] + 1 > limit
ValidateResult ==
  /\ at = "validate"
  /\ IF ~Serializable[value] \/ WriterRefuses(value) THEN Refuse("ValidationError") /\ UNCHANGED sent
     ELSE at' = "done" /\ sent' = value /\ UNCHANGED report
  /\ UNCHANGED <<limit, path, shebang, value, error>>

\* The code does not compile: the message names the line.
DoesNotCompile ==
  /\ at = "running"
  /\ \E l \in Lines : error' = [kind |-> "SyntaxError", line |-> l, message |-> <<[form |-> "Line", line |-> Wrapped(l)], Text>>, stack |-> <<>>]
  /\ at' = "categorize" /\ UNCHANGED <<limit, path, shebang, value, sent, report>>

\* The code throws. The pool's wrapper throws an Error of its own with the message; the loop's keeps the error.
Throw ==
  /\ at = "running"
  /\ \E l \in Lines, k \in Names \cup {"Error", "primitive", "interrupted"}, p \in Parts :
       \E s \in [1..2 -> Frames(l)] :
         /\ k = "interrupted" => path = "pool"
         /\ path = "pool" => \A i \in 1..2 : s[i] = [file |-> "library", line |-> Wrapped(l), column |-> TRUE]
         /\ error' = IF path = "pool" THEN [kind |-> IF k = "interrupted" THEN k ELSE "Error", line |-> l, message |-> <<Text, p>>, stack |-> <<>>]
                     ELSE [kind |-> k, line |-> l, message |-> <<p, Text>>, stack |-> s]
  /\ at' = "categorize" /\ UNCHANGED <<limit, path, shebang, value, sent, report>>

Categorize ==
  /\ at = "categorize" /\ at' = "done"
  /\ LET e == IF path = "loop" /\ error.kind # "SyntaxError" THEN Extracted(error) ELSE error
         thrown == path = "loop" /\ error.stack # <<>>
     IN report' = [type |-> IF thrown THEN "RuntimeError" ELSE Category(e.kind),
                   message |-> AdjustMessage(e.message), stack |-> AdjustStack(e.stack)]
  /\ UNCHANGED <<limit, path, shebang, value, error, sent>>

Next == Return \/ ExportWithOrderAndLimit \/ ValidateResult \/ DoesNotCompile \/ Throw \/ Categorize
Spec == Init /\ [][Next]_vars

-----------------------------------------------------------------------------
\* JSON that is sent is within the limit and has no number JSON lacks, although a value is measured before
\* it is exported and a toJSON may answer the second time what it did not the first.
SentFits == sent # NoValue => /\ JSONSize[sent] <= limit
                           /\ sent.kind # "nan" /\ \A i \in DOMAIN sent.items : sent.items[i].kind # "nan"

\* Without a #! line, every frame and every syntax error name the user's own line.
LinesAreTheUsers ==
  (at = "done" /\ error.kind # "none" /\ ~shebang) =>
     /\ \A i \in DOMAIN report.stack : report.stack[i].file = "user_code" => report.stack[i].line = error.line
     /\ error.stack = <<>> /\ error.kind = "SyntaxError" => report.message[1].line = error.line

ReportRight == SentFits /\ LinesAreTheUsers

=============================================================================
