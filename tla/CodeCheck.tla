----------------------------- MODULE CodeCheck ------------------------------
(***************************************************************************)
(* The static check of a piece of code: its strings and comments are       *)
(* blanked, then it is looked through for a return, for what is not        *)
(* allowed and for endless loops. utils/code_lexer.go and                  *)
(* service/executor_helpers.go (validateCode and what it calls).           *)
(*                                                                         *)
(* A code is a sequence of marks (single characters) or of words: a word   *)
(* stands for all the spellings the checks look for.                       *)
(***************************************************************************)
EXTENDS Integers, Sequences, FiniteSets

CONSTANTS Alphabets,     \* of the codes, each with the length of its codes (a bound): {<<set, length>>}
          MaxCodeLength, \* of codes that are checked
          AllowConsole   \* ALLOW_CONSOLE

VARIABLES code,
          pos,      \* of the lexer
          cleaned,  \* what the tokens so far leave
          verdict,  \* "none", "ok" or the kind of error
          place,    \* where an error points
          route     \* "none", "pool" or "loop"

vars == <<code, pos, cleaned, verdict, place, route>>

Codes(alphabet, n) == UNION {[1..k -> alphabet] : k \in 1..n}

Init == /\ code \in UNION {Codes(a[1], a[2]) : a \in Alphabets}
        /\ pos = 1 /\ cleaned = <<>> /\ verdict = "none" /\ place = 0 /\ route = "none"

-----------------------------------------------------------------------------
\* CodeLexer.

Quotes == {"quote", "tick"}
Starts(i, a, b) == i < Len(code) /\ code[i] = a /\ code[i + 1] = b
Least(S, otherwise) == IF S = {} THEN otherwise ELSE CHOOSE i \in S : \A j \in S : i <= j

\* The position behind each kind of token that starts at i. A quote ends its string unless an odd
\* number of backslashes precedes it.
LineCommentEnd(i)  == Least({j \in i + 2..Len(code) : code[j] = "newline"}, Len(code) + 1)
BlockCommentEnd(i) == Least({j + 2 : j \in {k \in i + 2..Len(code) : Starts(k, "star", "slash")}}, Len(code) + 1)
Backslashes(i, j)  == j - 1 - Least({k \in i..j - 1 : \A l \in k + 1..j - 1 : code[l] = "backslash"}, j - 1)
Closes(i, j)       == code[j] = code[i] /\ Backslashes(i, j) % 2 = 0
StringEnd(i)       == Least({j + 1 : j \in {k \in i + 1..Len(code) : Closes(i, k)}}, Len(code) + 1)

TokenAt(i) ==
  CASE Starts(i, "slash", "slash")  -> [type |-> "comment", end |-> LineCommentEnd(i)]
    [] Starts(i, "slash", "star")  -> [type |-> "comment", end |-> BlockCommentEnd(i)]
    [] code[i] \in Quotes   -> [type |-> "string", end |-> StringEnd(i)]
    [] OTHER                -> [type |-> "code", end |-> i + 1]

\* removeStringsAndComments: code is kept, everything else becomes blanks of the same length.
NextToken ==
  /\ verdict = "none" /\ Len(code) <= MaxCodeLength /\ pos <= Len(code)
  /\ LET token == TokenAt(pos)
     IN /\ pos' = token.end
        /\ cleaned' = cleaned \o [k \in 1..token.end - pos |-> IF token.type = "code" THEN code[pos] ELSE " "]
  /\ UNCHANGED <<code, verdict, place, route>>

-----------------------------------------------------------------------------
\* checkInfiniteLoops.

Has(text, word) == \E i \in 1..Len(text) : text[i] = word
Index(text, word) == Least({i \in 1..Len(text) : text[i] = word}, 0)
LoopPatterns == {"while(true)", "for(;;)", "do"}

\* extractLoopBody: up to the brace that closes the first one, or nothing.
Depth(text, from, to) == Cardinality({i \in from..to : text[i] = "open"}) - Cardinality({i \in from..to : text[i] = "close"})
\* A mutant of it does not count the braces between.
FirstClose(text, from) ==
  LET close == Least({i \in from..Len(text) : text[i] = "close"}, 0)
  IN IF from = 0 \/ close = 0 THEN <<>> ELSE SubSeq(text, from + 1, close - 1)
ExtractLoopBody(text, from) ==
  LET close == Least({i \in from..Len(text) : Depth(text, from, i) = 0}, 0)
  IN IF from = 0 \/ close = 0 THEN <<>> ELSE SubSeq(text, from + 1, close - 1)

\* hasExitStatementInLoop looks at the first loop of each pattern, and at the first brace after it.
BodyStart(text, pattern) ==
  LET at == Index(text, pattern)
  IN IF at = 0 THEN 0 ELSE Least({i \in at + 1..Len(text) : text[i] = "open" /\ (pattern = "do" => i = at + 1)}, 0)
HasExitStatementInLoop(text) ==
  \E pattern \in LoopPatterns :
    LET body == ExtractLoopBody(text, BodyStart(text, pattern)) IN Has(body, "break") \/ Has(body, "return")
InfiniteLoops(text) == Has(text, "while(true)") \/ Has(text, "for(;;)")

\* validateCodeSecurityCleaned in its order; a pattern is placed where the code first has it, in a comment
\* or not (findPatternInOriginalCode), console where the code itself has it (findConsoleInActualCode).
FindPattern(word)  == Index(code, word)
ActualConsole      == Least({i \in 1..Len(code) : code[i] = "console" /\ cleaned[i] = "console"}, 1)
ErrorOf ==
  CASE ~Has(cleaned, "return")                   -> <<"no return", 0>>
    [] Has(cleaned, "pattern")                   -> <<"pattern", FindPattern("pattern")>>
    [] ~AllowConsole /\ Has(cleaned, "console")  -> <<"console", ActualConsole>>
    [] InfiniteLoops(cleaned) /\ ~HasExitStatementInLoop(cleaned) -> <<"endless loop", 0>>
    [] OTHER                                     -> <<"ok", 0>>

ValidateCode ==
  /\ verdict = "none" /\ \/ Len(code) > MaxCodeLength
                         \/ pos > Len(code)
  /\ LET error == IF Len(code) > MaxCodeLength THEN <<"too long", 0>> ELSE ErrorOf
     IN verdict' = error[1] /\ place' = error[2]
  /\ UNCHANGED <<code, pos, cleaned, route>>

\* ShouldUseRuntimePool: a quick look at the text as it is, then the patterns in the cleaned code ("catch"
\* stands for those the quick look does not know, "@async" for the marks that are comments and so are blanked).
IsLikelyAsync == Has(code, "promise")
AnalyzeCode   == \E word \in {"promise", "catch", "@async"} : Has(cleaned, word)
ShouldUseRuntimePool == ~IsLikelyAsync /\ ~AnalyzeCode
Execute == /\ verdict = "ok" /\ route = "none" /\ route' = IF ShouldUseRuntimePool THEN "pool" ELSE "loop"
           /\ UNCHANGED <<code, pos, cleaned, verdict, place>>

Next == NextToken \/ ValidateCode \/ Execute
Spec == Init /\ [][Next]_vars

-----------------------------------------------------------------------------
\* What each character is part of, read from the left one character at a time: the lexer's definition without
\* tokens, <<kind, how far in it>>. In a string, a backslash makes the next character a part of it.
Fresh(i) == CASE Starts(i, "slash", "slash") -> <<"line", 1>>
              [] Starts(i, "slash", "star") -> <<"block", 1>>
              [] code[i] \in Quotes  -> <<code[i], 0>>
              [] OTHER               -> <<"code", 0>>
Inside(i, kind, n) ==
  CASE kind = "line"           -> IF n = 0 /\ code[i] = "newline" THEN <<"code", 0>> ELSE <<"line", 0>>
    [] kind = "block" /\ n > 0 -> <<"block", n - 1>>
    [] kind = "block" /\ n < 0 -> <<"block", -2>>
    [] kind = "block"          -> <<"block", IF Starts(i, "star", "slash") THEN -1 ELSE 0>>
    [] OTHER                   -> <<kind, IF n = 1 THEN 0 ELSE IF code[i] = "backslash" THEN 1 ELSE IF code[i] = kind THEN -2 ELSE 0>>
ReadMode[i \in 0..Len(code)] ==
  IF i = 0 THEN <<"code", 0>>
  ELSE LET before == ReadMode[i - 1]
       IN IF before = <<"code", 0>> \/ before[2] = -2 THEN Fresh(i) ELSE Inside(i, before[1], before[2])

\* The scanner that counts backslashes when it meets a quote blanks the characters a scanner that reads every
\* escape blanks, and every character keeps its place.
BlanksStrings ==
  \A i \in 1..Len(cleaned) : cleaned[i] = IF ReadMode[i] = <<"code", 0>> THEN code[i] ELSE " "

\* A code whose endless loops each have a body in braces with a way out is not refused for them.
Balanced(i, j) == /\ cleaned[i] = "open" /\ Depth(cleaned, i, j) = 0
                  /\ \A k \in i..j - 1 : Depth(cleaned, i, k) > 0
HasWayOut(i) == \E j \in i + 2..Len(cleaned) : /\ Balanced(i + 1, j)
                                               /\ \E k \in i + 1..j : cleaned[k] \in {"break", "return"}
AcceptsWaysOut ==
  verdict = "endless loop" => \E i \in 1..Len(cleaned) : cleaned[i] \in LoopPatterns /\ ~HasWayOut(i)

\* An error about console points to the console that is meant, not to one in a string or a comment.
ConsolePlaced == verdict = "console" => place > 0 /\ code[place] = "console" /\ ReadMode[place] = <<"code", 0>>

\* Code that needs an event loop gets one.
AsyncHasALoop == route = "pool" => \A i \in 1..Len(code) : code[i] \in {"promise", "catch"} => ReadMode[i] # <<"code", 0>>

CodeRead == AsyncHasALoop /\ BlanksStrings /\ AcceptsWaysOut /\ ConsolePlaced

=============================================================================
