--------------------------- MODULE CommandParser ---------------------------
(***************************************************************************)
(* lab_1: get_command (parser.c) from the tokens of a line to a Command.   *)
(* A token is one of the four special symbols or a word.                   *)
(***************************************************************************)
EXTENDS Integers, Sequences

CONSTANTS
  Words,
  MaxTokens,    \* MAX_TOKEN_ARRAY_SIZE
  NoFile        \* NULL, where no redirection names one

InputSymbol == "<"
OutputSymbol == ">"
AppendSymbol == ">>"
BackgroundSymbol == "&"
Redirections == {InputSymbol, OutputSymbol, AppendSymbol}
special_symbols == Redirections \cup {BackgroundSymbol}

ASSUME ParserAssumption ==
  /\ MaxTokens \in Nat
  /\ Words \cap special_symbols = {}
  /\ NoFile \notin Words \cup special_symbols

VARIABLES
  tokens,    \* token_arr, and the one that strtok_r finds too many
  j,         \* the next token
  command,
  state      \* "args", "options", then "returned" or "rejected"

parserVars == <<tokens, j, command, state>>

NoCommand == [args |-> <<>>, input_file |-> NoFile, output_file |-> NoFile,
              append |-> FALSE, background |-> FALSE]

\* A line of up to one token too many.
ParserInit ==
  /\ \E n \in 0..(MaxTokens + 1) : tokens \in [1..n -> Words \cup special_symbols]
  /\ j = 1
  /\ command = NoCommand
  /\ state = "args"

More == j <= Len(tokens)
IsArgument(token) == token \notin special_symbols    \* !contains_string

TooManyArguments ==
  /\ state = "args" /\ Len(tokens) > MaxTokens
  /\ state' = "rejected"
  /\ UNCHANGED <<tokens, j, command>>

\* The words before the first special symbol.
TakeArgument ==
  /\ state = "args" /\ Len(tokens) <= MaxTokens
  /\ More /\ IsArgument(tokens[j])
  /\ command' = [command EXCEPT !.args = Append(@, tokens[j])]
  /\ j' = j + 1
  /\ UNCHANGED <<tokens, state>>

EndArguments ==
  /\ state = "args" /\ Len(tokens) <= MaxTokens
  /\ More => ~IsArgument(tokens[j])
  /\ state' = "options"
  /\ UNCHANGED <<tokens, j, command>>

-----------------------------------------------------------------------------
\* What follows: redirections, each with the token behind it, whatever that
\* is, and the background symbol.
HasFile == j < Len(tokens)
MayRedirectAnyway(symbol) == HasFile
MayRedirect(symbol) ==
  /\ HasFile
  /\ IF symbol = InputSymbol THEN command.input_file = NoFile
                             ELSE command.output_file = NoFile

TakeRedirection ==
  /\ state = "options" /\ More
  /\ tokens[j] \in Redirections /\ MayRedirect(tokens[j])
  /\ command' =
       IF tokens[j] = InputSymbol
         THEN [command EXCEPT !.input_file = tokens[j + 1]]
         ELSE [command EXCEPT !.output_file = tokens[j + 1],
                              !.append = tokens[j] = AppendSymbol]
  /\ j' = j + 2
  /\ UNCHANGED <<tokens, state>>

TakeBackground ==
  /\ state = "options" /\ More
  /\ tokens[j] = BackgroundSymbol
  /\ command' = [command EXCEPT !.background = TRUE]
  /\ j' = j + 1
  /\ UNCHANGED <<tokens, state>>

\* A second redirection of one kind, one without a file, or any other token:
\* everything is freed and an empty command returned.
Reject ==
  /\ state = "options" /\ More
  /\ tokens[j] # BackgroundSymbol
  /\ ~(tokens[j] \in Redirections /\ MayRedirect(tokens[j]))
  /\ command' = NoCommand
  /\ state' = "rejected"
  /\ UNCHANGED <<tokens, j>>

Return ==
  /\ state = "options" /\ ~More
  /\ state' = "returned"
  /\ UNCHANGED <<tokens, j, command>>

ParserNext ==
  \/ TooManyArguments \/ TakeArgument \/ EndArguments
  \/ TakeRedirection \/ TakeBackground \/ Reject \/ Return

ParserSpec == ParserInit /\ [][ParserNext]_parserVars

-----------------------------------------------------------------------------
\* What the loop takes, without the loop: the words up to position cut, and
\* behind them operators at the positions ops, each redirection followed by its
\* file.
AtMostOne(S) == \A a, b \in S : a = b
Takes(cut, ops) ==
  LET Redirects == {k \in ops : tokens[k] \in Redirections}
      With(S) == {k \in ops : tokens[k] \in S}
  IN  /\ \A k \in 1..cut : tokens[k] \in Words
      /\ \A k \in ops : tokens[k] \in special_symbols
      /\ \A k \in (cut + 1)..Len(tokens) : k \in ops <=> (k - 1) \notin Redirects
      /\ Len(tokens) \notin Redirects
      /\ AtMostOne(With({InputSymbol}))
      /\ AtMostOne(With({OutputSymbol, AppendSymbol}))

\* "Background indicator (`&`) must be the last symbol" (README.md:78).
AtTheEnd(ops) == \A k \in ops : tokens[k] = BackgroundSymbol => k = Len(tokens)

FileOf(ops, S) ==
  LET k == {n \in ops : tokens[n] \in S}
  IN  IF k = {} THEN NoFile ELSE tokens[(CHOOSE n \in k : TRUE) + 1]

Denotes(cut, ops) ==
  [args |-> SubSeq(tokens, 1, cut),
   input_file |-> FileOf(ops, {InputSymbol}),
   output_file |-> FileOf(ops, {OutputSymbol, AppendSymbol}),
   append |-> \E k \in ops : tokens[k] = AppendSymbol,
   background |-> \E k \in ops : tokens[k] = BackgroundSymbol]

\* On lines with no background symbol before their end the loop accepts exactly
\* the grammar of README.md 68-79, with the command that the line denotes, and
\* returns an empty command otherwise; and it refuses no line of the grammar
\* (parser.c 84-143).  Of the other lines it accepts many, against that document.
Early == \E k \in 1..(Len(tokens) - 1) : tokens[k] = BackgroundSymbol
ParsesGrammar ==
  LET Readings == {r \in (0..Len(tokens)) \X SUBSET (1..Len(tokens)) :
                     /\ r[2] \subseteq (r[1] + 1)..Len(tokens)
                     /\ Takes(r[1], r[2]) /\ AtTheEnd(r[2])}
  IN  /\ state = "returned" /\ ~Early =>
           \E r \in Readings : command = Denotes(r[1], r[2])
      /\ state = "rejected" =>
           /\ command = NoCommand
           /\ Len(tokens) > MaxTokens \/ Readings = {}
=============================================================================
