---------------------------- MODULE ShellParser ----------------------------
(***************************************************************************)
(* shell/parser.c: from the characters of a line to the list of commands.  *)
(* readline and tokenize fill buffers that grow; commandize goes once over *)
(* the tokens and fills command blocks, whose argument lists grow as well. *)
(* A pointer to a token is its number in the line.  Cutting the characters *)
(* into tokens is strtok's and left to it.  What Shell has under the same  *)
(* name is named Parser here.                                              *)
(***************************************************************************)
EXTENDS Integers, Sequences, FiniteSets

CONSTANTS NUM_CHARS, TOKEN_BUF_SIZE, ARGS_BUF_SIZE,
          TypedLines,   (* the lines that may be typed, as tokens          *)
          MaxChars,     (* the model's bound on the characters of a line   *)
          NULL

ASSUME SizesAssumption ==
  /\ NUM_CHARS \in Nat \ {0} /\ TOKEN_BUF_SIZE \in Nat \ {0}
  /\ ARGS_BUF_SIZE \in Nat /\ ARGS_BUF_SIZE >= 2

ASSUME TypedLinesAssumption ==
  TypedLines \subseteq Seq(STRING) /\ NULL \notin Nat

VARIABLES phase,        (* which function is at work                       *)
          pos, size,    (* index and size of the buffer being filled; pos  *)
                        (* is commandize's i                               *)
          line,         (* the tokens of the line                          *)
          tokens, num,  (* the array of pointers, and commandize's num     *)
          blocks,       (* the list of command blocks                      *)
          bg_flag

parser_vars == <<phase, pos, size, line, tokens, num, blocks, bg_flag>>

Grown(bytes, n, by) == IF n >= bytes THEN bytes + by ELSE bytes

-----------------------------------------------------------------------------
ParserInit == /\ phase = "read" /\ pos = 0 /\ size = NUM_CHARS
              /\ line = <<>> /\ tokens = <<>> /\ num = 0
              /\ blocks = <<>> /\ bg_flag = FALSE

(* readline: a character is stored at pos.                                 *)
ReadChar == /\ phase = "read" /\ pos < MaxChars
            /\ pos' = pos + 1
            /\ size' = Grown(size, pos + 1, NUM_CHARS)
            /\ UNCHANGED <<phase, line, tokens, num, blocks, bg_flag>>

(* A backspace is not stored.                                              *)
Backspace == phase = "read" /\ UNCHANGED parser_vars

(* The end of the line is stored at pos.  Tokens take a character each and *)
(* one between two.                                                        *)
EndOfLine == /\ phase = "read" /\ phase' = "tokenize"
             /\ line' \in {l \in TypedLines : 2 * Len(l) - 1 <= pos}
             /\ pos' = 0 /\ size' = TOKEN_BUF_SIZE
             /\ UNCHANGED <<tokens, num, blocks, bg_flag>>

(* tokenize: strtok's next token is stored at pos.                         *)
tokenize == /\ phase = "tokenize" /\ pos < Len(line)
            /\ tokens' = Append(tokens, pos + 1)
            /\ pos' = pos + 1
            /\ size' = Grown(size, pos + 1, TOKEN_BUF_SIZE)
            /\ UNCHANGED <<phase, line, num, blocks, bg_flag>>

EndTokens == /\ phase = "tokenize" /\ pos = Len(line)
             /\ tokens' = Append(tokens, NULL)
             /\ num' = pos /\ phase' = "start"
             /\ UNCHANGED <<pos, size, line, blocks, bg_flag>>

-----------------------------------------------------------------------------
command_block_init == [args |-> <<>>, args_buf_size |-> ARGS_BUF_SIZE,
                       flag |-> {}, in_file |-> NULL, out_file |-> NULL]

(* A slip: the space for the NULL is forgotten.                            *)
Bug_push_arg(b, t) ==
  [b EXCEPT !.args = Append(@, t),
            !.args_buf_size = Grown(@, Len(b.args) + 1, ARGS_BUF_SIZE)]

(* The token and a NULL behind it are stored, then the list grows.         *)
push_arg(b, t) ==
  [b EXCEPT !.args = Append(@, t),
            !.args_buf_size = Grown(@, Len(b.args) + 2, ARGS_BUF_SIZE)]

(* commandize: nothing was typed.                                          *)
EmptyLine == /\ phase = "start" /\ num = 0
             /\ phase' = "done"
             /\ UNCHANGED <<pos, size, line, tokens, num, blocks, bg_flag>>

IsAmper(k) == line[tokens[k]] = "&"

Start == /\ phase = "start" /\ num > 0
         /\ phase' = "commandize" /\ pos' = 0
         /\ bg_flag' = IsAmper(num)
         /\ tokens' = IF IsAmper(num) THEN [tokens EXCEPT ![num] = NULL]
                                      ELSE tokens
         /\ num' = IF IsAmper(num) THEN num - 1 ELSE num
         /\ blocks' = <<command_block_init>>
         /\ UNCHANGED <<size, line>>

(* c_block, the block being filled; it is the end of the list.             *)
LastBlock == Len(blocks)
Token == line[tokens[pos + 1]]

InSymbols == {"<", "<<"}
Symbols == InSymbols \cup {">", ">>"}
Flag(symbol) == IF symbol \in InSymbols THEN "IN_REDIRECTED"
                ELSE IF symbol = ">" THEN "OUT_REDIRECTED"
                ELSE "OUT_REDIRECTED_APPEND"

AtToken == phase = "commandize" /\ pos < num

(* A slip: the name of the file is taken for an argument as well.          *)
BugRedirect ==
  /\ AtToken /\ Token \in Symbols
  /\ blocks' = [blocks EXCEPT
       ![LastBlock].flag = @ \cup {Flag(Token)},
       ![LastBlock].in_file =
         IF Token \in InSymbols THEN tokens[pos + 2] ELSE @,
       ![LastBlock].out_file =
         IF Token \in InSymbols THEN @ ELSE tokens[pos + 2]]
  /\ tokens' = [tokens EXCEPT ![pos + 1] = NULL]
  /\ pos' = pos + 1
  /\ UNCHANGED <<phase, size, line, num, bg_flag>>

(* The next token, or the NULL behind the last, names the file.            *)
Redirect ==
  /\ AtToken /\ Token \in Symbols
  /\ blocks' = [blocks EXCEPT
       ![LastBlock].flag = @ \cup {Flag(Token)},
       ![LastBlock].in_file =
         IF Token \in InSymbols THEN tokens[pos + 2] ELSE @,
       ![LastBlock].out_file =
         IF Token \in InSymbols THEN @ ELSE tokens[pos + 2]]
  /\ tokens' = [tokens EXCEPT ![pos + 1] = NULL]
  /\ pos' = pos + 2
  /\ UNCHANGED <<phase, size, line, num, bg_flag>>

Pipe == /\ AtToken /\ Token = "|"
        /\ blocks' = Append(
             [blocks EXCEPT ![LastBlock].flag = @ \cup {"PIPIED"}],
             command_block_init)
        /\ tokens' = [tokens EXCEPT ![pos + 1] = NULL]
        /\ pos' = pos + 1
        /\ UNCHANGED <<phase, size, line, num, bg_flag>>

Argument == /\ AtToken /\ Token \notin Symbols \cup {"|"}
            /\ blocks' = [blocks EXCEPT
                 ![LastBlock] = push_arg(@, tokens[pos + 1])]
            /\ pos' = pos + 1
            /\ UNCHANGED <<phase, size, line, tokens, num, bg_flag>>

EndCommands == /\ phase = "commandize" /\ pos >= num
               /\ phase' = "done"
               /\ UNCHANGED <<pos, size, line, tokens, num, blocks, bg_flag>>

-----------------------------------------------------------------------------
(* A malloc or realloc fails: the program exits.                           *)
NoMemory == /\ phase \in {"read", "tokenize", "start", "commandize"}
            /\ phase' = "exit"
            /\ UNCHANGED <<pos, size, line, tokens, num, blocks, bg_flag>>

(* main comes back for another line.                                       *)
NextLine == /\ phase = "done" /\ phase' = "read"
            /\ pos' = 0 /\ size' = NUM_CHARS
            /\ line' = <<>> /\ tokens' = <<>> /\ num' = 0
            /\ blocks' = <<>> /\ bg_flag' = FALSE

Exited == phase = "exit" /\ UNCHANGED parser_vars

ParserNext == \/ ReadChar \/ Backspace \/ EndOfLine
              \/ tokenize \/ EndTokens
              \/ EmptyLine \/ Start
              \/ Redirect \/ Pipe \/ Argument \/ EndCommands
              \/ NoMemory \/ NextLine \/ Exited

ParserSpec == ParserInit /\ [][ParserNext]_parser_vars

-----------------------------------------------------------------------------
Blocks == [args : Seq(Nat), args_buf_size : Nat,
           flag : SUBSET ({Flag(s) : s \in Symbols} \cup {"PIPIED"}),
           in_file : Nat \cup {NULL}, out_file : Nat \cup {NULL}]

ParserTypeOK ==
  /\ phase \in {"read", "tokenize", "start", "commandize", "done", "exit"}
  /\ pos \in Nat /\ size \in Nat /\ num \in Nat
  /\ line \in Seq(STRING)
  /\ tokens \in Seq(Nat \cup {NULL})
  /\ blocks \in Seq(Blocks)
  /\ bg_flag \in BOOLEAN

(* No store is outside its buffer, the end of line and the final NULLs     *)
(* included, for whatever sizes the buffers grow by; and commandize never  *)
(* compares a token that is NULL nor reads behind the array, though it     *)
(* steps by two and overwrites tokens as it goes.                          *)
InBounds ==
  /\ phase \in {"read", "tokenize"} => pos < size
  /\ \A k \in DOMAIN blocks :
       Len(blocks[k].args) + 1 < blocks[k].args_buf_size
  /\ phase = "commandize" =>
       /\ blocks # <<>> /\ num < Len(tokens)
       /\ \A k \in pos + 1 .. num : tokens[k] \in DOMAIN line

-----------------------------------------------------------------------------
(* What a line means, by positions: the words between two pipes that are   *)
(* neither symbols nor the names of files are a command's arguments, the   *)
(* last name after a symbol its file.                                      *)
Body(l) == IF l # <<>> /\ l[Len(l)] = "&" THEN 1 .. Len(l) - 1
                                          ELSE 1 .. Len(l)
PipesBefore(l, k) == Cardinality({j \in Body(l) : j < k /\ l[j] = "|"})
StageNumbers(l) == 0 .. PipesBefore(l, Len(l) + 1)
Stage(l, n) == {k \in Body(l) : l[k] # "|" /\ PipesBefore(l, k) = n}
NamesFile(l, k, symbols) == k - 1 \in Body(l) /\ l[k - 1] \in symbols
Arguments(l, n) == {k \in Stage(l, n) : /\ l[k] \notin Symbols
                                        /\ ~ NamesFile(l, k, Symbols)}
File(l, n, symbols) ==
  LET files == {k \in Stage(l, n) : NamesFile(l, k, symbols)}
  IN  IF files = {} THEN NULL
      ELSE CHOOSE k \in files : \A j \in files : j <= k
Flags(l, n) == {Flag(l[k]) : k \in {k \in Stage(l, n) : l[k] \in Symbols}}
               \cup (IF n + 1 \in StageNumbers(l) THEN {"PIPIED"} ELSE {})

(* Every symbol is followed by a name and every stage has a command.       *)
WellFormed(l) ==
  /\ \A k \in Body(l) : l[k] \in Symbols =>
       k + 1 \in Body(l) /\ l[k + 1] \notin Symbols \cup {"|"}
  /\ \A n \in StageNumbers(l) : Arguments(l, n) # {}

Means(b, l, n) ==
  /\ \A j, k \in DOMAIN b.args : j < k => b.args[j] < b.args[k]
  /\ {b.args[k] : k \in DOMAIN b.args} = Arguments(l, n)
  /\ b.in_file = File(l, n, InSymbols)
  /\ b.out_file = File(l, n, Symbols \ InSymbols)
  /\ b.flag = Flags(l, n)

(* "grouping tokens which form a command and linking (piped) commands      *)
(* together" (README): one pass over the tokens gives every well-formed    *)
(* line the meaning above, its background flag included, and nothing is    *)
(* made of an empty line.                                                  *)
ParsedAsMeant ==
  phase = "done" =>
    /\ (blocks = <<>>) <=> (line = <<>>)
    /\ WellFormed(line) =>
         /\ Len(blocks) = Cardinality(StageNumbers(line))
         /\ \A k \in DOMAIN blocks : Means(blocks[k], line, k - 1)
         /\ bg_flag <=> Body(line) # 1 .. Len(line)
=============================================================================
