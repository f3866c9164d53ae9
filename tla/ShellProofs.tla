---------------------------- MODULE ShellProofs ----------------------------
(***************************************************************************)
(* The shell.  Of parser.c: no store leaves its buffer, for lines of any   *)
(* length and whatever the buffers grow by, commandize reads only tokens   *)
(* that are there, and its blocks mean what the line says.  Of main.c and  *)
(* executor.c: pipelines of any number of stages are wired as their lines  *)
(* say, and the prompt waits.                                              *)
(***************************************************************************)
EXTENDS Shell, ShellParser, DataLemmas, TLAPS

(* While tokenize works it has stored the tokens before pos; commandize    *)
(* starts with all of them and a NULL.                                     *)
Filled ==
  /\ phase = "read" => tokens = <<>> /\ blocks = <<>>
  /\ phase = "tokenize" =>
       /\ pos <= Len(line) /\ Len(tokens) = pos /\ blocks = <<>>
       /\ \A k \in DOMAIN tokens : tokens[k] \in DOMAIN line
  /\ phase = "start" =>
       /\ Len(tokens) = num + 1 /\ blocks = <<>>
       /\ \A k \in 1 .. num : tokens[k] \in DOMAIN line

ParserInv == ParserTypeOK /\ InBounds /\ Filled

-----------------------------------------------------------------------------
(* A buffer that had room before it is grown has room for one more after.  *)
LEMMA GrownRoom ==
  ASSUME NEW bytes \in Nat, NEW n \in Nat, NEW by \in Nat \ {0}, n <= bytes
  PROVE  Grown(bytes, n, by) \in Nat /\ n < Grown(bytes, n, by)
  BY DEF Grown

(* A new command block has its types and room (command_block_init).        *)
LEMMA NewBlock ==
  /\ command_block_init \in Blocks
  /\ Len(command_block_init.args) + 1 < command_block_init.args_buf_size
  BY SizesAssumption DEF command_block_init, Blocks

(* push_arg keeps both.                                                    *)
LEMMA PushedArg ==
  ASSUME NEW b \in Blocks, NEW t \in Nat,
         Len(b.args) + 1 < b.args_buf_size
  PROVE  /\ push_arg(b, t) \in Blocks
         /\ Len(push_arg(b, t).args) + 1 < push_arg(b, t).args_buf_size
  <1> DEFINE args == Append(b.args, t)
             size1 == Grown(b.args_buf_size, Len(b.args) + 2, ARGS_BUF_SIZE)
  <1>1. /\ b.args \in Seq(Nat) /\ b.args_buf_size \in Nat
        /\ b.flag \in SUBSET ({Flag(s) : s \in Symbols} \cup {"PIPIED"})
        /\ b.in_file \in Nat \cup {NULL} /\ b.out_file \in Nat \cup {NULL}
    BY DEF Blocks
  <1>2. args \in Seq(Nat) /\ Len(args) = Len(b.args) + 1
    BY <1>1
  <1>3. size1 \in Nat /\ Len(b.args) + 2 < size1
    <2>1. Len(b.args) + 2 \in Nat /\ Len(b.args) + 2 <= b.args_buf_size
      BY <1>1
    <2> QED
      BY <1>1, <2>1, SizesAssumption DEF Grown
  <1>4. push_arg(b, t) = [b EXCEPT !.args = args, !.args_buf_size = size1]
    BY DEF push_arg
  <1> HIDE DEF args, size1
  <1>5. push_arg(b, t) \in Blocks
    BY <1>2, <1>3, <1>4 DEF Blocks
  <1>6. push_arg(b, t).args = args /\ push_arg(b, t).args_buf_size = size1
    BY <1>4 DEF Blocks
  <1> QED
    BY <1>1, <1>2, <1>3, <1>5, <1>6

(* Before the first character is read.                                     *)
LEMMA ParserInitially == ParserInit => ParserInv
  <1> SUFFICES ASSUME ParserInit PROVE ParserInv
    OBVIOUS
  <1> USE DEF ParserInit
  <1>1. ParserTypeOK
    <2>1. /\ <<>> \in Seq(STRING) /\ <<>> \in Seq(Nat \cup {NULL})
          /\ <<>> \in Seq(Blocks)
      OBVIOUS
    <2>2. pos \in Nat /\ size \in Nat /\ num \in Nat
      BY SizesAssumption
    <2> QED
      BY <2>1, <2>2 DEF ParserTypeOK
  <1>2. InBounds
    BY SizesAssumption DEF InBounds
  <1>3. Filled
    BY DEF Filled
  <1> QED
    BY <1>1, <1>2, <1>3 DEF ParserInv

-----------------------------------------------------------------------------
(* readline stores a character, or the end of the line.                    *)
LEMMA ReadKeeps ==
  ASSUME ParserInv, ReadChar \/ EndOfLine
  PROVE  ParserInv'
  <1> USE DEF ParserInv
  <1>1. CASE ReadChar
    <2>1. pos' = pos + 1 /\ pos \in Nat /\ size \in Nat /\ pos < size
      BY <1>1 DEF ReadChar, ParserTypeOK, InBounds
    <2>2. size' \in Nat /\ pos' < size'
      BY <1>1, <2>1, GrownRoom, SizesAssumption DEF ReadChar
    <2>3. /\ phase = "read" /\ phase' = phase /\ line' = line
          /\ tokens' = tokens /\ num' = num /\ blocks' = blocks
          /\ bg_flag' = bg_flag
      BY <1>1 DEF ReadChar
    <2>4. ParserTypeOK'
      BY <2>1, <2>2, <2>3 DEF ParserTypeOK
    <2> QED
      BY <2>2, <2>3, <2>4 DEF InBounds, Filled
  <1>2. CASE EndOfLine
    <2>1. /\ phase' = "tokenize" /\ pos' = 0 /\ size' = TOKEN_BUF_SIZE
          /\ tokens' = <<>> /\ blocks' = <<>> /\ num' = num
          /\ bg_flag' = bg_flag
      BY <1>2 DEF EndOfLine, Filled
    <2>2. line' \in Seq(STRING)
      BY <1>2, TypedLinesAssumption DEF EndOfLine
    <2>3. ParserTypeOK'
      BY <2>1, <2>2, SizesAssumption DEF ParserTypeOK
    <2>4. InBounds'
      BY <2>1, SizesAssumption DEF InBounds
    <2>5. Filled'
      BY <2>1, <2>2 DEF Filled
    <2> QED
      BY <2>3, <2>4, <2>5
  <1> QED
    BY <1>1, <1>2

(* tokenize stores a token, or the final NULL.                             *)
LEMMA TokenizeKeeps ==
  ASSUME ParserInv, tokenize \/ EndTokens
  PROVE  ParserInv'
  <1> USE DEF ParserInv
  <1>0. /\ phase = "tokenize" /\ pos \in Nat /\ size \in Nat /\ pos < size
        /\ tokens \in Seq(Nat \cup {NULL}) /\ line \in Seq(STRING)
        /\ pos <= Len(line) /\ Len(tokens) = pos /\ blocks = <<>>
        /\ \A k \in DOMAIN tokens : tokens[k] \in DOMAIN line
    BY DEF tokenize, EndTokens, ParserTypeOK, InBounds, Filled
  <1>1. CASE tokenize
    <2>1. /\ tokens' = Append(tokens, pos + 1) /\ pos' = pos + 1
          /\ pos < Len(line)
          /\ phase' = phase /\ line' = line /\ num' = num
          /\ blocks' = blocks /\ bg_flag' = bg_flag
      BY <1>1 DEF tokenize
    <2>2. size' \in Nat /\ pos' < size'
      <3>1. /\ size' = Grown(size, pos + 1, TOKEN_BUF_SIZE)
            /\ pos' = pos + 1 /\ pos + 1 \in Nat /\ pos + 1 <= size
        BY <1>0, <1>1 DEF tokenize
      <3> QED
        BY <1>0, <3>1, GrownRoom, SizesAssumption
    <2>3. tokens' \in Seq(Nat \cup {NULL}) /\ Len(tokens') = pos'
      BY <1>0, <2>1
    <2>4. \A k \in DOMAIN tokens' : tokens'[k] \in DOMAIN line'
      BY <1>0, <2>1
    <2>5. ParserTypeOK'
      BY <1>0, <2>1, <2>2, <2>3 DEF ParserTypeOK
    <2>6. InBounds'
      BY <1>0, <2>1, <2>2 DEF InBounds
    <2>7. Filled'
      BY <1>0, <2>1, <2>3, <2>4 DEF Filled
    <2> QED
      BY <2>5, <2>6, <2>7
  <1>2. CASE EndTokens
    <2>1. /\ tokens' = Append(tokens, NULL) /\ num' = pos
          /\ phase' = "start" /\ pos' = pos /\ size' = size /\ line' = line
          /\ blocks' = blocks /\ bg_flag' = bg_flag
      BY <1>2 DEF EndTokens
    <2>2. tokens' \in Seq(Nat \cup {NULL}) /\ Len(tokens') = num' + 1
      BY <1>0, <2>1
    <2>3. \A k \in 1 .. num' : tokens'[k] \in DOMAIN line'
      BY <1>0, <2>1
    <2>4. ParserTypeOK'
      BY <1>0, <2>1, <2>2 DEF ParserTypeOK
    <2>5. InBounds'
      BY <1>0, <2>1 DEF InBounds
    <2>6. Filled'
      BY <1>0, <2>1, <2>2, <2>3 DEF Filled
    <2> QED
      BY <2>4, <2>5, <2>6
  <1> QED
    BY <1>1, <1>2

-----------------------------------------------------------------------------
(* commandize takes off the ampersand and makes the first block.           *)
LEMMA StartKeeps ==
  ASSUME ParserInv, Start
  PROVE  ParserInv'
  <1> USE DEF ParserInv
  <1>0. /\ phase = "start" /\ num \in Nat /\ num > 0
        /\ tokens \in Seq(Nat \cup {NULL}) /\ Len(tokens) = num + 1
        /\ \A k \in 1 .. num : tokens[k] \in DOMAIN line
    BY DEF Start, ParserTypeOK, Filled
  <1>1. /\ phase' = "commandize" /\ pos' = 0 /\ size' = size /\ line' = line
        /\ blocks' = <<command_block_init>>
        /\ bg_flag' \in BOOLEAN
    BY DEF Start, IsAmper
  <1>2. /\ tokens' \in Seq(Nat \cup {NULL}) /\ Len(tokens') = Len(tokens)
        /\ num' \in Nat /\ num' <= num
        /\ \A k \in 1 .. num' : tokens'[k] = tokens[k]
    <2>1. CASE IsAmper(num)
      BY <1>0, <2>1 DEF Start
    <2>2. CASE ~ IsAmper(num)
      BY <1>0, <2>2 DEF Start
    <2> QED
      BY <2>1, <2>2
  <1>3. blocks' \in Seq(Blocks) /\ Len(blocks') = 1
    BY <1>1, NewBlock
  <1>4. ParserTypeOK'
    BY <1>1, <1>2, <1>3 DEF ParserTypeOK
  <1>5. InBounds'
    <2>1. \A k \in DOMAIN blocks' :
            Len(blocks'[k].args) + 1 < blocks'[k].args_buf_size
      BY <1>1, NewBlock
    <2>2. blocks' # <<>> /\ num' < Len(tokens')
      <3>1. num' < Len(tokens')
        BY <1>0, <1>2
      <3>2. blocks' # <<>>
        BY <1>1
      <3> QED
        BY <3>1, <3>2
    <2>3. \A k \in pos' + 1 .. num' : tokens'[k] \in DOMAIN line'
      BY <1>0, <1>1, <1>2
    <2> QED
      BY <1>1, <2>1, <2>2, <2>3 DEF InBounds
  <1>6. Filled'
    BY <1>1 DEF Filled
  <1> QED
    BY <1>4, <1>5, <1>6

(* What is known when commandize looks at a token.                         *)
LEMMA TokenThere ==
  ASSUME ParserInv, AtToken
  PROVE  /\ phase = "commandize" /\ pos \in Nat /\ num \in Nat /\ pos < num
         /\ num < Len(tokens) /\ tokens \in Seq(Nat \cup {NULL})
         /\ line \in Seq(STRING) /\ pos + 1 \in DOMAIN tokens
         /\ pos + 2 \in DOMAIN tokens
         /\ tokens[pos + 1] \in Nat /\ tokens[pos + 2] \in Nat \cup {NULL}
         /\ blocks \in Seq(Blocks) /\ LastBlock \in DOMAIN blocks
         /\ \A k \in DOMAIN blocks :
              Len(blocks[k].args) + 1 < blocks[k].args_buf_size
         /\ \A k \in pos + 1 .. num : tokens[k] \in DOMAIN line
  <1>1. /\ phase = "commandize" /\ pos \in Nat /\ num \in Nat /\ pos < num
        /\ num < Len(tokens) /\ tokens \in Seq(Nat \cup {NULL})
        /\ line \in Seq(STRING) /\ blocks \in Seq(Blocks) /\ blocks # <<>>
        /\ \A k \in DOMAIN blocks :
             Len(blocks[k].args) + 1 < blocks[k].args_buf_size
        /\ \A k \in pos + 1 .. num : tokens[k] \in DOMAIN line
    BY DEF ParserInv, ParserTypeOK, InBounds, AtToken
  <1>2. pos + 1 \in DOMAIN tokens /\ pos + 2 \in DOMAIN tokens
    BY <1>1
  <1>3. tokens[pos + 1] \in Nat /\ tokens[pos + 2] \in Nat \cup {NULL}
    BY <1>1, <1>2
  <1>4. LastBlock \in DOMAIN blocks
    BY <1>1 DEF LastBlock
  <1> QED
    BY <1>1, <1>2, <1>3, <1>4

(* The token at pos overwritten leaves the array as long as it is, and the *)
(* tokens behind it alone.                                                 *)
Overwrite == [tokens EXCEPT ![pos + 1] = NULL]

LEMMA Overwritten ==
  ASSUME ParserInv, AtToken
  PROVE  /\ Overwrite \in Seq(Nat \cup {NULL})
         /\ Len(Overwrite) = Len(tokens)
         /\ \A q \in Nat : q > pos =>
              \A k \in q + 1 .. num : Overwrite[k] = tokens[k]
  <1>0. /\ pos \in Nat /\ num \in Nat
        /\ num < Len(tokens) /\ tokens \in Seq(Nat \cup {NULL})
        /\ pos + 1 \in DOMAIN tokens
    BY TokenThere
  <1>1. Overwrite \in Seq(Nat \cup {NULL}) /\ Len(Overwrite) = Len(tokens)
    BY ONLY <1>0 DEF Overwrite
  <1>2. ASSUME NEW q \in Nat, q > pos, NEW k \in q + 1 .. num
        PROVE  Overwrite[k] = tokens[k]
    <2>1. k \in Int /\ k > pos + 1 /\ k <= num
      BY ONLY <1>0, <1>2, k \in q + 1 .. num
    <2>2. k \in DOMAIN tokens /\ k # pos + 1
      BY ONLY <1>0, <2>1
    <2> QED
      BY ONLY <2>2 DEF Overwrite
  <1> QED
    BY ONLY <1>1, <1>2

(* A step of commandize: the tokens from the new pos on are those there    *)
(* were, and the blocks have their types and room.                         *)
LEMMA CommandizeKeeps ==
  ASSUME ParserInv, AtToken,
         phase' = phase, size' = size, line' = line, num' = num,
         bg_flag' = bg_flag,
         pos' \in Nat, pos' > pos,
         tokens' = tokens \/ tokens' = Overwrite,
         blocks' \in Seq(Blocks), blocks' # <<>>,
         \A k \in DOMAIN blocks' :
           Len(blocks'[k].args) + 1 < blocks'[k].args_buf_size
  PROVE  ParserInv'
  <1>0. /\ phase = "commandize" /\ pos \in Nat /\ num \in Nat
        /\ num < Len(tokens) /\ tokens \in Seq(Nat \cup {NULL})
        /\ pos + 1 \in DOMAIN tokens
        /\ \A k \in pos + 1 .. num : tokens[k] \in DOMAIN line
    BY TokenThere
  <1>1. /\ tokens' \in Seq(Nat \cup {NULL}) /\ Len(tokens') = Len(tokens)
        /\ \A k \in pos' + 1 .. num : tokens'[k] = tokens[k]
    <2>1. CASE tokens' = tokens
      BY <1>0, <2>1
    <2>2. CASE tokens' = Overwrite
      <3>1. /\ Overwrite \in Seq(Nat \cup {NULL})
            /\ Len(Overwrite) = Len(tokens)
            /\ \A k \in pos' + 1 .. num : Overwrite[k] = tokens[k]
        BY ONLY Overwritten, ParserInv, AtToken, pos' \in Nat, pos' > pos
      <3> QED
        BY ONLY <2>2, <3>1
    <2> QED
      BY <2>1, <2>2
  <1>2. ParserTypeOK'
    BY <1>0, <1>1 DEF ParserInv, ParserTypeOK
  <1>3. InBounds'
    <2>1. \A k \in pos' + 1 .. num' : tokens'[k] \in DOMAIN line'
      BY <1>0, <1>1
    <2> QED
      BY <1>0, <1>1, <2>1 DEF InBounds
  <1>4. Filled'
    BY <1>0 DEF Filled
  <1> QED
    BY <1>2, <1>3, <1>4 DEF ParserInv

(* commandize at a symbol: the block gets a flag and a file.               *)
LEMMA RedirectKeeps ==
  ASSUME ParserInv, Redirect
  PROVE  ParserInv'
  <1>0. AtToken /\ Token \in Symbols
    BY DEF Redirect
  <1> DEFINE b == blocks[LastBlock]
             file == tokens[pos + 2]
             flag == b.flag \cup {Flag(Token)}
             in == IF Token \in InSymbols THEN file ELSE b.in_file
             out == IF Token \in InSymbols THEN b.out_file ELSE file
             c == [b EXCEPT !.flag = flag, !.in_file = in, !.out_file = out]
  <1>1. /\ blocks \in Seq(Blocks) /\ LastBlock \in DOMAIN blocks /\ pos \in Nat
        /\ file \in Nat \cup {NULL} /\ b \in Blocks
        /\ \A k \in DOMAIN blocks :
             Len(blocks[k].args) + 1 < blocks[k].args_buf_size
    BY <1>0, TokenThere
  <1>2. c \in Blocks /\ Len(c.args) + 1 < c.args_buf_size
    <2>1. /\ flag \in SUBSET ({Flag(s) : s \in Symbols} \cup {"PIPIED"})
          /\ in \in Nat \cup {NULL} /\ out \in Nat \cup {NULL}
      BY <1>0, <1>1 DEF Blocks
    <2> HIDE DEF flag, in, out
    <2>2. c \in Blocks
      BY <1>1, <2>1 DEF Blocks
    <2>3. c.args = b.args /\ c.args_buf_size = b.args_buf_size
      BY <1>1 DEF Blocks
    <2> QED
      BY <1>1, <2>2, <2>3
  <1>3. blocks' = [blocks EXCEPT ![LastBlock] = c]
    BY DEF Redirect
  <1> HIDE DEF c, b, file, in, out, flag
  <1>4. /\ blocks' \in Seq(Blocks) /\ blocks' # <<>>
        /\ \A k \in DOMAIN blocks' :
             Len(blocks'[k].args) + 1 < blocks'[k].args_buf_size
    BY <1>1, <1>2, <1>3
  <1> QED
    BY <1>0, <1>1, <1>4, CommandizeKeeps DEF Redirect, Overwrite

(* commandize at a pipe: the block gets a flag and a successor.            *)
LEMMA PipeKeeps ==
  ASSUME ParserInv, Pipe
  PROVE  ParserInv'
  <1>0. AtToken
    BY DEF Pipe
  <1> DEFINE b == blocks[LastBlock]
             c == [b EXCEPT !.flag = @ \cup {"PIPIED"}]
             bs == [blocks EXCEPT ![LastBlock] = c]
  <1>1. /\ blocks \in Seq(Blocks) /\ LastBlock \in DOMAIN blocks /\ pos \in Nat
        /\ b \in Blocks
        /\ \A k \in DOMAIN blocks :
             Len(blocks[k].args) + 1 < blocks[k].args_buf_size
    BY <1>0, TokenThere
  <1>2. c \in Blocks /\ Len(c.args) + 1 < c.args_buf_size
    BY <1>1 DEF Blocks
  <1>3. blocks' = Append(bs, command_block_init)
    BY DEF Pipe
  <1> HIDE DEF c, b
  <1>4. /\ bs \in Seq(Blocks)
        /\ \A k \in DOMAIN bs : Len(bs[k].args) + 1 < bs[k].args_buf_size
    BY <1>1, <1>2
  <1> HIDE DEF bs
  <1>5. /\ blocks' \in Seq(Blocks) /\ blocks' # <<>>
        /\ \A k \in DOMAIN blocks' :
             Len(blocks'[k].args) + 1 < blocks'[k].args_buf_size
    BY <1>3, <1>4, NewBlock
  <1> QED
    BY <1>0, <1>1, <1>5, CommandizeKeeps DEF Pipe, Overwrite

(* commandize at an argument.                                              *)
LEMMA ArgumentKeeps ==
  ASSUME ParserInv, Argument
  PROVE  ParserInv'
  <1>0. AtToken
    BY DEF Argument
  <1> DEFINE b == blocks[LastBlock]
             c == push_arg(b, tokens[pos + 1])
  <1>1. /\ blocks \in Seq(Blocks) /\ LastBlock \in DOMAIN blocks /\ pos \in Nat
        /\ b \in Blocks /\ tokens[pos + 1] \in Nat
        /\ \A k \in DOMAIN blocks :
             Len(blocks[k].args) + 1 < blocks[k].args_buf_size
    BY <1>0, TokenThere
  <1>2. c \in Blocks /\ Len(c.args) + 1 < c.args_buf_size
    BY <1>1, PushedArg
  <1>3. blocks' = [blocks EXCEPT ![LastBlock] = c]
    BY DEF Argument
  <1> HIDE DEF c, b
  <1>4. /\ blocks' \in Seq(Blocks) /\ blocks' # <<>>
        /\ \A k \in DOMAIN blocks' :
             Len(blocks'[k].args) + 1 < blocks'[k].args_buf_size
    BY <1>1, <1>2, <1>3
  <1> QED
    BY <1>0, <1>1, <1>4, CommandizeKeeps DEF Argument

-----------------------------------------------------------------------------
(* The ends of commandize, and main's next line.                           *)
LEMMA EndsKeep ==
  ASSUME ParserInv, EmptyLine \/ EndCommands \/ NoMemory \/ NextLine
  PROVE  ParserInv'
  <1> USE DEF ParserInv
  <1>1. CASE EmptyLine \/ EndCommands \/ NoMemory
    <2>1. /\ phase' \in {"done", "exit"}
          /\ UNCHANGED <<pos, size, line, tokens, num, blocks, bg_flag>>
      BY <1>1 DEF EmptyLine, EndCommands, NoMemory
    <2>2. ParserTypeOK'
      BY <2>1 DEF ParserTypeOK
    <2> QED
      BY <2>1, <2>2 DEF InBounds, Filled
  <1>2. CASE NextLine
    <2>1. /\ phase' = "read" /\ pos' = 0 /\ size' = NUM_CHARS /\ num' = 0
          /\ line' = <<>> /\ tokens' = <<>> /\ blocks' = <<>>
          /\ bg_flag' = FALSE
      BY <1>2 DEF NextLine
    <2>2. /\ <<>> \in Seq(STRING) /\ <<>> \in Seq(Nat \cup {NULL})
          /\ <<>> \in Seq(Blocks)
      OBVIOUS
    <2>3. ParserTypeOK'
      BY <2>1, <2>2, SizesAssumption DEF ParserTypeOK
    <2>4. InBounds'
      BY <2>1, SizesAssumption DEF InBounds
    <2>5. Filled'
      BY <2>1 DEF Filled
    <2> QED
      BY <2>3, <2>4, <2>5
  <1> QED
    BY <1>1, <1>2

(* Every step keeps the invariant.                                         *)
LEMMA ParserStep == ParserInv /\ [ParserNext]_parser_vars => ParserInv'
  <1> SUFFICES ASSUME ParserInv, [ParserNext]_parser_vars PROVE ParserInv'
    OBVIOUS
  <1>1. CASE UNCHANGED parser_vars
    BY <1>1 DEF ParserInv, ParserTypeOK, InBounds, Filled, parser_vars
  <1>2. CASE ParserNext
    BY <1>1, <1>2, ReadKeeps, TokenizeKeeps, StartKeeps, RedirectKeeps,
       PipeKeeps, ArgumentKeeps, EndsKeep DEF ParserNext, Backspace, Exited
  <1> QED
    BY <1>1, <1>2

(* The inductive invariant.                                                *)
THEOREM ParserInvariance == ParserSpec => []ParserInv
  BY ParserInitially, ParserStep, PTL DEF ParserSpec

(* Every variable keeps its type; blocks hold tokens of the line and NULLs *)
(* where the structure of a command has them.                              *)
THEOREM ParserTypeCorrect == ParserSpec => []ParserTypeOK
  BY ParserInvariance, PTL DEF ParserInv

(* Lines, tokens and arguments of any number stay in their buffers, and    *)
(* commandize reads no token that is NULL or behind the last.              *)
THEOREM StaysInBounds == ParserSpec => []InBounds
  BY ParserInvariance, PTL DEF ParserInv

-----------------------------------------------------------------------------
(* What commandize has made of a well-formed line so far.  Behind the last *)
(* word that is parsed there may be an ampersand, which is not.            *)
Words(l) == IF l # <<>> /\ l[Len(l)] = "&" THEN Len(l) - 1 ELSE Len(l)

UpTo(S, i) == {k \in S : k <= i}

Files(l, n, symbols) == {k \in Stage(l, n) : NamesFile(l, k, symbols)}
LastOf(files) == IF files = {} THEN NULL
                 ELSE CHOOSE k \in files : \A j \in files : j <= k

FlagsOf(l, S) == {Flag(l[k]) : k \in {k \in S : l[k] \in Symbols}}

Ascending(s) == \A j, k \in DOMAIN s : j < k => s[j] < s[k]

(* A block that has the meaning of stage n as far as token i.              *)
MeansUpTo(b, l, n, i) ==
  /\ Ascending(b.args)
  /\ {b.args[k] : k \in DOMAIN b.args} = UpTo(Arguments(l, n), i)
  /\ b.in_file = LastOf(UpTo(Files(l, n, InSymbols), i))
  /\ b.out_file = LastOf(UpTo(Files(l, n, Symbols \ InSymbols), i))
  /\ b.flag = FlagsOf(l, UpTo(Stage(l, n), i))

(* All blocks but the last mean their stages, the last one what there is   *)
(* of its own up to token i, which does not announce the name of a file.   *)
ParsedUpTo(bs, l, i) ==
  /\ i > 0 => l[i] \notin Symbols
  /\ Len(bs) = PipesBefore(l, i + 1) + 1
  /\ \A k \in 1 .. Len(bs) - 1 : Means(bs[k], l, k - 1)
  /\ MeansUpTo(bs[Len(bs)], l, Len(bs) - 1, i)

Understood ==
  /\ phase = "tokenize" => \A k \in DOMAIN tokens : tokens[k] = k
  /\ phase = "start" => num = Len(line) /\ \A k \in 1 .. num : tokens[k] = k
  /\ phase = "commandize" =>
       /\ line # <<>> /\ (bg_flag <=> line[Len(line)] = "&")
       /\ num = Words(line)
       /\ \A k \in pos + 1 .. num : tokens[k] = k
       /\ WellFormed(line) => pos <= num /\ ParsedUpTo(blocks, line, pos)
  /\ ParsedAsMeant
-----------------------------------------------------------------------------
(* The tokens that are parsed come first.                                  *)
LEMMA BodyIs ==
  ASSUME NEW l \in Seq(STRING)
  PROVE  /\ Words(l) \in Nat /\ Words(l) <= Len(l)
         /\ Body(l) = 1 .. Words(l)
         /\ l # <<>> => (Body(l) # 1 .. Len(l) <=> l[Len(l)] = "&")
  BY DEF Body, Words

(* Pipes are counted one by one from left to right.                        *)
LEMMA PipesCount ==
  ASSUME NEW l \in Seq(STRING)
  PROVE  /\ \A i \in Nat : PipesBefore(l, i) \in Nat
         /\ PipesBefore(l, 1) = 0
         /\ \A i, j \in Nat : i <= j => PipesBefore(l, i) <= PipesBefore(l, j)
         /\ \A i \in Body(l) : PipesBefore(l, i + 1) =
              PipesBefore(l, i) + (IF l[i] = "|" THEN 1 ELSE 0)
         /\ PipesBefore(l, Len(l) + 1) = PipesBefore(l, Words(l) + 1)
  <1> DEFINE P(i) == {j \in Body(l) : j < i /\ l[j] = "|"}
  <1>0. /\ Words(l) \in Nat /\ Words(l) <= Len(l)
        /\ Body(l) = 1 .. Words(l)
    BY BodyIs
  <1>1. \A i : P(i) \subseteq Body(l)
    OBVIOUS
  <1>2. IsFiniteSet(Body(l))
    BY <1>0, FS_Interval
  <1>3. \A i : IsFiniteSet(P(i)) /\ Cardinality(P(i)) \in Nat
    BY <1>1, <1>2, FS_Subset, FS_CardinalityType
  <1>4. P(1) = {}
    BY <1>0
  <1>5. \A i, j \in Nat : i <= j => P(i) \subseteq P(j)
    BY <1>0
  <1>6. \A i, j \in Nat : i <= j => Cardinality(P(i)) <= Cardinality(P(j))
    BY <1>3, <1>5, FS_Subset
  <1>7. ASSUME NEW i \in Body(l)
        PROVE  Cardinality(P(i + 1)) =
                 Cardinality(P(i)) + (IF l[i] = "|" THEN 1 ELSE 0)
    <2>1. CASE l[i] = "|"
      <3>1. P(i + 1) = P(i) \cup {i} /\ i \notin P(i)
        BY <1>0, <2>1
      <3> QED
        BY <1>3, <2>1, <3>1, FS_AddElement
    <2>2. CASE l[i] # "|"
      <3>1. P(i + 1) = P(i)
        BY <1>0, <2>2
      <3> HIDE DEF P
      <3>2. Cardinality(P(i + 1)) = Cardinality(P(i))
        BY <3>1
      <3>3. Cardinality(P(i)) \in Nat
        BY <1>3
      <3> QED
        BY <2>2, <3>2, <3>3
    <2> QED
      BY <2>1, <2>2
  <1>8. P(Len(l) + 1) = P(Words(l) + 1)
    BY <1>0
  <1>9. \A i : PipesBefore(l, i) = Cardinality(P(i))
    BY DEF PipesBefore
  <1>10. Cardinality({}) = 0
    BY FS_EmptySet
  <1> HIDE DEF P
  <1>11. PipesBefore(l, 1) = 0
    BY <1>4, <1>9, <1>10
  <1> QED
    BY <1>3, <1>6, <1>7, <1>8, <1>9, <1>11

(* Stages are made of tokens that are parsed.                              *)
LEMMA StageIn ==
  ASSUME NEW l \in Seq(STRING), NEW n
  PROVE  /\ Stage(l, n) \subseteq 1 .. Words(l)
         /\ Arguments(l, n) \subseteq Stage(l, n)
         /\ \A symbols : Files(l, n, symbols) \subseteq Stage(l, n)
         /\ \A k : k \in Stage(l, n) <=>
              k \in Body(l) /\ l[k] # "|" /\ PipesBefore(l, k) = n
  BY BodyIs DEF Stage, Arguments, Files

(* The last of a set of numbers is the greatest.                           *)
LEMMA LastIs ==
  ASSUME NEW S \in SUBSET Nat, NEW m \in S, \A j \in S : j <= m
  PROVE  LastOf(S) = m
  <1>1. \E k \in S : \A j \in S : j <= k
    OBVIOUS
  <1>2. LastOf(S) = CHOOSE k \in S : \A j \in S : j <= k
    BY DEF LastOf
  <1>3. LastOf(S) \in S /\ \A j \in S : j <= LastOf(S)
    BY <1>1, <1>2
  <1>4. LastOf(S) \in Nat /\ m \in Nat
    BY <1>3
  <1>5. LastOf(S) <= m /\ m <= LastOf(S)
    BY <1>3
  <1> QED
    BY ONLY <1>4, <1>5

(* A block that has the meaning of a whole stage, and the flag of a pipe   *)
(* if there is a stage behind it, means the stage.                         *)
LEMMA MeansWhole ==
  ASSUME NEW l \in Seq(STRING), NEW n \in Nat, NEW i \in Nat,
         NEW b, NEW c, MeansUpTo(b, l, n, i),
         UpTo(Stage(l, n), i) = Stage(l, n),
         c.args = b.args, c.in_file = b.in_file, c.out_file = b.out_file,
         c.flag = b.flag \cup
           (IF n + 1 \in StageNumbers(l) THEN {"PIPIED"} ELSE {})
  PROVE  Means(c, l, n)
  <1>1. \A S \in SUBSET Stage(l, n) : UpTo(S, i) = S
    BY DEF UpTo
  <1>2. /\ UpTo(Arguments(l, n), i) = Arguments(l, n)
        /\ UpTo(Files(l, n, InSymbols), i) = Files(l, n, InSymbols)
        /\ UpTo(Files(l, n, Symbols \ InSymbols), i) =
             Files(l, n, Symbols \ InSymbols)
    BY <1>1, StageIn
  <1>3. \A symbols : LastOf(Files(l, n, symbols)) = File(l, n, symbols)
    BY DEF LastOf, Files, File
  <1>4. c.flag = Flags(l, n)
    BY DEF MeansUpTo, FlagsOf, Flags
  <1> QED
    BY <1>2, <1>3, <1>4 DEF MeansUpTo, Means, Ascending
-----------------------------------------------------------------------------
(* A new block means nothing yet; so it does when the stages in front have *)
(* all the tokens.                                                         *)
LEMMA MeansNothing ==
  ASSUME NEW l \in Seq(STRING), NEW n \in Nat, NEW i \in Nat,
         UpTo(Stage(l, n), i) = {}
  PROVE  MeansUpTo(command_block_init, l, n, i)
  <1>1. \A S \in SUBSET Stage(l, n) : UpTo(S, i) = {}
    BY DEF UpTo
  <1>2. /\ UpTo(Arguments(l, n), i) = {}
        /\ UpTo(Files(l, n, InSymbols), i) = {}
        /\ UpTo(Files(l, n, Symbols \ InSymbols), i) = {}
    BY <1>1, StageIn
  <1>3. FlagsOf(l, {}) = {} /\ LastOf({}) = NULL
    BY DEF FlagsOf, LastOf
  <1>4. /\ command_block_init.args = <<>> /\ command_block_init.flag = {}
        /\ command_block_init.in_file = NULL
        /\ command_block_init.out_file = NULL
    BY DEF command_block_init
  <1>5. Ascending(<<>>) /\ {(<<>>)[k] : k \in DOMAIN <<>>} = {}
    BY DEF Ascending
  <1> QED
    BY <1>2, <1>3, <1>4, <1>5 DEF MeansUpTo

(* The first block of a line.                                              *)
LEMMA FirstParsed ==
  ASSUME NEW l \in Seq(STRING)
  PROVE  ParsedUpTo(<<command_block_init>>, l, 0)
  <1> DEFINE bs == <<command_block_init>>
  <1>1. Len(bs) = 1 /\ bs[1] = command_block_init
    OBVIOUS
  <1>2. Len(bs) = PipesBefore(l, 0 + 1) + 1
    BY PipesCount
  <1>3. UpTo(Stage(l, 0), 0) = {}
    BY StageIn, BodyIs DEF UpTo
  <1>4. MeansUpTo(bs[1], l, 0, 0)
    BY <1>1, <1>3, MeansNothing
  <1> HIDE DEF bs
  <1>5. \A k \in 1 .. Len(bs) - 1 : Means(bs[k], l, k - 1)
    BY <1>1
  <1>6. MeansUpTo(bs[Len(bs)], l, Len(bs) - 1, 0)
    BY <1>1, <1>4
  <1> QED
    BY <1>2, <1>5, <1>6 DEF ParsedUpTo, bs

(* The stage that is parsed has all of a token that is no pipe, the others *)
(* have nothing of it.                                                     *)
LEMMA TokenOfStage ==
  ASSUME NEW l \in Seq(STRING), NEW i \in Nat, i + 1 \in Body(l),
         l[i + 1] # "|", NEW n \in Nat, n = PipesBefore(l, i + 1)
  PROVE  /\ UpTo(Stage(l, n), i + 1) = UpTo(Stage(l, n), i) \cup {i + 1}
         /\ PipesBefore(l, i + 2) = n
  <1>1. i + 1 \in Stage(l, n)
    BY StageIn
  <1>2. \A k \in Stage(l, n) : k \in Nat
    BY StageIn, BodyIs
  <1>3. UpTo(Stage(l, n), i + 1) = UpTo(Stage(l, n), i) \cup {i + 1}
    BY <1>1, <1>2 DEF UpTo
  <1>4. PipesBefore(l, (i + 1) + 1) = PipesBefore(l, i + 1) + 0
    BY PipesCount
  <1> QED
    BY <1>3, <1>4

(* At a pipe the stage in front of it is complete, and there is one more.  *)
LEMMA PipeOfStage ==
  ASSUME NEW l \in Seq(STRING), NEW i \in Nat, i + 1 \in Body(l),
         l[i + 1] = "|", NEW n \in Nat, n = PipesBefore(l, i + 1)
  PROVE  /\ UpTo(Stage(l, n), i) = Stage(l, n)
         /\ UpTo(Stage(l, n + 1), i + 1) = {}
         /\ PipesBefore(l, i + 2) = n + 1
         /\ n + 1 \in StageNumbers(l)
  <1>0. i + 1 <= Len(l) /\ Len(l) \in Nat
    BY BodyIs
  <1>1. PipesBefore(l, (i + 1) + 1) = PipesBefore(l, i + 1) + 1
    BY PipesCount
  <1>2. PipesBefore(l, i + 2) = n + 1
    BY <1>1
  <1>3. n + 1 \in StageNumbers(l)
    <2>1. /\ PipesBefore(l, i + 2) <= PipesBefore(l, Len(l) + 1)
          /\ PipesBefore(l, Len(l) + 1) \in Nat
      BY <1>0, PipesCount
    <2> QED
      BY <1>2, <2>1 DEF StageNumbers
  <1>4. ASSUME NEW k \in Stage(l, n) PROVE k <= i
    <2>1. k \in Nat /\ k # i + 1 /\ PipesBefore(l, k) = n
      BY StageIn, BodyIs
    <2>2. k >= i + 2 => PipesBefore(l, i + 2) <= PipesBefore(l, k)
      BY <2>1, PipesCount
    <2> QED
      BY <1>2, <2>1, <2>2
  <1>5. ASSUME NEW k \in Stage(l, n + 1) PROVE ~ (k <= i + 1)
    <2>1. k \in Nat /\ k # i + 1 /\ PipesBefore(l, k) = n + 1
      BY StageIn, BodyIs
    <2>2. k <= i + 1 => PipesBefore(l, k) <= PipesBefore(l, i + 1)
      BY <2>1, PipesCount
    <2> QED
      BY <2>1, <2>2
  <1>6. UpTo(Stage(l, n), i) = Stage(l, n)
    BY <1>4 DEF UpTo
  <1>7. UpTo(Stage(l, n + 1), i + 1) = {}
    BY <1>5 DEF UpTo
  <1> QED
    BY <1>2, <1>3, <1>6, <1>7

(* Whether a token is an argument or the name of a file.                   *)
LEMMA PartsOfStage ==
  ASSUME NEW l \in Seq(STRING), NEW n \in Nat, NEW i \in Nat
  PROVE  /\ UpTo(Arguments(l, n), i) =
              {k \in UpTo(Stage(l, n), i) :
                 l[k] \notin Symbols /\ ~ NamesFile(l, k, Symbols)}
         /\ \A symbols : UpTo(Files(l, n, symbols), i) =
              {k \in UpTo(Stage(l, n), i) : NamesFile(l, k, symbols)}
  BY DEF UpTo, Arguments, Files

(* At the token behind one that is no symbol.                              *)
LEMMA NoNameBehind ==
  ASSUME NEW l \in Seq(STRING), NEW i \in Nat, i > 0 => l[i] \notin Symbols,
         NEW symbols \in SUBSET Symbols
  PROVE  ~ NamesFile(l, i + 1, symbols)
  <1>1. (i + 1) - 1 = i
    OBVIOUS
  <1>2. i \in Body(l) => i > 0
    BY BodyIs
  <1> QED
    BY <1>1, <1>2 DEF NamesFile
-----------------------------------------------------------------------------
(* One argument more.                                                      *)
LEMMA ArgumentMeans ==
  ASSUME NEW l \in Seq(STRING), NEW n \in Nat, NEW i \in Nat,
         NEW b \in Blocks, MeansUpTo(b, l, n, i),
         i + 1 \in Body(l), n = PipesBefore(l, i + 1),
         i > 0 => l[i] \notin Symbols, l[i + 1] \notin Symbols \cup {"|"}
  PROVE  MeansUpTo(push_arg(b, i + 1), l, n, i + 1)
  <1> DEFINE c == push_arg(b, i + 1)
             old == UpTo(Stage(l, n), i)
             new == UpTo(Stage(l, n), i + 1)
  <1>0. new = old \cup {i + 1} /\ \A k \in old : k <= i
    BY TokenOfStage DEF UpTo
  <1>1. \A symbols \in SUBSET Symbols : ~ NamesFile(l, i + 1, symbols)
    BY NoNameBehind
  <1>2. b.args \in Seq(Nat)
    BY DEF Blocks
  <1>3. /\ c.args = Append(b.args, i + 1) /\ c.in_file = b.in_file
        /\ c.out_file = b.out_file /\ c.flag = b.flag
    BY DEF push_arg, Blocks
  <1>4. UpTo(Arguments(l, n), i + 1) = UpTo(Arguments(l, n), i) \cup {i + 1}
    <2>1. ~ NamesFile(l, i + 1, Symbols)
      BY <1>1
    <2> HIDE DEF c
    <2> QED
      BY <1>0, <2>1, PartsOfStage
  <1>5. \A symbols \in SUBSET Symbols :
          UpTo(Files(l, n, symbols), i + 1) = UpTo(Files(l, n, symbols), i)
    <2> TAKE symbols \in SUBSET Symbols
    <2>1. ~ NamesFile(l, i + 1, symbols)
      BY <1>1
    <2>2. /\ UpTo(Files(l, n, symbols), i + 1) =
               {k \in new : NamesFile(l, k, symbols)}
          /\ UpTo(Files(l, n, symbols), i) =
               {k \in old : NamesFile(l, k, symbols)}
      BY PartsOfStage
    <2> HIDE DEF new, old
    <2> QED
      BY <1>0, <2>1, <2>2
  <1>6. FlagsOf(l, new) = FlagsOf(l, old)
    <2> HIDE DEF new, old
    <2>1. {k \in new : l[k] \in Symbols} = {k \in old : l[k] \in Symbols}
      BY <1>0
    <2> QED
      BY <2>1 DEF FlagsOf
  <1>7. /\ Ascending(b.args)
        /\ {b.args[k] : k \in DOMAIN b.args} = UpTo(Arguments(l, n), i)
    BY DEF MeansUpTo
  <1>8. \A k \in DOMAIN b.args : b.args[k] <= i
    BY <1>7 DEF UpTo
  <1> DEFINE s == b.args
             t == Append(s, i + 1)
  <1>9. /\ DOMAIN t = DOMAIN s \cup {Len(s) + 1} /\ t[Len(s) + 1] = i + 1
        /\ \A k \in DOMAIN s : t[k] = s[k] /\ k < Len(s) + 1 /\ k \in Nat
        /\ \A k \in DOMAIN s : s[k] <= i /\ s[k] \in Nat
        /\ Len(s) \in Nat
    BY <1>2, <1>8
  <1>10. Ascending(s)
    BY <1>7
  <1> HIDE DEF s, t
  <1>11. Ascending(t)
    <2> SUFFICES ASSUME NEW j \in DOMAIN t, NEW k \in DOMAIN t, j < k
                 PROVE  t[j] < t[k]
      BY DEF Ascending
    <2>1. j \in DOMAIN s
      BY <1>9
    <2>2. CASE k \in DOMAIN s
      BY <1>9, <1>10, <2>1, <2>2 DEF Ascending
    <2>3. CASE k = Len(s) + 1
      BY <1>9, <2>1, <2>3
    <2> QED
      BY <1>9, <2>2, <2>3
  <1>12. {t[k] : k \in DOMAIN t} = {s[k] : k \in DOMAIN s} \cup {i + 1}
    BY <1>9
  <1>13. c.args = t /\ {s[k] : k \in DOMAIN s} = UpTo(Arguments(l, n), i)
    BY <1>3, <1>7 DEF s, t
  <1>14. {c.args[k] : k \in DOMAIN c.args} = UpTo(Arguments(l, n), i + 1)
    BY <1>4, <1>12, <1>13
  <1>15. /\ c.in_file = LastOf(UpTo(Files(l, n, InSymbols), i + 1))
         /\ c.out_file = LastOf(UpTo(Files(l, n, Symbols \ InSymbols), i + 1))
    <2>1. /\ b.in_file = LastOf(UpTo(Files(l, n, InSymbols), i))
          /\ b.out_file = LastOf(UpTo(Files(l, n, Symbols \ InSymbols), i))
      BY DEF MeansUpTo
    <2>2. InSymbols \in SUBSET Symbols /\ Symbols \ InSymbols \in SUBSET Symbols
      BY DEF Symbols
    <2> QED
      BY <1>3, <1>5, <2>1, <2>2
  <1>16. c.flag = FlagsOf(l, new)
    BY <1>3, <1>6 DEF MeansUpTo
  <1> QED
    BY <1>11, <1>13, <1>14, <1>15, <1>16 DEF MeansUpTo

(* A symbol and the name of a file behind it.                              *)
WithFile(c, b, l, i) ==
  /\ c.args = b.args /\ c.flag = b.flag \cup {Flag(l[i + 1])}
  /\ c.in_file = IF l[i + 1] \in InSymbols THEN i + 2 ELSE b.in_file
  /\ c.out_file = IF l[i + 1] \in InSymbols THEN b.out_file ELSE i + 2

LEMMA RedirectMeans ==
  ASSUME NEW l \in Seq(STRING), NEW n \in Nat, NEW i \in Nat,
         NEW b \in Blocks, MeansUpTo(b, l, n, i),
         i + 1 \in Body(l), n = PipesBefore(l, i + 1),
         i > 0 => l[i] \notin Symbols, l[i + 1] \in Symbols,
         i + 2 \in Body(l), l[i + 2] \notin Symbols \cup {"|"},
         NEW c, WithFile(c, b, l, i)
  PROVE  MeansUpTo(c, l, n, i + 2) /\ PipesBefore(l, i + 3) = n
  <1> DEFINE old == UpTo(Stage(l, n), i)
             new == UpTo(Stage(l, n), i + 2)
  <1>0. l[i + 1] # "|"
    BY DEF Symbols, InSymbols
  <1>1. /\ UpTo(Stage(l, n), i + 1) = old \cup {i + 1}
        /\ PipesBefore(l, i + 2) = n
    BY <1>0, TokenOfStage
  <1>2. (i + 1) + 1 = i + 2 /\ (i + 1) + 2 = i + 3 /\ i + 1 \in Nat
    OBVIOUS
  <1>3. /\ new = UpTo(Stage(l, n), i + 1) \cup {i + 2}
        /\ PipesBefore(l, i + 3) = n
    BY <1>1, <1>2, TokenOfStage
  <1>4. new = old \cup {i + 1, i + 2}
    BY <1>1, <1>3
  <1>5. /\ old \in SUBSET Nat /\ \A k \in old : k <= i
        /\ old \subseteq new /\ i + 2 \in new
    BY <1>4, StageIn, BodyIs DEF UpTo
  <1>6. \A symbols \in SUBSET Symbols : ~ NamesFile(l, i + 1, symbols)
    BY NoNameBehind
  <1>7. \A symbols : NamesFile(l, i + 2, symbols) <=> l[i + 1] \in symbols
    <2>1. (i + 2) - 1 = i + 1
      OBVIOUS
    <2> QED
      BY <2>1 DEF NamesFile
  <1>8. UpTo(Arguments(l, n), i + 2) = UpTo(Arguments(l, n), i)
    <2>1. /\ UpTo(Arguments(l, n), i + 2) =
               {k \in new : l[k] \notin Symbols /\ ~ NamesFile(l, k, Symbols)}
          /\ UpTo(Arguments(l, n), i) =
               {k \in old : l[k] \notin Symbols /\ ~ NamesFile(l, k, Symbols)}
      BY PartsOfStage
    <2> HIDE DEF new, old
    <2> QED
      BY <1>4, <1>7, <2>1
  <1>9. \A symbols \in SUBSET Symbols :
          UpTo(Files(l, n, symbols), i + 2) =
            UpTo(Files(l, n, symbols), i)
              \cup (IF l[i + 1] \in symbols THEN {i + 2} ELSE {})
    <2> TAKE symbols \in SUBSET Symbols
    <2>2. /\ UpTo(Files(l, n, symbols), i + 2) =
               {k \in new : NamesFile(l, k, symbols)}
          /\ UpTo(Files(l, n, symbols), i) =
               {k \in old : NamesFile(l, k, symbols)}
      BY <1>2, PartsOfStage
    <2> HIDE DEF new, old
    <2> QED
      BY <1>4, <1>6, <1>7, <2>2
  <1>10. FlagsOf(l, new) = FlagsOf(l, old) \cup {Flag(l[i + 1])}
    <2> HIDE DEF new, old
    <2>1. {k \in new : l[k] \in Symbols} =
            {k \in old : l[k] \in Symbols} \cup {i + 1}
      BY <1>4
    <2> QED
      BY <2>1 DEF FlagsOf
  <1>11. /\ Ascending(b.args)
         /\ {b.args[k] : k \in DOMAIN b.args} = UpTo(Arguments(l, n), i)
         /\ b.in_file = LastOf(UpTo(Files(l, n, InSymbols), i))
         /\ b.out_file = LastOf(UpTo(Files(l, n, Symbols \ InSymbols), i))
         /\ b.flag = FlagsOf(l, old)
    BY DEF MeansUpTo
  <1>12. ASSUME NEW symbols \in SUBSET Symbols
         PROVE  LastOf(UpTo(Files(l, n, symbols), i + 2)) =
                  IF l[i + 1] \in symbols THEN i + 2
                  ELSE LastOf(UpTo(Files(l, n, symbols), i))
    <2>1. CASE l[i + 1] \in symbols
      <3> DEFINE S == UpTo(Files(l, n, symbols), i + 2)
      <3>1. i + 2 \in S
        BY <1>9, <2>1
      <3>2. S \in SUBSET Nat /\ \A j \in S : j <= i + 2
        <4>1. /\ Files(l, n, symbols) \subseteq 1 .. Words(l)
              /\ Words(l) \in Nat
          BY StageIn, BodyIs
        <4> QED
          BY ONLY <4>1 DEF UpTo
      <3> HIDE DEF S
      <3>3. LastOf(S) = i + 2
        BY <3>1, <3>2, LastIs
      <3> QED
        BY <2>1, <3>3 DEF S
    <2>2. CASE l[i + 1] \notin symbols
      <3>1. UpTo(Files(l, n, symbols), i + 2) = UpTo(Files(l, n, symbols), i)
        <4>1. UpTo(Files(l, n, symbols), i + 2) =
                UpTo(Files(l, n, symbols), i)
                  \cup (IF l[i + 1] \in symbols THEN {i + 2} ELSE {})
          BY <1>9
        <4> QED
          BY <2>2, <4>1
      <3> QED
        BY <2>2, <3>1
    <2> QED
      BY <2>1, <2>2
  <1>13. /\ c.in_file = LastOf(UpTo(Files(l, n, InSymbols), i + 2))
         /\ c.out_file = LastOf(UpTo(Files(l, n, Symbols \ InSymbols), i + 2))
    <2>1. InSymbols \in SUBSET Symbols /\ Symbols \ InSymbols \in SUBSET Symbols
      BY DEF Symbols
    <2>2. l[i + 1] \in Symbols \ InSymbols <=> l[i + 1] \notin InSymbols
      OBVIOUS
    <2> QED
      BY <1>11, <1>12, <2>1, <2>2 DEF WithFile
  <1>14. c.flag = FlagsOf(l, new)
    BY <1>10, <1>11 DEF WithFile
  <1>15. /\ Ascending(c.args)
         /\ {c.args[k] : k \in DOMAIN c.args} = UpTo(Arguments(l, n), i + 2)
    BY <1>8, <1>11 DEF WithFile
  <1> QED
    BY <1>3, <1>13, <1>14, <1>15 DEF MeansUpTo
-----------------------------------------------------------------------------
(* The list has a last block.                                              *)
LEMMA ListOfBlocks ==
  ASSUME NEW bs \in Seq(Blocks), bs # <<>>
  PROVE  /\ Len(bs) \in Nat /\ Len(bs) > 0 /\ Len(bs) - 1 \in Nat
         /\ bs[Len(bs)] \in Blocks
         /\ DOMAIN bs = (1 .. Len(bs) - 1) \cup {Len(bs)}
  <1>1. Len(bs) \in Nat /\ DOMAIN bs = 1 .. Len(bs) /\ Len(bs) # 0
    OBVIOUS
  <1>2. Len(bs) \in DOMAIN bs
    BY <1>1
  <1>3. bs[Len(bs)] \in Blocks
    BY <1>2
  <1> QED
    BY <1>1, <1>3

(* What a step of commandize makes of the list of blocks.                  *)
LEMMA ArgumentParses ==
  ASSUME NEW l \in Seq(STRING), NEW i \in Nat, NEW bs \in Seq(Blocks),
         bs # <<>>, ParsedUpTo(bs, l, i), i + 1 \in Body(l),
         l[i + 1] \notin Symbols \cup {"|"},
         NEW cs, cs = [bs EXCEPT ![Len(bs)] = push_arg(@, i + 1)]
  PROVE  ParsedUpTo(cs, l, i + 1)
  <1> DEFINE n == Len(bs) - 1
             b == bs[Len(bs)]
             c == push_arg(b, i + 1)
  <1>1. /\ i > 0 => l[i] \notin Symbols
        /\ Len(bs) = PipesBefore(l, i + 1) + 1
        /\ \A k \in 1 .. Len(bs) - 1 : Means(bs[k], l, k - 1)
        /\ MeansUpTo(b, l, n, i)
    BY DEF ParsedUpTo
  <1>2. /\ Len(bs) \in Nat /\ Len(bs) > 0 /\ n \in Nat /\ b \in Blocks
        /\ PipesBefore(l, i + 1) \in Nat
    <2>1. i + 1 \in Nat
      OBVIOUS
    <2>2. PipesBefore(l, i + 1) \in Nat
      BY <2>1, PipesCount
    <2> QED
      BY <2>2, ListOfBlocks
  <1>3. n = PipesBefore(l, i + 1)
    BY <1>1, <1>2
  <1>4. MeansUpTo(c, l, n, i + 1)
    BY <1>1, <1>2, <1>3, ArgumentMeans
  <1>5. PipesBefore(l, i + 2) = n
    BY <1>2, <1>3, TokenOfStage
  <1> HIDE DEF c
  <1>6. /\ Len(cs) = Len(bs) /\ cs[Len(bs)] = c
        /\ \A k \in 1 .. Len(bs) - 1 : cs[k] = bs[k]
    BY <1>2 DEF c
  <1>7. (i + 1) + 1 = i + 2
    OBVIOUS
  <1>8. Len(cs) = PipesBefore(l, (i + 1) + 1) + 1
    BY <1>1, <1>3, <1>5, <1>6, <1>7
  <1>9. MeansUpTo(cs[Len(cs)], l, Len(cs) - 1, i + 1)
    BY <1>4, <1>6
  <1>10. \A k \in 1 .. Len(cs) - 1 : Means(cs[k], l, k - 1)
    BY <1>1, <1>6
  <1> QED
    BY <1>8, <1>9, <1>10 DEF ParsedUpTo

(* At a symbol it is the last block that changes, and no file is missing.  *)
LEMMA RedirectParses ==
  ASSUME NEW l \in Seq(STRING), NEW i \in Nat, NEW bs \in Seq(Blocks),
         bs # <<>>, ParsedUpTo(bs, l, i), i + 1 \in Body(l),
         l[i + 1] \in Symbols, WellFormed(l),
         NEW c, WithFile(c, bs[Len(bs)], l, i),
         NEW cs, cs = [bs EXCEPT ![Len(bs)] = c]
  PROVE  ParsedUpTo(cs, l, i + 2) /\ i + 2 \in Body(l)
  <1> DEFINE n == Len(bs) - 1
             b == bs[Len(bs)]
  <1>1. /\ i > 0 => l[i] \notin Symbols
        /\ Len(bs) = PipesBefore(l, i + 1) + 1
        /\ \A k \in 1 .. Len(bs) - 1 : Means(bs[k], l, k - 1)
        /\ MeansUpTo(b, l, n, i)
    BY DEF ParsedUpTo
  <1>2. /\ Len(bs) \in Nat /\ Len(bs) > 0 /\ n \in Nat /\ b \in Blocks
        /\ PipesBefore(l, i + 1) \in Nat
    <2>1. i + 1 \in Nat
      OBVIOUS
    <2>2. PipesBefore(l, i + 1) \in Nat
      BY <2>1, PipesCount
    <2> QED
      BY <2>2, ListOfBlocks
  <1>3. n = PipesBefore(l, i + 1)
    BY <1>1, <1>2
  <1>4. i + 2 \in Body(l) /\ l[i + 2] \notin Symbols \cup {"|"}
    <2>1. (i + 1) + 1 = i + 2
      OBVIOUS
    <2> QED
      BY <2>1 DEF WellFormed
  <1>5. MeansUpTo(c, l, n, i + 2) /\ PipesBefore(l, i + 3) = n
    BY <1>1, <1>2, <1>3, <1>4, RedirectMeans
  <1>6. /\ Len(cs) = Len(bs) /\ cs[Len(bs)] = c
        /\ \A k \in 1 .. Len(bs) - 1 : cs[k] = bs[k]
    BY <1>2
  <1>7. (i + 2) + 1 = i + 3
    OBVIOUS
  <1>8. Len(cs) = PipesBefore(l, (i + 2) + 1) + 1
    BY <1>1, <1>3, <1>5, <1>6, <1>7
  <1>9. MeansUpTo(cs[Len(cs)], l, Len(cs) - 1, i + 2)
    BY <1>5, <1>6
  <1>10. \A k \in 1 .. Len(cs) - 1 : Means(cs[k], l, k - 1)
    BY <1>1, <1>6
  <1> QED
    BY <1>4, <1>8, <1>9, <1>10 DEF ParsedUpTo

(* At a pipe a block is complete and another one begins.                   *)
LEMMA PipeParses ==
  ASSUME NEW l \in Seq(STRING), NEW i \in Nat, NEW bs \in Seq(Blocks),
         bs # <<>>, ParsedUpTo(bs, l, i), i + 1 \in Body(l), l[i + 1] = "|",
         NEW cs, cs = Append(
           [bs EXCEPT ![Len(bs)].flag = @ \cup {"PIPIED"}], command_block_init)
  PROVE  ParsedUpTo(cs, l, i + 1)
  <1> DEFINE n == Len(bs) - 1
             b == bs[Len(bs)]
             c == [b EXCEPT !.flag = @ \cup {"PIPIED"}]
             ds == [bs EXCEPT ![Len(bs)] = c]
  <1>1. /\ Len(bs) = PipesBefore(l, i + 1) + 1
        /\ \A k \in 1 .. Len(bs) - 1 : Means(bs[k], l, k - 1)
        /\ MeansUpTo(b, l, n, i)
    BY DEF ParsedUpTo
  <1>2. /\ Len(bs) \in Nat /\ Len(bs) > 0 /\ n \in Nat /\ b \in Blocks
        /\ PipesBefore(l, i + 1) \in Nat
    <2>1. i + 1 \in Nat
      OBVIOUS
    <2>2. PipesBefore(l, i + 1) \in Nat
      BY <2>1, PipesCount
    <2> QED
      BY <2>2, ListOfBlocks
  <1>3. n = PipesBefore(l, i + 1)
    BY <1>1, <1>2
  <1>4. /\ UpTo(Stage(l, n), i) = Stage(l, n)
        /\ UpTo(Stage(l, n + 1), i + 1) = {}
        /\ PipesBefore(l, i + 2) = n + 1
        /\ n + 1 \in StageNumbers(l)
    BY <1>2, <1>3, PipeOfStage
  <1>5. /\ c.args = b.args /\ c.in_file = b.in_file
        /\ c.out_file = b.out_file /\ c.flag = b.flag \cup {"PIPIED"}
    BY <1>2 DEF Blocks
  <1>6. Means(c, l, n)
    BY <1>1, <1>2, <1>4, <1>5, MeansWhole
  <1>7. MeansUpTo(command_block_init, l, n + 1, i + 1)
    BY <1>2, <1>4, MeansNothing
  <1>8. cs = Append(ds, command_block_init)
    OBVIOUS
  <1> HIDE DEF c
  <1>9. /\ ds \in Seq(Blocks \cup {c}) /\ Len(ds) = Len(bs)
        /\ ds[Len(bs)] = c
        /\ \A k \in 1 .. Len(bs) - 1 : ds[k] = bs[k]
    BY <1>2
  <1> HIDE DEF ds
  <1> HIDE DEF b
  <1>10. /\ Len(cs) = Len(bs) + 1 /\ cs[Len(bs) + 1] = command_block_init
         /\ cs[Len(bs)] = c
         /\ \A k \in 1 .. Len(bs) - 1 : cs[k] = bs[k]
    BY <1>2, <1>8, <1>9, NewBlock
  <1>11. (i + 1) + 1 = i + 2 /\ Len(cs) - 1 = n + 1
    BY <1>2, <1>10
  <1>12. Len(cs) = PipesBefore(l, (i + 1) + 1) + 1
    BY <1>2, <1>4, <1>10, <1>11
  <1>13. MeansUpTo(cs[Len(cs)], l, Len(cs) - 1, i + 1)
    BY <1>7, <1>10, <1>11
  <1>14. \A k \in 1 .. Len(cs) - 1 : Means(cs[k], l, k - 1)
    <2> SUFFICES ASSUME NEW k \in 1 .. Len(cs) - 1
                 PROVE  Means(cs[k], l, k - 1)
      OBVIOUS
    <2>1. k \in 1 .. Len(bs) - 1 \/ k = Len(bs)
      BY <1>2, <1>10
    <2>2. CASE k \in 1 .. Len(bs) - 1
      BY <1>1, <1>10, <2>2
    <2>3. CASE k = Len(bs)
      BY <1>6, <1>10, <2>3
    <2> QED
      BY <2>1, <2>2, <2>3
  <1>15. l[i + 1] \notin Symbols
    BY DEF Symbols, InSymbols
  <1> QED
    BY <1>12, <1>13, <1>14, <1>15 DEF ParsedUpTo

(* At the end of the line all is parsed.                                   *)
LEMMA AllParsed ==
  ASSUME NEW l \in Seq(STRING), NEW bs \in Seq(Blocks), bs # <<>>,
         ParsedUpTo(bs, l, Words(l))
  PROVE  /\ Len(bs) = Cardinality(StageNumbers(l))
         /\ \A k \in DOMAIN bs : Means(bs[k], l, k - 1)
  <1> DEFINE n == Len(bs) - 1
             b == bs[Len(bs)]
             p == PipesBefore(l, Len(l) + 1)
  <1>1. /\ Len(bs) = PipesBefore(l, Words(l) + 1) + 1
        /\ \A k \in 1 .. Len(bs) - 1 : Means(bs[k], l, k - 1)
        /\ MeansUpTo(b, l, n, Words(l))
    BY DEF ParsedUpTo
  <1>2. /\ Len(bs) \in Nat /\ Len(bs) > 0 /\ n \in Nat /\ b \in Blocks
        /\ Words(l) \in Nat /\ Len(l) \in Nat
    BY BodyIs
  <1>3. n = p /\ p \in Nat
    BY <1>1, <1>2, PipesCount
  <1>4. StageNumbers(l) = 0 .. n
    BY <1>3 DEF StageNumbers
  <1>5. Cardinality(0 .. n) = n + 1
    <2> HIDE DEF n
    <2>1. 0 \in Int /\ n \in Int /\ ~ (0 > n)
      BY <1>2
    <2>2. Cardinality(0 .. n) = IF 0 > n THEN 0 ELSE n-0+1
      BY <2>1, FS_Interval
    <2> QED
      BY <2>1, <2>2
  <1>6. n + 1 \notin StageNumbers(l)
    BY <1>2, <1>4
  <1>7. UpTo(Stage(l, n), Words(l)) = Stage(l, n)
    BY <1>2, StageIn DEF UpTo
  <1>8. Means(b, l, n)
    BY <1>1, <1>2, <1>6, <1>7, MeansWhole
  <1>9. \A k \in DOMAIN bs : Means(bs[k], l, k - 1)
    BY <1>1, <1>2, <1>8
  <1>10. Len(bs) = Cardinality(StageNumbers(l))
    BY <1>2, <1>4, <1>5
  <1> QED
    BY <1>9, <1>10

(* An empty line has no command.                                           *)
LEMMA EmptyIsIllFormed == ~ WellFormed(<<>>)
  <1>1. <<>> \in Seq(STRING)
    OBVIOUS
  <1>2. 0 \in StageNumbers(<<>>)
    <2>1. Len(<<>>) = 0 /\ 0 + 1 = 1
      OBVIOUS
    <2>2. PipesBefore(<<>>, 1) = 0
      BY <1>1, PipesCount
    <2>3. PipesBefore(<<>>, Len(<<>>) + 1) = 0
      BY <2>1, <2>2
    <2> QED
      BY <2>3 DEF StageNumbers
  <1>3. Arguments(<<>>, 0) = {}
    <2>1. Words(<<>>) = 0
      BY DEF Words
    <2>2. 1 .. 0 = {}
      OBVIOUS
    <2>3. Arguments(<<>>, 0) \subseteq 1 .. Words(<<>>)
      BY <1>1, StageIn
    <2> QED
      BY <2>1, <2>2, <2>3
  <1> QED
    BY <1>2, <1>3 DEF WellFormed
-----------------------------------------------------------------------------
(* The inductive invariant of the meaning.                                 *)
ParserUnderstands == ParserInv /\ Understood

(* The characters become tokens in their order.                            *)
LEMMA TokensUnderstood ==
  ASSUME ParserUnderstands, ReadChar \/ EndOfLine \/ tokenize \/ EndTokens
  PROVE  Understood'
  <1> USE DEF ParserUnderstands
  <1>1. CASE ReadChar \/ EndOfLine
    <2>1. /\ phase' \in {"read", "tokenize"} /\ tokens = <<>>
          /\ tokens' = tokens
      BY <1>1 DEF ReadChar, EndOfLine, ParserInv, Filled
    <2>2. \A k \in DOMAIN <<>> : tokens[k] = k
      OBVIOUS
    <2> QED
      BY <2>1, <2>2 DEF Understood, ParsedAsMeant
  <1>2. CASE tokenize
    <2>1. /\ phase = "tokenize" /\ phase' = phase
          /\ tokens' = Append(tokens, pos + 1)
          /\ tokens \in Seq(Nat \cup {NULL}) /\ Len(tokens) = pos
          /\ pos \in Nat /\ \A k \in DOMAIN tokens : tokens[k] = k
      BY <1>2 DEF tokenize, ParserInv, ParserTypeOK, Filled, Understood
    <2>2. \A k \in DOMAIN tokens' : tokens'[k] = k
      BY <2>1
    <2> QED
      BY <2>1, <2>2 DEF Understood, ParsedAsMeant
  <1>3. CASE EndTokens
    <2>1. /\ phase = "tokenize" /\ phase' = "start"
          /\ tokens' = Append(tokens, NULL) /\ num' = pos
          /\ pos = Len(line) /\ line' = line
          /\ tokens \in Seq(Nat \cup {NULL}) /\ Len(tokens) = pos
          /\ pos \in Nat /\ \A k \in DOMAIN tokens : tokens[k] = k
      BY <1>3 DEF EndTokens, ParserInv, ParserTypeOK, Filled, Understood
    <2>2. \A k \in 1 .. num' : tokens'[k] = k
      BY <2>1
    <2> QED
      BY <2>1, <2>2 DEF Understood, ParsedAsMeant
  <1> QED
    BY <1>1, <1>2, <1>3

(* commandize takes off the ampersand, and nothing is parsed.              *)
LEMMA StartUnderstood ==
  ASSUME ParserUnderstands, Start
  PROVE  Understood'
  <1>1. /\ phase = "start" /\ num \in Nat /\ num > 0
        /\ tokens \in Seq(Nat \cup {NULL}) /\ Len(tokens) = num + 1
        /\ line \in Seq(STRING) /\ num = Len(line)
        /\ \A k \in 1 .. num : tokens[k] = k
    BY DEF ParserUnderstands, ParserInv, ParserTypeOK, Filled, Understood, Start
  <1>2. line # <<>> /\ (IsAmper(num) <=> line[Len(line)] = "&")
    BY <1>1 DEF IsAmper
  <1>3. /\ phase' = "commandize" /\ pos' = 0 /\ line' = line
        /\ blocks' = <<command_block_init>>
        /\ (bg_flag' <=> line[Len(line)] = "&")
        /\ num' = Words(line)
    BY <1>1, <1>2 DEF Start, Words
  <1>4. /\ num' \in Nat /\ num' <= num
        /\ \A k \in 1 .. num' : tokens'[k] = tokens[k]
    <2>1. CASE IsAmper(num)
      BY <1>1, <2>1 DEF Start
    <2>2. CASE ~ IsAmper(num)
      BY <1>1, <2>2 DEF Start
    <2> QED
      BY <2>1, <2>2
  <1>5. \A k \in pos' + 1 .. num' : tokens'[k] = k
    BY <1>1, <1>3, <1>4
  <1>6. pos' <= num' /\ ParsedUpTo(blocks', line', pos')
    BY <1>1, <1>3, <1>4, FirstParsed
  <1> QED
    BY <1>2, <1>3, <1>5, <1>6 DEF Understood, ParsedAsMeant

(* What is known of the token commandize looks at.                         *)
LEMMA TokenUnderstood ==
  ASSUME ParserUnderstands, AtToken
  PROVE  /\ pos \in Nat /\ num \in Nat /\ pos < num
         /\ line \in Seq(STRING) /\ blocks \in Seq(Blocks) /\ blocks # <<>>
         /\ line # <<>> /\ (bg_flag <=> line[Len(line)] = "&")
         /\ num = Words(line)
         /\ \A k \in pos + 1 .. num : tokens[k] = k
         /\ WellFormed(line) => ParsedUpTo(blocks, line, pos)
         /\ pos + 1 \in Body(line)
         /\ tokens[pos + 1] = pos + 1 /\ Token = line[pos + 1]
         /\ LastBlock = Len(blocks)
  <1>1. /\ phase = "commandize" /\ pos \in Nat /\ num \in Nat /\ pos < num
        /\ line \in Seq(STRING) /\ blocks \in Seq(Blocks) /\ blocks # <<>>
    BY DEF ParserUnderstands, ParserInv, ParserTypeOK, InBounds, AtToken
  <1>2. /\ line # <<>> /\ (bg_flag <=> line[Len(line)] = "&")
        /\ num = Words(line)
        /\ \A k \in pos + 1 .. num : tokens[k] = k
        /\ WellFormed(line) => ParsedUpTo(blocks, line, pos)
    BY <1>1 DEF ParserUnderstands, Understood
  <1>3. pos + 1 \in pos + 1 .. num /\ pos + 1 \in 1 .. num
    BY <1>1
  <1>4. tokens[pos + 1] = pos + 1 /\ Token = line[pos + 1]
    BY <1>2, <1>3 DEF Token
  <1>5. pos + 1 \in Body(line)
    BY <1>1, <1>2, <1>3, BodyIs
  <1> QED
    BY <1>1, <1>2, <1>4, <1>5 DEF LastBlock

(* A step of commandize is understood when what it makes of the list is    *)
(* and the tokens behind are left alone.                                   *)
LEMMA CommandizeUnderstood ==
  ASSUME ParserUnderstands, AtToken,
         phase' = phase, line' = line, num' = num, bg_flag' = bg_flag,
         pos' \in Nat, pos' > pos,
         tokens' = tokens \/ tokens' = Overwrite,
         WellFormed(line) => pos' <= num /\ ParsedUpTo(blocks', line, pos')
  PROVE  Understood'
  <1>1. /\ phase = "commandize" /\ pos \in Nat /\ num \in Nat
        /\ \A k \in pos + 1 .. num : tokens[k] = k
        /\ line # <<>> /\ (bg_flag <=> line[Len(line)] = "&")
        /\ num = Words(line)
    BY TokenUnderstood DEF AtToken
  <1>2. \A k \in pos' + 1 .. num : tokens'[k] = tokens[k]
    <2>1. ParserInv
      BY DEF ParserUnderstands
    <2>2. CASE tokens' = tokens
      BY <2>2
    <2>3. CASE tokens' = Overwrite
      <3>1. \A k \in pos' + 1 .. num : Overwrite[k] = tokens[k]
        BY ONLY <2>1, Overwritten, AtToken, pos' \in Nat, pos' > pos
      <3> QED
        BY ONLY <2>3, <3>1
    <2> QED
      BY <2>2, <2>3
  <1>3. \A k \in pos' + 1 .. num' : tokens'[k] = k
    <2>1. PICK q \in Nat : q = pos' /\ q > pos
      OBVIOUS
    <2>2. ASSUME NEW k \in q + 1 .. num PROVE k \in pos + 1 .. num
      <3>1. /\ pos \in Nat /\ num \in Nat
            /\ q \in Nat /\ q > pos
        BY <1>1, <2>1
      <3>2. k \in Int /\ k >= q + 1 /\ k <= num
        BY ONLY <3>1, k \in q + 1 .. num
      <3>3. k >= pos + 1
        BY ONLY <3>1, <3>2
      <3> QED
        BY ONLY <3>1, <3>2, <3>3
    <2>3. \A k \in q + 1 .. num : tokens'[k] = k
      BY <1>1, <1>2, <2>1, <2>2
    <2>4. num' = num
      OBVIOUS
    <2> QED
      BY <2>1, <2>3, <2>4
  <1>4. /\ line' # <<>> /\ (bg_flag' <=> line'[Len(line')] = "&")
        /\ num' = Words(line')
    BY <1>1
  <1>5. phase' = "commandize"
    BY <1>1
  <1> QED
    BY <1>3, <1>4, <1>5 DEF Understood, ParsedAsMeant

(* At an argument.                                                         *)
LEMMA ArgumentUnderstood ==
  ASSUME ParserUnderstands, Argument
  PROVE  Understood'
  <1>0. AtToken
    BY DEF Argument
  <1>1. /\ pos \in Nat /\ num \in Nat /\ pos < num
        /\ line \in Seq(STRING) /\ blocks \in Seq(Blocks) /\ blocks # <<>>
        /\ WellFormed(line) => ParsedUpTo(blocks, line, pos)
        /\ pos + 1 \in Body(line)
        /\ tokens[pos + 1] = pos + 1 /\ Token = line[pos + 1]
        /\ LastBlock = Len(blocks)
    BY <1>0, TokenUnderstood
  <1>2. /\ blocks' = [blocks EXCEPT ![Len(blocks)] = push_arg(@, pos + 1)]
        /\ line[pos + 1] \notin Symbols \cup {"|"}
        /\ pos' = pos + 1
        /\ UNCHANGED <<phase, line, tokens, num, bg_flag>>
    BY <1>1 DEF Argument
  <1>3. WellFormed(line) => ParsedUpTo(blocks', line, pos + 1)
    BY <1>1, <1>2, ArgumentParses
  <1> QED
    BY <1>0, <1>1, <1>2, <1>3, CommandizeUnderstood

(* At a pipe.                                                              *)
LEMMA PipeUnderstood ==
  ASSUME ParserUnderstands, Pipe
  PROVE  Understood'
  <1>0. AtToken
    BY DEF Pipe
  <1>1. /\ pos \in Nat /\ num \in Nat /\ pos < num
        /\ line \in Seq(STRING) /\ blocks \in Seq(Blocks) /\ blocks # <<>>
        /\ WellFormed(line) => ParsedUpTo(blocks, line, pos)
        /\ pos + 1 \in Body(line) /\ Token = line[pos + 1]
        /\ LastBlock = Len(blocks)
    BY <1>0, TokenUnderstood
  <1>2. /\ blocks' = Append(
             [blocks EXCEPT ![Len(blocks)].flag = @ \cup {"PIPIED"}],
             command_block_init)
        /\ line[pos + 1] = "|"
        /\ pos' = pos + 1 /\ tokens' = Overwrite
        /\ UNCHANGED <<phase, line, num, bg_flag>>
    BY <1>1 DEF Pipe, Overwrite
  <1>3. WellFormed(line) => ParsedUpTo(blocks', line, pos + 1)
    BY <1>1, <1>2, PipeParses
  <1> QED
    BY <1>0, <1>1, <1>2, <1>3, CommandizeUnderstood

(* At a symbol.                                                            *)
LEMMA RedirectUnderstood ==
  ASSUME ParserUnderstands, Redirect
  PROVE  Understood'
  <1>0. AtToken
    BY DEF Redirect
  <1>1. /\ pos \in Nat /\ num \in Nat /\ pos < num
        /\ line \in Seq(STRING) /\ blocks \in Seq(Blocks) /\ blocks # <<>>
        /\ num = Words(line)
        /\ \A k \in pos + 1 .. num : tokens[k] = k
        /\ WellFormed(line) => ParsedUpTo(blocks, line, pos)
        /\ pos + 1 \in Body(line) /\ Token = line[pos + 1]
        /\ LastBlock = Len(blocks)
    BY <1>0, TokenUnderstood
  <1> DEFINE b == blocks[Len(blocks)]
             c(file) ==
               [b EXCEPT !.flag = @ \cup {Flag(Token)},
                         !.in_file = IF Token \in InSymbols THEN file ELSE @,
                         !.out_file = IF Token \in InSymbols THEN @ ELSE file]
  <1>2. /\ blocks' = [blocks EXCEPT ![Len(blocks)] = c(tokens[pos + 2])]
        /\ line[pos + 1] \in Symbols
        /\ pos' = pos + 2 /\ tokens' = Overwrite
        /\ UNCHANGED <<phase, line, num, bg_flag>>
    BY <1>1 DEF Redirect, Overwrite
  <1>3. b \in Blocks
    BY <1>1, ListOfBlocks
  <1>4. ASSUME WellFormed(line)
        PROVE  pos + 2 <= num /\ ParsedUpTo(blocks', line, pos + 2)
    <2>1. pos + 2 <= num
      <3>1. (pos + 1) + 1 \in Body(line)
        BY <1>1, <1>2, <1>4 DEF WellFormed
      <3> QED
        BY <1>1, <3>1, BodyIs
    <2>2. tokens[pos + 2] = pos + 2
      BY <1>1, <2>1
    <2>3. WithFile(c(pos + 2), b, line, pos)
      <3> HIDE DEF b
      <3> QED
        BY <1>1, <1>3 DEF WithFile, Blocks
    <2>4. blocks' = [blocks EXCEPT ![Len(blocks)] = c(pos + 2)]
      BY <1>2, <2>2
    <2> HIDE DEF c
    <2> QED
      BY <1>1, <1>2, <1>4, <2>1, <2>3, <2>4, RedirectParses
  <1>5. pos' \in Nat /\ pos' > pos
    <2>1. pos' = pos + 2
      BY <1>2
    <2> QED
      BY ONLY <1>1, <2>1
  <1>6. WellFormed(line) => pos' <= num /\ ParsedUpTo(blocks', line, pos')
    BY <1>2, <1>4
  <1>7. /\ phase' = phase /\ line' = line /\ num' = num /\ bg_flag' = bg_flag
        /\ tokens' = Overwrite
    BY <1>2
  <1> QED
    BY ONLY <1>0, <1>5, <1>6, <1>7, ParserUnderstands, CommandizeUnderstood

-----------------------------------------------------------------------------
(* The ends of commandize.                                                 *)
LEMMA EndsUnderstood ==
  ASSUME ParserUnderstands, EmptyLine \/ EndCommands \/ NoMemory \/ NextLine
  PROVE  Understood'
  <1> USE DEF ParserUnderstands
  <1>1. CASE EmptyLine
    <2>1. /\ phase = "start" /\ num = 0 /\ phase' = "done"
          /\ blocks' = <<>> /\ line' = line /\ num = Len(line)
          /\ line \in Seq(STRING)
      BY <1>1 DEF EmptyLine, ParserInv, ParserTypeOK, Filled, Understood
    <2>2. line' = <<>>
      BY <2>1
    <2> QED
      BY <2>1, <2>2, EmptyIsIllFormed DEF Understood, ParsedAsMeant
  <1>2. CASE EndCommands
    <2>1. /\ phase = "commandize" /\ pos >= num /\ phase' = "done"
          /\ blocks' = blocks /\ line' = line /\ bg_flag' = bg_flag
          /\ pos \in Nat /\ num \in Nat
          /\ line \in Seq(STRING) /\ blocks \in Seq(Blocks) /\ blocks # <<>>
      BY <1>2 DEF EndCommands, ParserInv, ParserTypeOK, InBounds
    <2>2. /\ line # <<>> /\ (bg_flag <=> line[Len(line)] = "&")
          /\ num = Words(line)
          /\ WellFormed(line) => pos <= num /\ ParsedUpTo(blocks, line, pos)
      BY <2>1 DEF Understood
    <2>3. bg_flag <=> Body(line) # 1 .. Len(line)
      BY <2>1, <2>2, BodyIs
    <2>4. WellFormed(line) => ParsedUpTo(blocks, line, Words(line))
      <3>1. pos <= num => pos = num
        BY <2>1
      <3> QED
        BY <2>2, <3>1
    <2>5. WellFormed(line) =>
            /\ Len(blocks) = Cardinality(StageNumbers(line))
            /\ \A k \in DOMAIN blocks : Means(blocks[k], line, k - 1)
      BY <2>1, <2>4, AllParsed
    <2> QED
      BY <2>1, <2>2, <2>3, <2>5 DEF Understood, ParsedAsMeant
  <1>3. CASE NoMemory \/ NextLine
    BY <1>3 DEF NoMemory, NextLine, Understood, ParsedAsMeant
  <1> QED
    BY <1>1, <1>2, <1>3

(* Every step keeps the invariant.                                         *)
LEMMA UnderstandingKept ==
  ParserUnderstands /\ [ParserNext]_parser_vars => ParserUnderstands'
  <1> SUFFICES ASSUME ParserUnderstands, [ParserNext]_parser_vars
               PROVE  ParserUnderstands'
    OBVIOUS
  <1>1. ParserInv'
    BY ParserStep DEF ParserUnderstands
  <1>2. Understood'
    <2>1. CASE UNCHANGED parser_vars
      BY <2>1 DEF ParserUnderstands, Understood, ParsedAsMeant, parser_vars
    <2>2. CASE ParserNext
      BY <2>1, <2>2, TokensUnderstood, StartUnderstood, RedirectUnderstood,
         PipeUnderstood, ArgumentUnderstood, EndsUnderstood
         DEF ParserNext, Backspace, Exited
    <2> QED
      BY <2>1, <2>2
  <1> QED
    BY <1>1, <1>2 DEF ParserUnderstands

(* "grouping tokens which form a command and linking (piped) commands      *)
(* together" (README): the one pass of commandize gives every well-formed  *)
(* line of any length its meaning, stage by stage: the arguments in their  *)
(* order, the last file of each direction, the flags, the background.      *)
THEOREM LinesAreUnderstood == ParserSpec => []ParsedAsMeant
  <1>1. ParserInit => ParserUnderstands
    BY ParserInitially
       DEF ParserUnderstands, ParserInit, Understood, ParsedAsMeant
  <1>2. ParserUnderstands => ParsedAsMeant
    BY DEF ParserUnderstands, Understood
  <1> QED
    BY <1>1, <1>2, UnderstandingKept, PTL DEF ParserSpec

-----------------------------------------------------------------------------
(* The executor.  What the stage k of line j reads from and writes to when *)
(* it is not redirected.                                                   *)
From(j, k) == IF k = 1 THEN Terminal ELSE ReadEnd(<<j, k - 1>>)
Into(j, k) == IF k = Last(j) THEN Terminal ELSE WriteEnd(<<j, k>>)

Redirected(p, direction, end) ==
  IF direction \in Command(p).redirected THEN AFile ELSE end

(* The descriptors of p are these.                                         *)
HasFds(p, in, out, fd0, fd1) ==
  /\ proc[p].fd["stdin"] = in /\ proc[p].fd["stdout"] = out
  /\ proc[p].fd["fd0"] = fd0 /\ proc[p].fd["fd1"] = fd1

(* Who runs is the leader of a line, which goes through its stages up to   *)
(* the last, or was forked for its stage; it has the descriptors that      *)
(* do_pipe has brought it so far, and has left go of all the others.       *)
InPlace(p) ==
  LET j == p[1]
      k == proc[p].stage
  IN  /\ j \in 1 .. Len(job) /\ k \in 1 .. Last(j)
      /\ At(p, "pipe") =>
           /\ p[2] = 0 /\ k < Last(j)
           /\ HasFds(p, From(j, k), Terminal, Closed, Closed)
      /\ proc[p].at \in {"parent", "child"} =>
           /\ p[2] = (IF At(p, "parent") THEN 0 ELSE k) /\ k < Last(j)
           /\ HasFds(p, From(j, k), Terminal, ReadEnd(<<j, k>>),
                                              WriteEnd(<<j, k>>))
      /\ proc[p].at \in {"execute", "program", "builtin"} =>
           p[2] = IF k = Last(j) THEN 0 ELSE k
      /\ At(p, "execute") => HasFds(p, From(j, k), Into(j, k), Closed, Closed)
      /\ proc[p].at \in {"program", "builtin"} =>
           HasFds(p, Redirected(p, "in", From(j, k)),
                     Redirected(p, "out", Into(j, k)), Closed, Closed)

(* Who does not run has nothing open, and only main's children are left    *)
(* to reap.                                                                *)
InOrder(p) ==
  /\ proc[p].status = "running" <=> proc[p].at # "none"
  /\ IF proc[p].status = "running" THEN InPlace(p)
     ELSE HasFds(p, Closed, Closed, Closed, Closed)
  /\ proc[p].status = "zombie" => p[2] = 0
  /\ proc[p].hand = 1 => proc[p].at \in {"program", "builtin"}

(* A line put into the background may leave a child from its fork on.      *)
InBackground == {j \in 1 .. Len(job) : job[j].background}

Owed == IF shell = "fork" /\ job[Current].background THEN 1 ELSE 0

Waits ==
  /\ shell \in {"fork", "wait"} => job # <<>>
  /\ Cardinality(Unreaped) + Owed <=
       Cardinality(InBackground) + (IF shell = "wait" THEN 1 ELSE 0)
  /\ shell = "wait" => Unreaped # {}

ShellInv == /\ TypeOK /\ Waits
            /\ \A p \in Pids : InOrder(p)
-----------------------------------------------------------------------------
(* The ends of pipes, the terminal and a file are told apart.              *)
LEMMA EndsApart ==
  /\ Terminal # AFile /\ Terminal # Closed /\ AFile # Closed
  /\ \A q : /\ ReadEnd(q) \notin {Terminal, AFile, Closed}
            /\ WriteEnd(q) \notin {Terminal, AFile, Closed}
  /\ \A q, r : /\ ReadEnd(q) # WriteEnd(r)
               /\ ReadEnd(q) = ReadEnd(r) => q = r
               /\ WriteEnd(q) = WriteEnd(r) => q = r
  <1>1. /\ Terminal[1] = "terminal" /\ AFile[1] = "file"
        /\ Closed[1] = "closed"
        /\ \A q : /\ ReadEnd(q)[1] = "read" /\ ReadEnd(q)[2] = q
                  /\ WriteEnd(q)[1] = "write" /\ WriteEnd(q)[2] = q
    BY DEF Terminal, AFile, Closed, ReadEnd, WriteEnd
  <1> QED
    BY <1>1

(* And are all the ends there are.                                         *)
LEMMA EndsThere ==
  /\ Terminal \in Ends /\ AFile \in Ends /\ Closed \in Ends
  /\ \A q \in Pipes : ReadEnd(q) \in Ends /\ WriteEnd(q) \in Ends
  BY DEF Ends

Processes == [status : {"none", "running", "zombie", "reaped"},
              at : {"none", "pipe", "child", "parent", "execute",
                    "program", "builtin"},
              stage : 0 .. MaxStages, fd : [Fds -> Ends],
              input : 0 .. Input, hand : {0, 1}]

(* A line that was read has stages, and not too many.                      *)
LEMMA LineOf ==
  ASSUME job \in Seq(Lines), Len(job) <= MaxJobs, NEW j \in 1 .. Len(job)
  PROVE  /\ j \in Jobs /\ Last(j) \in 1 .. MaxStages
         /\ job[j].background \in BOOLEAN
         /\ \A k \in 1 .. Last(j) : job[j].stages[k] \in Stages
  <1>1. job[j] \in Lines
    OBVIOUS
  <1>2. /\ job[j].stages \in Seq(Stages) /\ Last(j) \in 1 .. MaxStages
        /\ job[j].background \in BOOLEAN
    BY <1>1, LinesAssumption DEF Last
  <1>3. j \in Jobs
    BY BoundsAssumption DEF Jobs
  <1> QED
    BY <1>2, <1>3 DEF Last

(* Where p is when it runs: its line has its stage, and, if the stage is   *)
(* not the last, the pipe behind it.                                       *)
LEMMA PlaceOf ==
  ASSUME ShellInv, NEW p \in Pids, proc[p].at # "none"
  PROVE  /\ proc[p].status = "running" /\ InPlace(p)
         /\ p[1] \in Jobs /\ p[1] \in 1 .. Len(job)
         /\ Last(p[1]) \in 1 .. MaxStages
         /\ proc[p].stage \in 1 .. Last(p[1])
         /\ proc[p].stage < Last(p[1]) => <<p[1], proc[p].stage>> \in Pipes
         /\ Command(p) \in Stages
  <1>1. InOrder(p) /\ proc[p].status = "running" /\ InPlace(p)
    BY DEF ShellInv, InOrder
  <1>2. p[1] \in 1 .. Len(job) /\ proc[p].stage \in 1 .. Last(p[1])
    BY <1>1 DEF InPlace
  <1>3. /\ p[1] \in Jobs /\ Last(p[1]) \in 1 .. MaxStages
        /\ \A k \in 1 .. Last(p[1]) : job[p[1]].stages[k] \in Stages
    BY <1>2, LineOf DEF ShellInv, TypeOK
  <1>4. Command(p) \in Stages
    BY <1>2, <1>3 DEF Command
  <1>5. proc[p].stage < Last(p[1]) => proc[p].stage \in 1 .. MaxStages - 1
    BY <1>2, <1>3, BoundsAssumption
  <1>6. proc[p].stage < Last(p[1]) => <<p[1], proc[p].stage>> \in Pipes
    BY <1>3, <1>5 DEF Pipes
  <1> QED
    BY <1>1, <1>2, <1>3, <1>4, <1>6

(* Who is not touched stays in order, whatever lines are read.             *)
LEMMA InOrderKept ==
  ASSUME NEW q \in Pids, InOrder(q), proc'[q] = proc[q],
         job \in Seq(Lines), job' \in Seq(Lines), Len(job) <= Len(job'),
         \A j \in 1 .. Len(job) : job'[j] = job[j]
  PROVE  InOrder(q)'
  <1>1. CASE proc[q].status = "running"
    <2>1. q[1] \in 1 .. Len(job) /\ InPlace(q)
      BY <1>1 DEF InOrder, InPlace
    <2>2. q[1] \in 1 .. Len(job') /\ job'[q[1]] = job[q[1]]
      BY <2>1
    <2>3. InPlace(q)'
      BY <2>1, <2>2
         DEF InPlace, HasFds, Redirected, Command, From, Into, Last, At
    <2> QED
      BY <1>1, <2>3 DEF InOrder
  <1>2. CASE proc[q].status # "running"
    BY <1>2 DEF InOrder, HasFds
  <1> QED
    BY <1>1, <1>2

(* Who has started and not been reaped.                                    *)
Left(r) == r.status \in {"running", "zombie"}

(* A process that leaves all in order, and reaps no child of main's, keeps *)
(* the invariant.                                                          *)
LEMMA ProcessesKeep ==
  ASSUME ShellInv, UNCHANGED <<shell, job>>, proc' \in [Pids -> Processes],
         content' \in [Pipes -> 0 .. PipeSize],
         \A q \in Pids : proc'[q] = proc[q] \/ InOrder(q)',
         \A q \in Pids : q[2] = 0 => (Left(proc'[q]) <=> Left(proc[q]))
  PROVE  ShellInv'
  <1>1. TypeOK'
    BY DEF ShellInv, TypeOK, Processes
  <1>2. job \in Seq(Lines) /\ job' = job
    BY DEF ShellInv, TypeOK
  <1>3. \A q \in Pids : InOrder(q)'
    BY <1>2, InOrderKept DEF ShellInv
  <1>4. \A j \in Jobs : Leader(j) \in Pids /\ Leader(j)[2] = 0
    BY BoundsAssumption DEF Pids, Leader
  <1>5. Unreaped' = Unreaped
    BY <1>4 DEF Unreaped, Left
  <1>6. Waits'
    BY <1>2, <1>5 DEF ShellInv, Waits, Owed, InBackground, Current
  <1> QED
    BY <1>1, <1>3, <1>6 DEF ShellInv

(* One that runs does, if it becomes another that is in order.             *)
LEMMA OneChanges ==
  ASSUME ShellInv, UNCHANGED <<shell, job>>,
         NEW p \in Pids, proc[p].at # "none",
         NEW r \in Processes, proc' = [proc EXCEPT ![p] = r],
         p[2] = 0 => Left(r), InOrder(p)',
         content' \in [Pipes -> 0 .. PipeSize]
  PROVE  ShellInv'
  <1>1. proc \in [Pids -> Processes]
    BY DEF ShellInv, TypeOK, Processes
  <1>2. /\ proc' \in [Pids -> Processes] /\ proc'[p] = r
        /\ \A q \in Pids : q # p => proc'[q] = proc[q]
    BY <1>1
  <1>3. Left(proc[p])
    BY PlaceOf DEF Left
  <1> QED
    BY <1>2, <1>3, ProcessesKeep

(* A process ends, whatever it has written to a pipe before.               *)
LEMMA EndKeeps ==
  ASSUME ShellInv, UNCHANGED <<shell, job>>,
         NEW p \in Pids, proc[p].at # "none",
         proc' = [proc EXCEPT ![p] = Ended(p)],
         content' \in [Pipes -> 0 .. PipeSize]
  PROVE  ShellInv'
  <1> DEFINE r == Ended(p)
  <1>1. proc \in [Pids -> Processes]
    BY DEF ShellInv, TypeOK, Processes
  <1>2. NoFds \in [Fds -> Ends] /\ \A f \in Fds : NoFds[f] = Closed
    BY EndsThere DEF NoFds
  <1>3. /\ r \in Processes
        /\ r.status = IF p[2] = 0 THEN "zombie" ELSE "reaped"
        /\ r.at = "none" /\ r.fd = NoFds /\ r.hand = 0
    BY <1>1, <1>2 DEF Ended, Processes
  <1> HIDE DEF r
  <1>4. proc' = [proc EXCEPT ![p] = r]
    BY DEF r
  <1>5. proc'[p] = r
    BY <1>1, <1>4
  <1>6. InOrder(p)'
    BY <1>2, <1>3, <1>5 DEF InOrder, HasFds, Fds
  <1> QED
    BY <1>3, <1>4, <1>6, OneChanges DEF Left

(* exit, or the end by a signal.                                           *)
LEMMA ExitKeeps ==
  ASSUME ShellInv, UNCHANGED <<shell, job>>,
         NEW p \in Pids, proc[p].at # "none", Exit(p)
  PROVE  ShellInv'
  BY EndKeeps DEF Exit, ShellInv, TypeOK

(* do_pipe makes a pipe, and whoever holds both its ends: the leader and   *)
(* the stage it has forked.                                                *)
LEMMA PipedFds ==
  ASSUME ShellInv, NEW p \in Pids, At(p, "pipe")
  PROVE  LET k == proc[p].stage
         IN  /\ Piped(p) \in [Fds -> Ends]
             /\ Piped(p)["stdin"] = From(p[1], k)
             /\ Piped(p)["stdout"] = Terminal
             /\ Piped(p)["fd0"] = ReadEnd(<<p[1], k>>)
             /\ Piped(p)["fd1"] = WriteEnd(<<p[1], k>>)
  <1> DEFINE k == proc[p].stage
             q == <<p[1], k>>
  <1>1. /\ InPlace(p) /\ (k < Last(p[1]) => q \in Pipes)
    BY PlaceOf DEF At
  <1>2. HasFds(p, From(p[1], k), Terminal, Closed, Closed) /\ k < Last(p[1])
    BY <1>1 DEF InPlace
  <1>3. ReadEnd(q) \in Ends /\ WriteEnd(q) \in Ends
    BY <1>1, <1>2, EndsThere
  <1>4. proc[p].fd \in [Fds -> Ends]
    BY DEF ShellInv, TypeOK
  <1>5. Piped(p) = [proc[p].fd EXCEPT !["fd0"] = ReadEnd(q),
                                      !["fd1"] = WriteEnd(q)]
    BY DEF Piped
  <1> HIDE DEF q
  <1>6. /\ Piped(p) \in [Fds -> Ends]
        /\ Piped(p)["stdin"] = proc[p].fd["stdin"]
        /\ Piped(p)["stdout"] = proc[p].fd["stdout"]
        /\ Piped(p)["fd0"] = ReadEnd(q) /\ Piped(p)["fd1"] = WriteEnd(q)
    BY <1>3, <1>4, <1>5 DEF Fds
  <1> QED
    BY <1>2, <1>6 DEF HasFds, q

(* The stage is forked, or the fork fails.                                 *)
LEMMA ForkStageKeeps ==
  ASSUME ShellInv, UNCHANGED <<shell, job>>, NEW p \in Pids,
         ForkStage(p) \/ ForkStageFails(p)
  PROVE  ShellInv'
  <1> DEFINE k == proc[p].stage
             r == [proc[p] EXCEPT !.at = "parent", !.fd = Piped(p)]
             s == Started(k, "child", Piped(p))
  <1>0. /\ At(p, "pipe") /\ content' = content
        /\ proc' = [proc EXCEPT ![p].at = "parent", ![p].fd = Piped(p)]
           \/ proc' = [proc EXCEPT ![p].at = "parent", ![p].fd = Piped(p),
                         ![<<p[1], k>>] = s]
    BY DEF ForkStage, ForkStageFails
  <1>1. /\ proc \in [Pids -> Processes] /\ content \in [Pipes -> 0 .. PipeSize]
        /\ job \in Seq(Lines) /\ Len(job) <= MaxJobs
    BY DEF ShellInv, TypeOK, Processes
  <1>2. /\ InPlace(p) /\ proc[p].status = "running" /\ p[1] \in 1 .. Len(job)
        /\ k \in 1 .. Last(p[1]) /\ Last(p[1]) \in 1 .. MaxStages
        /\ p[1] \in Jobs
    BY <1>0, PlaceOf DEF At
  <1>3. p[2] = 0 /\ k < Last(p[1])
    BY <1>0, <1>2 DEF InPlace
  <1>4. PICK c \in Pids : /\ c = <<p[1], k>>
                          /\ c # p /\ c[1] = p[1] /\ c[2] = k
    <2>1. <<p[1], k>> \in Pids
      BY <1>2, <1>3, BoundsAssumption DEF Pids
    <2> QED
      BY <1>2, <1>3, <2>1
  <1>5. /\ Piped(p) \in [Fds -> Ends]
        /\ Piped(p)["stdin"] = From(p[1], k)
        /\ Piped(p)["stdout"] = Terminal
        /\ Piped(p)["fd0"] = ReadEnd(<<p[1], k>>)
        /\ Piped(p)["fd1"] = WriteEnd(<<p[1], k>>)
    BY <1>0, PipedFds
  <1>6. /\ r \in Processes /\ r.status = "running" /\ r.at = "parent"
        /\ r.stage = k /\ r.fd = Piped(p) /\ r.hand = proc[p].hand
    BY <1>1, <1>2, <1>5 DEF Processes
  <1>7. /\ s \in Processes /\ s.status = "running" /\ s.at = "child"
        /\ s.stage = k /\ s.fd = Piped(p) /\ s.hand = 0
    BY <1>2, <1>5, BoundsAssumption DEF Processes, Started
  <1> HIDE DEF s
  <1>8. /\ proc' \in [Pids -> Processes] /\ proc'[p] = r
        /\ proc'[c] = proc[c] \/ proc'[c] = s
        /\ \A q \in Pids : q # p /\ q # c => proc'[q] = proc[q]
    <2> HIDE DEF r
    <2>1. [proc EXCEPT ![p].at = "parent", ![p].fd = Piped(p)]
            = [proc EXCEPT ![p] = r]
      BY <1>1 DEF r, Processes
    <2>2. [proc EXCEPT ![p].at = "parent", ![p].fd = Piped(p), ![c] = s]
            = [proc EXCEPT ![p] = r, ![c] = s]
      BY <1>1, <1>4 DEF r, Processes
    <2>3. \/ proc' = [proc EXCEPT ![p] = r]
          \/ proc' = [proc EXCEPT ![p] = r, ![c] = s]
      BY <1>0, <1>4, <2>1, <2>2
    <2>4. CASE proc' = [proc EXCEPT ![p] = r]
      BY <1>1, <1>4, <1>6, <2>4
    <2>5. CASE proc' = [proc EXCEPT ![p] = r, ![c] = s]
      BY <1>1, <1>4, <1>6, <1>7, <2>5
    <2> QED
      BY <2>3, <2>4, <2>5
  <1> HIDE DEF r
  <1>9. proc[p].hand # 1
    BY <1>0 DEF ShellInv, InOrder, At
  <1>10. InOrder(p)'
    <2>1. InPlace(p)'
      BY <1>2, <1>3, <1>5, <1>6, <1>8
         DEF InPlace, HasFds, At, From, Into, Last
    <2> QED
      BY <1>6, <1>8, <1>9, <2>1 DEF InOrder
  <1>11. ASSUME proc'[c] = s PROVE InOrder(c)'
    <2>1. InPlace(c)'
      BY <1>2, <1>3, <1>4, <1>5, <1>7, <1>11
         DEF InPlace, HasFds, At, From, Into, Last
    <2> QED
      BY <1>7, <1>11, <2>1 DEF InOrder
  <1>12. \A q \in Pids : proc'[q] = proc[q] \/ InOrder(q)'
    BY <1>8, <1>10, <1>11
  <1>13. \A q \in Pids : q[2] = 0 => (Left(proc'[q]) <=> Left(proc[q]))
    BY <1>2, <1>4, <1>6, <1>8 DEF Left
  <1> QED
    BY <1>0, <1>1, <1>8, <1>12, <1>13, ProcessesKeep

(* The stage takes its ends of the pipe and closes what it does not need.  *)
LEMMA ChildKeeps ==
  ASSUME ShellInv, UNCHANGED <<shell, job>>, NEW p \in Pids, Child(p)
  PROVE  ShellInv'
  <1> DEFINE k == proc[p].stage
             fds == [proc[p].fd EXCEPT !["stdout"] = proc[p].fd["fd1"],
                                       !["fd0"] = Closed, !["fd1"] = Closed]
             r == [proc[p] EXCEPT !.at = "execute", !.fd = fds]
  <1>1. /\ proc \in [Pids -> Processes] /\ content \in [Pipes -> 0 .. PipeSize]
        /\ job \in Seq(Lines) /\ Len(job) <= MaxJobs
    BY DEF ShellInv, TypeOK, Processes
  <1>2. /\ proc[p].at = "child" /\ content' = content
        /\ proc' = [proc EXCEPT ![p].at = "execute",
                                ![p].fd["stdout"] = proc[p].fd["fd1"],
                                ![p].fd["fd0"] = Closed,
                                ![p].fd["fd1"] = Closed]
    BY DEF Child, At
  <1>3. InPlace(p) /\ proc[p].status = "running" /\ k \in 1 .. Last(p[1])
    BY <1>2, PlaceOf
  <1>4. /\ p[2] = k /\ k < Last(p[1])
        /\ HasFds(p, From(p[1], k), Terminal, ReadEnd(<<p[1], k>>),
                                              WriteEnd(<<p[1], k>>))
    BY <1>2, <1>3 DEF InPlace, At
  <1>5. /\ fds \in [Fds -> Ends] /\ fds["stdin"] = proc[p].fd["stdin"]
        /\ fds["stdout"] = proc[p].fd["fd1"]
        /\ fds["fd0"] = Closed /\ fds["fd1"] = Closed
    BY <1>1, EndsThere DEF Fds, Processes
  <1> HIDE DEF fds
  <1>6. /\ r \in Processes /\ r.status = "running" /\ r.at = "execute"
        /\ r.stage = k /\ r.fd = fds /\ r.hand = proc[p].hand
    BY <1>1, <1>3, <1>5 DEF Processes
  <1>7. proc' = [proc EXCEPT ![p] = r]
    BY <1>1, <1>2 DEF Processes, fds
  <1> HIDE DEF r
  <1>8. proc'[p] = r
    BY <1>1, <1>7
  <1>9. proc[p].hand # 1
    BY <1>2 DEF ShellInv, InOrder
  <1>10. InPlace(p)'
    <2>1. Into(p[1], k) = WriteEnd(<<p[1], k>>)
      BY <1>3, <1>4 DEF Into
    <2>2. HasFds(p, From(p[1], k), Into(p[1], k), Closed, Closed)'
      BY <1>4, <1>5, <1>6, <1>8, <2>1 DEF HasFds, From, Into, Last
    <2> QED
      BY <1>3, <1>4, <1>6, <1>8, <2>2 DEF InPlace, At, Last
  <1>11. InOrder(p)'
    BY <1>6, <1>8, <1>9, <1>10 DEF InOrder
  <1> QED
    BY <1>1, <1>2, <1>6, <1>7, <1>11, OneChanges DEF Left

(* The leader goes on to the next stage, which reads from this one.        *)
LEMMA ParentKeeps ==
  ASSUME ShellInv, UNCHANGED <<shell, job>>, NEW p \in Pids, Parent(p)
  PROVE  ShellInv'
  <1> DEFINE j == p[1]
             fds == [proc[p].fd EXCEPT !["stdin"] = proc[p].fd["fd0"],
                                       !["fd0"] = Closed, !["fd1"] = Closed]
  <1>0. PICK k : k = proc[p].stage
    OBVIOUS
  <1> DEFINE r == [proc[p] EXCEPT !.at = DoPipe(j, k + 1), !.stage = k + 1,
                                  !.fd = fds]
  <1>1. /\ proc \in [Pids -> Processes] /\ content \in [Pipes -> 0 .. PipeSize]
        /\ job \in Seq(Lines) /\ Len(job) <= MaxJobs
    BY DEF ShellInv, TypeOK, Processes
  <1>2. /\ proc[p].at = "parent" /\ content' = content
        /\ proc' = [proc EXCEPT ![p].at = DoPipe(j, k + 1),
                                ![p].stage = @ + 1,
                                ![p].fd["stdin"] = proc[p].fd["fd0"],
                                ![p].fd["fd0"] = Closed,
                                ![p].fd["fd1"] = Closed]
    BY <1>0 DEF Parent, At
  <1>3. /\ InPlace(p) /\ proc[p].status = "running" /\ k \in 1 .. Last(j)
        /\ Last(j) \in 1 .. MaxStages
    BY <1>0, <1>2, PlaceOf
  <1>4. /\ p[2] = 0 /\ k < Last(j) /\ j \in 1 .. Len(job)
        /\ HasFds(p, From(j, k), Terminal, ReadEnd(<<j, k>>),
                                           WriteEnd(<<j, k>>))
    BY <1>0, <1>2, <1>3 DEF InPlace, At
  <1>5. /\ fds \in [Fds -> Ends] /\ fds["stdin"] = proc[p].fd["fd0"]
        /\ fds["stdout"] = proc[p].fd["stdout"]
        /\ fds["fd0"] = Closed /\ fds["fd1"] = Closed
    <2>1. proc[p].fd \in [Fds -> Ends]
      BY <1>1 DEF Processes
    <2> QED
      BY <2>1, EndsThere DEF Fds
  <1> HIDE DEF fds
  <1>6. DoPipe(j, k + 1) = IF k + 1 = Last(j) THEN "execute" ELSE "pipe"
    BY DEF DoPipe
  <1>7. /\ r \in Processes /\ r.status = "running" /\ r.at = DoPipe(j, k + 1)
        /\ r.stage = k + 1 /\ r.fd = fds /\ r.hand = proc[p].hand
    <2>1. k + 1 \in 0 .. MaxStages
      BY <1>3, <1>4, BoundsAssumption
    <2>2. DoPipe(j, k + 1) \in {"pipe", "execute"}
      BY <1>6
    <2> QED
      BY <1>1, <1>3, <1>5, <2>1, <2>2 DEF Processes
  <1>8. proc' = [proc EXCEPT ![p] = r]
    <2>1. PICK d, n : d = DoPipe(j, k + 1) /\ n = k + 1
      OBVIOUS
    <2>2. proc' = [proc EXCEPT ![p].at = d, ![p].stage = n,
                               ![p].fd["stdin"] = proc[p].fd["fd0"],
                               ![p].fd["fd0"] = Closed,
                               ![p].fd["fd1"] = Closed]
      BY <1>0, <1>2, <2>1
    <2>3. r = [proc[p] EXCEPT !.at = d, !.stage = n, !.fd = fds]
      BY <2>1
    <2> HIDE DEF r
    <2> DEFINE x == [proc EXCEPT ![p].at = d, ![p].stage = n]
    <2>4. proc' = [x EXCEPT ![p].fd["stdin"] = proc[p].fd["fd0"],
                            ![p].fd["fd0"] = Closed, ![p].fd["fd1"] = Closed]
      BY <2>2
    <2>5. x = [proc EXCEPT ![p] = [proc[p] EXCEPT !.at = d, !.stage = n]]
      BY <1>1 DEF Processes
    <2> HIDE DEF x
    <2>6. x[p] = [proc[p] EXCEPT !.at = d, !.stage = n] /\ x[p].fd = proc[p].fd
      BY <1>1, <2>5 DEF Processes
    <2>7. proc' = [x EXCEPT ![p] = [x[p] EXCEPT !.fd = fds]]
      <3>1. n \in 0 .. MaxStages /\ d \in {"pipe", "execute"}
        BY <1>3, <1>4, <1>6, <2>1, BoundsAssumption
      <3>2. x \in [Pids -> Processes]
        <4>1. [proc[p] EXCEPT !.at = d, !.stage = n] \in Processes
          BY <1>1, <3>1 DEF Processes
        <4> QED
          BY <1>1, <2>5, <4>1
      <3> DEFINE g == [x[p].fd EXCEPT !["stdin"] = proc[p].fd["fd0"],
                                     !["fd0"] = Closed, !["fd1"] = Closed]
      <3>3. proc' = [x EXCEPT ![p] = [x[p] EXCEPT !.fd = g]]
        BY <2>4, <3>2 DEF Processes
      <3>4. g = fds
        BY <2>6 DEF fds
      <3> QED
        BY <3>3, <3>4
    <2>8. [x[p] EXCEPT !.fd = fds] = r
      BY <1>1, <2>3, <2>6 DEF Processes
    <2> QED
      BY <1>1, <2>5, <2>7, <2>8
  <1> HIDE DEF r
  <1>9. proc'[p] = r
    BY <1>1, <1>8
  <1>10. proc[p].hand # 1
    BY <1>2 DEF ShellInv, InOrder
  <1>11. InPlace(p)'
    <2>1. From(j, k + 1) = ReadEnd(<<j, k>>)
      BY <1>3 DEF From
    <2>2. k + 1 = Last(j) => Into(j, k + 1) = Terminal
      BY DEF Into
    <2>3. HasFds(p, From(j, k + 1), Terminal, Closed, Closed)'
      BY <1>4, <1>5, <1>7, <1>9, <2>1 DEF HasFds, From
    <2>4. /\ Last(j)' = Last(j) /\ Len(job') = Len(job)
          /\ From(j, k + 1)' = From(j, k + 1)
          /\ Into(j, k + 1)' = Into(j, k + 1)
      BY DEF Last, From, Into
    <2>5. proc'[p].stage = k + 1 /\ k + 1 \in 1 .. Last(j)
      BY <1>3, <1>4, <1>7, <1>9
    <2>6. CASE k + 1 = Last(j)
      <3>1. proc'[p].at = "execute" /\ Into(j, k + 1) = Terminal
        BY <1>6, <1>7, <1>9, <2>2, <2>6
      <3> QED
        BY <1>4, <2>3, <2>4, <2>5, <2>6, <3>1 DEF InPlace, At, HasFds
    <2>7. CASE k + 1 # Last(j)
      <3>1. proc'[p].at = "pipe" /\ k + 1 < Last(j)
        BY <1>3, <1>6, <1>7, <1>9, <2>5, <2>7
      <3> QED
        BY <1>4, <2>3, <2>4, <2>5, <3>1 DEF InPlace, At, HasFds
    <2> QED
      BY <2>6, <2>7
  <1>12. InOrder(p)'
    BY <1>6, <1>7, <1>9, <1>10, <1>11 DEF InOrder
  <1> QED
    BY <1>1, <1>2, <1>7, <1>8, <1>12, OneChanges DEF Left

(* The redirections are put in place and the command runs.                 *)
LEMMA ExecuteKeeps ==
  ASSUME ShellInv, UNCHANGED <<shell, job>>, NEW p \in Pids, Execute(p)
  PROVE  ShellInv'
  <1>0. PICK k, c : k = proc[p].stage /\ c = Command(p)
    OBVIOUS
  <1> DEFINE j == p[1]
             in == IF "in" \in c.redirected THEN AFile ELSE proc[p].fd["stdin"]
             out == IF "out" \in c.redirected THEN AFile
                                              ELSE proc[p].fd["stdout"]
             input == IF c.kind = "program" THEN Input ELSE 0
             hand == IF c.kind = "builtin" THEN 1 ELSE 0
             fds == [proc[p].fd EXCEPT !["stdin"] = in, !["stdout"] = out]
             r == [proc[p] EXCEPT !.at = c.kind, !.fd = fds, !.input = input,
                                  !.hand = hand]
  <1>1. /\ proc \in [Pids -> Processes] /\ content \in [Pipes -> 0 .. PipeSize]
        /\ job \in Seq(Lines) /\ Len(job) <= MaxJobs
    BY DEF ShellInv, TypeOK, Processes
  <1>2. /\ proc[p].at = "execute" /\ content' = content /\ c.kind # "unset"
        /\ proc' = [proc EXCEPT ![p].at = c.kind,
                                ![p].fd["stdin"] = in,
                                ![p].fd["stdout"] = out,
                                ![p].input = input, ![p].hand = hand]
    BY <1>0 DEF Execute, At
  <1>3. /\ InPlace(p) /\ proc[p].status = "running" /\ k \in 1 .. Last(j)
        /\ Last(j) \in 1 .. MaxStages /\ j \in 1 .. Len(job)
        /\ c \in Stages
    BY <1>0, <1>2, PlaceOf
  <1>4. /\ p[2] = IF k = Last(j) THEN 0 ELSE k
        /\ HasFds(p, From(j, k), Into(j, k), Closed, Closed)
    BY <1>0, <1>2, <1>3 DEF InPlace, At
  <1>5. c.kind \in {"program", "builtin"} /\ input \in 0 .. Input
    BY <1>2, <1>3, BoundsAssumption DEF Stages, Kinds
  <1>6. hand \in {0, 1}
    OBVIOUS
  <1>7. /\ fds \in [Fds -> Ends] /\ fds["stdin"] = in /\ fds["stdout"] = out
        /\ fds["fd0"] = proc[p].fd["fd0"] /\ fds["fd1"] = proc[p].fd["fd1"]
    <2>1. proc[p].fd \in [Fds -> Ends]
      BY <1>1 DEF Processes
    <2>2. in \in Ends /\ out \in Ends
      BY <2>1, EndsThere DEF Fds
    <2> HIDE DEF in, out
    <2> QED
      BY <2>1, <2>2 DEF Fds
  <1>8. c.kind = proc[p].at \/ c = job[j].stages[k]
    BY <1>0 DEF Command
  <1> HIDE DEF input, hand
  <1>9. r \in Processes
    <2> HIDE DEF fds
    <2> QED
      BY <1>1, <1>3, <1>5, <1>6, <1>7 DEF Processes
  <1>10. proc' = [proc EXCEPT ![p] = r]
    <2> HIDE DEF in, out
    <2> DEFINE x == [proc EXCEPT ![p].at = c.kind, ![p].fd["stdin"] = in,
                                 ![p].fd["stdout"] = out]
               y == [proc[p] EXCEPT !.at = c.kind, !.fd = fds]
    <2>1. proc' = [x EXCEPT ![p].input = input, ![p].hand = hand]
      BY <1>2
    <2>2. x = [proc EXCEPT ![p] = y]
      BY <1>1 DEF Processes
    <2>3. y \in Processes
      BY <1>1, <1>5, <1>7 DEF Processes
    <2>4. r = [y EXCEPT !.input = input, !.hand = hand]
      BY <1>1 DEF Processes
    <2> HIDE DEF x, y, r
    <2>5. x \in [Pids -> Processes] /\ x[p] = y
      BY <1>1, <2>2, <2>3
    <2>6. proc' = [x EXCEPT ![p] = [y EXCEPT !.input = input, !.hand = hand]]
      BY <2>1, <2>5 DEF Processes
    <2> QED
      BY <1>1, <2>2, <2>4, <2>6
  <1>11. /\ r.status = "running" /\ r.at = c.kind /\ r.stage = k
         /\ r.fd = fds /\ r.hand = hand
    <2> HIDE DEF fds
    <2> QED
      BY <1>0, <1>1, <1>3 DEF Processes
  <1> HIDE DEF r, fds
  <1>12. proc'[p] = r
    BY <1>1, <1>10
  <1>13. InPlace(p)'
    <2>1. Command(p)' = c
      BY <1>0, <1>11, <1>12 DEF Command
    <2>2. /\ in = IF "in" \in c.redirected THEN AFile ELSE From(j, k)
          /\ out = IF "out" \in c.redirected THEN AFile ELSE Into(j, k)
          /\ fds["fd0"] = Closed /\ fds["fd1"] = Closed
      BY <1>4, <1>7 DEF HasFds
    <2> HIDE DEF in, out
    <2>3. HasFds(p, Redirected(p, "in", From(j, k)),
                    Redirected(p, "out", Into(j, k)), Closed, Closed)'
      BY <1>7, <1>11, <1>12, <2>1, <2>2
         DEF HasFds, Redirected, From, Into, Last
    <2> QED
      BY <1>3, <1>4, <1>5, <1>11, <1>12, <2>3 DEF InPlace, At, Last
  <1>14. InOrder(p)'
    BY <1>5, <1>11, <1>12, <1>13 DEF InOrder
  <1> QED
    BY <1>1, <1>2, <1>9, <1>10, <1>11, <1>14, OneChanges DEF Left

(* A command reads and writes: its descriptors stay as they are.           *)
LEMMA CommandGoesOn ==
  ASSUME ShellInv, UNCHANGED <<shell, job>>, NEW p \in Pids,
         proc[p].at \in {"program", "builtin"},
         NEW n \in 0 .. Input, NEW h \in {0, 1},
         proc' = [proc EXCEPT ![p] = [proc[p] EXCEPT !.input = n, !.hand = h]],
         content' \in [Pipes -> 0 .. PipeSize]
  PROVE  ShellInv'
  <1> DEFINE r == [proc[p] EXCEPT !.input = n, !.hand = h]
  <1>1. proc \in [Pids -> Processes]
    BY DEF ShellInv, TypeOK, Processes
  <1>2. InPlace(p) /\ proc[p].status = "running" /\ p[1] \in 1 .. Len(job)
    BY PlaceOf
  <1>3. /\ r \in Processes /\ r.status = proc[p].status /\ r.at = proc[p].at
        /\ r.stage = proc[p].stage /\ r.fd = proc[p].fd
    BY <1>1 DEF Processes
  <1>4. proc'[p] = r
    BY <1>1
  <1> HIDE DEF r
  <1>5. InPlace(p)'
    BY <1>2, <1>3, <1>4
       DEF InPlace, HasFds, Redirected, Command, From, Into, Last, At
  <1>6. InOrder(p)'
    BY <1>2, <1>3, <1>4, <1>5 DEF InOrder
  <1> QED
    BY <1>2, <1>3, <1>6, OneChanges DEF Left, r

(* A program reads, and a command writes or is killed.                     *)
LEMMA RunKeeps ==
  ASSUME ShellInv, UNCHANGED <<shell, job>>, NEW p \in Pids,
         run(p) \/ Quit(p)
  PROVE  ShellInv'
  <1>1. /\ proc \in [Pids -> Processes] /\ content \in [Pipes -> 0 .. PipeSize]
        /\ proc[p].input \in 0 .. Input /\ proc[p].hand \in {0, 1}
        /\ proc[p].fd["stdin"] \in Ends /\ proc[p].fd["stdout"] \in Ends
    BY DEF ShellInv, TypeOK, Processes, Fds
  <1>2. proc[p].hand = 1 => proc[p].at \in {"program", "builtin"}
    BY DEF ShellInv, InOrder
  <1>3. CASE ReadPipe(p)
    <2>1. content' = [content EXCEPT ![Stdin(p)[2]] = @ - 1]
      BY <1>3 DEF ReadPipe
    <2>2. content[Stdin(p)[2]] > 0 /\ Stdin(p)[2] \in Pipes
      <3>1. Stdin(p) \in Ends /\ Stdin(p)[1] = "read"
        BY <1>1, <1>3 DEF ReadPipe, Stdin, FromPipe
      <3>2. Stdin(p) \in {ReadEnd(q) : q \in Pipes}
        BY <3>1 DEF Ends, Terminal, AFile, Closed, WriteEnd
      <3> QED
        BY <1>3, <3>2 DEF ReadPipe, ReadEnd
    <2>3. content' \in [Pipes -> 0 .. PipeSize]
      BY <1>1, <2>1, <2>2, BoundsAssumption
    <2>4. /\ proc[p].at = "program"
          /\ proc' = [proc EXCEPT ![p] =
                        [proc[p] EXCEPT !.input = proc[p].input, !.hand = 1]]
      BY <1>1, <1>3 DEF ReadPipe, Reads, At, Processes
    <2> QED
      BY <1>1, <2>3, <2>4, CommandGoesOn
  <1>4. CASE ReadInput(p)
    <2>1. /\ proc[p].at = "program" /\ proc[p].input - 1 \in 0 .. Input
          /\ content' = content
      BY <1>1, <1>4, BoundsAssumption DEF ReadInput, Reads, At
    <2>2. proc' = [proc EXCEPT ![p] = [proc[p] EXCEPT
                                         !.input = proc[p].input - 1,
                                         !.hand = 1]]
      BY <1>1, <1>4 DEF ReadInput, Processes
    <2> QED
      BY <1>1, <2>1, <2>2, CommandGoesOn
  <1>5. CASE EndOfFile(p) \/ BrokenPipe(p) \/ Quit(p)
    <2>1. Exit(p) /\ proc[p].at # "none"
      BY <1>2, <1>5 DEF EndOfFile, BrokenPipe, Quit, Reads, At
    <2> QED
      BY <2>1, ExitKeeps
  <1>6. CASE WritePipe(p) \/ WriteOut(p)
    <2>1. content' \in [Pipes -> 0 .. PipeSize]
      <3>1. CASE WriteOut(p)
        BY <1>1, <3>1 DEF WriteOut
      <3>2. CASE WritePipe(p)
        <4>1. Stdout(p) \in Ends /\ Stdout(p)[1] = "write"
          BY <1>1, <3>2 DEF WritePipe, Stdout, ToPipe
        <4>2. Stdout(p) \in {WriteEnd(q) : q \in Pipes}
          BY <4>1 DEF Ends, Terminal, AFile, Closed, ReadEnd
        <4>3. Stdout(p)[2] \in Pipes
          BY <4>2 DEF WriteEnd
        <4>4. /\ content[Stdout(p)[2]] < PipeSize
              /\ content' = [content EXCEPT ![Stdout(p)[2]] = @ + 1]
          BY <3>2 DEF WritePipe
        <4> QED
          BY <1>1, <4>3, <4>4, BoundsAssumption
      <3> QED
        BY <1>6, <3>1, <3>2
    <2>2. /\ proc' = [proc EXCEPT ![p] = Wrote(p)]
          /\ proc[p].at \in {"program", "builtin"}
      BY <1>2, <1>6 DEF WritePipe, WriteOut
    <2>3. CASE proc[p].at = "program"
      <3>1. Wrote(p) = [proc[p] EXCEPT !.input = proc[p].input, !.hand = 0]
        BY <1>1, <2>3 DEF Wrote, At, Processes
      <3> QED
        BY <1>1, <2>1, <2>2, <3>1, CommandGoesOn
    <2>4. CASE proc[p].at = "builtin"
      <3>1. proc' = [proc EXCEPT ![p] = Ended(p)]
        BY <2>2, <2>4 DEF Wrote, At
      <3> QED
        BY <2>1, <2>2, <3>1, EndKeeps
    <2> QED
      BY <2>2, <2>3, <2>4
  <1> QED
    BY <1>3, <1>4, <1>5, <1>6 DEF run

-----------------------------------------------------------------------------
(* The children main has are finitely many, one of a line.                 *)
LEMMA UnreapedFinite ==
  ASSUME job \in Seq(Lines), Len(job) <= MaxJobs
  PROVE  /\ IsFiniteSet(Unreaped) /\ Cardinality(Unreaped) \in Nat
         /\ IsFiniteSet(InBackground) /\ Cardinality(InBackground) \in Nat
         /\ Unreaped \subseteq Jobs
  <1>1. IsFiniteSet(Jobs) /\ IsFiniteSet(1 .. Len(job))
    BY FS_Interval, BoundsAssumption DEF Jobs
  <1>2. Unreaped \subseteq Jobs /\ InBackground \subseteq 1 .. Len(job)
    BY DEF Unreaped, InBackground
  <1> QED
    BY <1>1, <1>2, FS_Subset, FS_CardinalityType

(* A zombie is reaped: main has one child less to come back for.           *)
LEMMA ReapKeeps ==
  ASSUME ShellInv, NEW p \in Zombies, Reap(p), shell \in {"poll", "wait"},
         shell' \in {"poll", "prompt"}, UNCHANGED <<job, content>>
  PROVE  ShellInv'
  <1>1. /\ proc \in [Pids -> Processes] /\ job \in Seq(Lines)
        /\ Len(job) <= MaxJobs
    BY DEF ShellInv, TypeOK, Processes
  <1>2. p \in Pids /\ proc[p].status = "zombie" /\ InOrder(p)
    BY DEF Zombies, ShellInv
  <1>3. proc[p].at = "none" /\ p[2] = 0
    BY <1>1, <1>2 DEF InOrder, Processes
  <1>4. PICK j \in Jobs : p = Leader(j)
    BY <1>2, <1>3 DEF Pids, Leader
  <1>5. proc' = [proc EXCEPT ![p] = [proc[p] EXCEPT !.status = "reaped"]]
    BY DEF Reap
  <1> DEFINE r == [proc[p] EXCEPT !.status = "reaped"]
  <1>6. /\ r \in Processes /\ r.status = "reaped" /\ r.at = proc[p].at
        /\ r.fd = proc[p].fd /\ r.hand = proc[p].hand
    BY <1>1, <1>2 DEF Processes
  <1> HIDE DEF r
  <1>7. /\ proc' \in [Pids -> Processes] /\ proc'[p] = r
        /\ \A q \in Pids : q # p => proc'[q] = proc[q]
    BY <1>1, <1>2, <1>5, <1>6 DEF r
  <1>8. TypeOK'
    BY <1>7 DEF ShellInv, TypeOK, Processes
  <1>9. ASSUME NEW q \in Pids PROVE InOrder(q)'
    <2>1. CASE q = p
      BY <1>2, <1>3, <1>6, <1>7, <2>1 DEF InOrder, HasFds
    <2>2. CASE q # p
      BY <1>1, <1>7, <2>2, InOrderKept DEF ShellInv
    <2> QED
      BY <2>1, <2>2
  <1>10. Unreaped' = Unreaped \ {j} /\ j \in Unreaped
    <2>1. \A i \in Jobs : Leader(i) \in Pids /\ (Leader(i) = p <=> i = j)
      BY <1>4, BoundsAssumption DEF Pids, Leader
    <2> QED
      BY <1>2, <1>4, <1>6, <1>7, <2>1 DEF Unreaped
  <1>11. Cardinality(Unreaped') = Cardinality(Unreaped) - 1
    BY <1>1, <1>10, UnreapedFinite, FS_RemoveElement
  <1>12. Cardinality(Unreaped) <= Cardinality(InBackground) + 1
    BY <1>1, UnreapedFinite DEF ShellInv, Waits, Owed
  <1>13. Owed' = 0 /\ InBackground' = InBackground
    BY DEF Owed, InBackground
  <1>14. Waits'
    BY <1>1, <1>11, <1>12, <1>13, UnreapedFinite DEF Waits
  <1> QED
    BY <1>8, <1>9, <1>14 DEF ShellInv

(* main goes on without a child more or less: it waits for nothing, and    *)
(* the line it has not forked leaves none.                                 *)
LEMMA IdleKeeps ==
  ASSUME ShellInv, shell \in {"poll", "prompt", "fork"},
         shell' \in {"poll", "prompt"}, UNCHANGED <<job, proc, content>>
  PROVE  ShellInv'
  <1>1. job \in Seq(Lines) /\ Len(job) <= MaxJobs
    BY DEF ShellInv, TypeOK
  <1>2. TypeOK'
    BY DEF ShellInv, TypeOK
  <1>3. \A q \in Pids : InOrder(q)'
    BY <1>1, InOrderKept DEF ShellInv
  <1>4. /\ Owed' = 0 /\ InBackground' = InBackground /\ Unreaped' = Unreaped
        /\ Owed \in {0, 1}
    BY DEF Owed, InBackground, Unreaped
  <1>5. Waits'
    BY <1>1, <1>4, UnreapedFinite DEF ShellInv, Waits
  <1> QED
    BY <1>2, <1>3, <1>5 DEF ShellInv

(* A line is read.                                                         *)
LEMMA ReadLineKeeps ==
  ASSUME ShellInv, ReadLine
  PROVE  ShellInv'
  <1>1. /\ job \in Seq(Lines) /\ Len(job) < MaxJobs /\ shell = "prompt"
        /\ UNCHANGED <<proc, content>> /\ shell' \in {"fork", "crashed"}
    BY DEF ShellInv, TypeOK, ReadLine
  <1>2. PICK l \in Lines : job' = Append(job, l)
    BY DEF ReadLine
  <1>3. /\ job' \in Seq(Lines) /\ Len(job') = Len(job) + 1
        /\ Len(job') <= MaxJobs /\ job' # <<>>
        /\ \A j \in 1 .. Len(job) : job'[j] = job[j]
        /\ job'[Len(job')] = l /\ Len(job) \in Nat
    BY <1>1, <1>2, BoundsAssumption
  <1>u. /\ IsFiniteSet(Unreaped) /\ Cardinality(Unreaped) \in Nat
        /\ IsFiniteSet(InBackground) /\ Cardinality(InBackground) \in Nat
    BY <1>1, UnreapedFinite, BoundsAssumption
  <1>4. TypeOK'
    BY <1>1, <1>3 DEF ShellInv, TypeOK
  <1>5. \A q \in Pids : InOrder(q)'
    BY <1>1, <1>3, InOrderKept DEF ShellInv
  <1>6. Unreaped' = Unreaped
    BY <1>1 DEF Unreaped
  <1>7. /\ InBackground \subseteq 1 .. Len(job)
        /\ InBackground' = IF l.background
                           THEN InBackground \cup {Len(job) + 1}
                           ELSE InBackground
    BY <1>3 DEF InBackground
  <1>8. Cardinality(InBackground') = Cardinality(InBackground)
                                       + IF l.background THEN 1 ELSE 0
    <2>1. Len(job) + 1 \notin InBackground
      BY <1>3, <1>7
    <2>2. Cardinality(InBackground \cup {Len(job) + 1})
            = Cardinality(InBackground) + 1
      BY <1>u, <2>1, FS_AddElement
    <2> QED
      BY <1>u, <1>7, <2>2
  <1>9. Owed' <= IF l.background THEN 1 ELSE 0
    BY <1>3 DEF Owed, Current
  <1>10. Cardinality(Unreaped) <= Cardinality(InBackground)
    BY <1>1, <1>u DEF ShellInv, Waits, Owed
  <1>11. Owed' \in {0, 1}
    BY DEF Owed
  <1>12. Waits'
    BY <1>1, <1>3, <1>6, <1>8, <1>9, <1>10, <1>11, <1>u DEF Waits
  <1> QED
    BY <1>4, <1>5, <1>12 DEF ShellInv

(* A line is forked, and waited for unless it is in the background.        *)
LEMMA ForkJobKeeps ==
  ASSUME ShellInv, ForkJob
  PROVE  ShellInv'
  <1>0. PICK j : j = Len(job)
    OBVIOUS
  <1> DEFINE p == Leader(j)
             r == Started(1, DoPipe(j, 1), ShellFds)
  <1>1. /\ proc \in [Pids -> Processes] /\ job \in Seq(Lines)
        /\ Len(job) <= MaxJobs /\ shell = "fork" /\ job # <<>>
        /\ UNCHANGED <<job, content>>
        /\ proc' = [proc EXCEPT ![p] = r]
        /\ shell' = IF job[j].background THEN "poll" ELSE "wait"
    BY <1>0 DEF ShellInv, TypeOK, Processes, Waits, ForkJob, Current
  <1>2. /\ j \in 1 .. Len(job) /\ j \in Jobs /\ Last(j) \in 1 .. MaxStages
        /\ job[j].background \in BOOLEAN
    BY <1>0, <1>1, LineOf
  <1>3. p \in Pids /\ p[1] = j /\ p[2] = 0
    BY <1>2, BoundsAssumption DEF Pids, Leader
  <1>4. /\ ShellFds \in [Fds -> Ends]
        /\ ShellFds["stdin"] = Terminal /\ ShellFds["stdout"] = Terminal
        /\ ShellFds["fd0"] = Closed /\ ShellFds["fd1"] = Closed
    <2>1. NoFds \in [Fds -> Ends] /\ \A f \in Fds : NoFds[f] = Closed
      BY EndsThere DEF NoFds
    <2> QED
      BY <2>1, EndsThere DEF ShellFds, Fds
  <1>5. DoPipe(j, 1) = IF 1 = Last(j) THEN "execute" ELSE "pipe"
    BY DEF DoPipe
  <1>6. /\ r \in Processes /\ r.status = "running" /\ r.at = DoPipe(j, 1)
        /\ r.stage = 1 /\ r.fd = ShellFds /\ r.hand = 0
    BY <1>2, <1>4, <1>5, BoundsAssumption DEF Started, Processes
  <1> HIDE DEF p, r
  <1>7. /\ proc' \in [Pids -> Processes] /\ proc'[p] = r
        /\ \A q \in Pids : q # p => proc'[q] = proc[q]
    BY <1>1, <1>3, <1>6
  <1>8. TypeOK'
    BY <1>1, <1>7 DEF ShellInv, TypeOK, Processes
  <1>9. InOrder(p)'
    <2>1. /\ From(j, 1) = Terminal
          /\ 1 = Last(j) => Into(j, 1) = Terminal
      BY DEF From, Into
    <2>2. InPlace(Leader(j))'
      <3>1. HasFds(p, Terminal, Terminal, Closed, Closed)'
        BY <1>4, <1>6, <1>7 DEF HasFds, p
      <3>2. From(j, 1)' = Terminal /\ (1 = Last(j) => Into(j, 1)' = Terminal)
        BY <1>1, <2>1 DEF From, Into, Last
      <3>3. Last(j)' = Last(j) /\ Len(job') = Len(job)
        BY <1>1 DEF Last
      <3> QED
        BY <1>2, <1>3, <1>5, <1>6, <1>7, <3>1, <3>2, <3>3
           DEF InPlace, At, HasFds, p
    <2> QED
      BY <1>5, <1>6, <1>7, <2>2 DEF InOrder, p
  <1>10. ASSUME NEW q \in Pids PROVE InOrder(q)'
    BY <1>1, <1>7, <1>9, InOrderKept DEF ShellInv, p
  <1>11. Unreaped' = Unreaped \cup {j}
    <2>1. \A i \in Jobs : Leader(i) \in Pids /\ (Leader(i) = p <=> i = j)
      BY <1>2, BoundsAssumption DEF Pids, Leader, p
    <2> QED
      BY <1>2, <1>6, <1>7, <2>1 DEF Unreaped
  <1>12. Cardinality(Unreaped') <= Cardinality(Unreaped) + 1
    <2>1. IsFiniteSet(Unreaped) /\ Cardinality(Unreaped) \in Nat
      BY <1>1, UnreapedFinite
    <2> QED
      BY <1>11, <2>1, FS_AddElement
  <1>13. Cardinality(Unreaped') \in Nat
    BY <1>1, UnreapedFinite, <1>11, FS_AddElement, FS_CardinalityType
  <1>14. /\ Owed' = 0 /\ InBackground' = InBackground
         /\ Owed = IF job[j].background THEN 1 ELSE 0
    BY <1>0, <1>1 DEF Owed, InBackground, Current
  <1>15. Waits'
    BY <1>1, <1>2, <1>11, <1>12, <1>13, <1>14, UnreapedFinite
       DEF ShellInv, Waits
  <1> QED
    BY <1>8, <1>10, <1>15 DEF ShellInv

-----------------------------------------------------------------------------
(* At first nothing runs.                                                  *)
LEMMA ShellInitially == Init => ShellInv
  <1> SUFFICES ASSUME Init PROVE ShellInv
    OBVIOUS
  <1>1. NoFds \in [Fds -> Ends] /\ \A f \in Fds : NoFds[f] = Closed
    BY EndsThere DEF NoFds
  <1>2. \A p \in Pids : proc[p] = NoProcess
    BY DEF Init
  <1>3. /\ NoProcess \in Processes /\ NoProcess.status = "none"
        /\ NoProcess.at = "none" /\ NoProcess.hand = 0 /\ NoProcess.fd = NoFds
    BY <1>1, BoundsAssumption DEF NoProcess, Processes
  <1>4. TypeOK
    BY <1>3, BoundsAssumption DEF Init, TypeOK, Processes
  <1>5. \A p \in Pids : InOrder(p)
    BY <1>1, <1>2, <1>3 DEF InOrder, HasFds, Fds
  <1>6. Waits
    <2>1. Unreaped = {}
      BY <1>2, <1>3, BoundsAssumption DEF Unreaped, Pids, Leader
    <2>2. shell = "poll" /\ job = <<>> /\ Owed = 0 /\ InBackground = {}
      BY DEF Init, Owed, InBackground
    <2> QED
      BY <2>1, <2>2, FS_EmptySet DEF Waits
  <1> QED
    BY <1>4, <1>5, <1>6 DEF ShellInv

(* Every step keeps the invariant.                                         *)
LEMMA ShellStep == ShellInv /\ [Next]_vars => ShellInv'
  <1> SUFFICES ASSUME ShellInv, [Next]_vars PROVE ShellInv'
    OBVIOUS
  <1>1. CASE UNCHANGED vars
    <2>1. /\ UNCHANGED <<shell, job, proc, content>>
          /\ proc \in [Pids -> Processes]
          /\ content \in [Pipes -> 0 .. PipeSize]
      BY <1>1 DEF vars, ShellInv, TypeOK, Processes
    <2> QED
      BY <2>1, ProcessesKeep
  <1>2. CASE main
    <2>1. CASE Poll
      BY <2>1, ReapKeeps, IdleKeeps DEF Poll
    <2>2. CASE NoCommand \/ ForkJobFails
      BY <2>2, IdleKeeps DEF NoCommand, ForkJobFails
    <2>3. CASE Wait
      BY <2>3, ReapKeeps DEF Wait
    <2> QED
      BY <1>2, <2>1, <2>2, <2>3, ReadLineKeeps, ForkJobKeeps DEF main
  <1>3. ASSUME NEW p \in Pids,
               Process(p) \/ (Quit(p) /\ UNCHANGED <<shell, job>>)
        PROVE  ShellInv'
    <2>1. UNCHANGED <<shell, job>>
      BY <1>3 DEF Process
    <2>2. CASE ExecuteFails(p)
      BY <2>1, <2>2, ExitKeeps DEF ExecuteFails, At
    <2> QED
      BY <1>3, <2>1, <2>2, ForkStageKeeps, ChildKeeps, ParentKeeps,
         ExecuteKeeps, RunKeeps DEF Process, do_pipe, execute
  <1> QED
    BY <1>1, <1>2, <1>3 DEF Next, Crashed

(* Each descriptor is where the code has brought it, and nowhere else.     *)
LEMMA InOrderWired == ShellInv => Wired
  <1> SUFFICES ASSUME ShellInv, NEW p \in Pids, NEW n \in 1 .. MaxStages
      PROVE  /\ RunsAt(p, n) =>
                  /\ Stdin(p) = IF "in" \in Command(p).redirected THEN AFile
                                ELSE IF n = 1 THEN Terminal
                                ELSE ReadEnd(<<p[1], n - 1>>)
                  /\ Stdout(p) = IF "out" \in Command(p).redirected THEN AFile
                                 ELSE IF n = Last(p[1]) THEN Terminal
                                 ELSE WriteEnd(<<p[1], n>>)
             /\ \A f \in Fds : \A j \in Jobs :
                  /\ proc[p].fd[f] = WriteEnd(<<j, n>>) =>
                       j = p[1] /\ (Making(p, n) \/ p[2] = n)
                  /\ proc[p].fd[f] = ReadEnd(<<j, n>>) =>
                       j = p[1] /\ (Making(p, n) \/ proc[p].stage = n + 1)
    BY DEF Wired
  <1> DEFINE i == p[1]
             k == proc[p].stage
             A == k \in Nat /\ k >= 1
             R(f) == \/ proc[p].fd[f] \in {Terminal, AFile, Closed}
                     \/ k # 1 /\ proc[p].fd[f] = ReadEnd(<<i, k - 1>>)
                     \/ p[2] = k /\ proc[p].fd[f] = WriteEnd(<<i, k>>)
                     \/ /\ Making(p, k)
                        /\ proc[p].fd[f] \in {ReadEnd(<<i, k>>),
                                              WriteEnd(<<i, k>>)}
  <1>1. InOrder(p)
    BY DEF ShellInv
  <1>2. CASE proc[p].status # "running"
    <2>1. HasFds(p, Closed, Closed, Closed, Closed) /\ proc[p].at = "none"
      BY <1>1, <1>2 DEF InOrder, ShellInv, TypeOK
    <2> QED
      BY <2>1, EndsApart DEF HasFds, Fds, RunsAt
  <1>3. CASE proc[p].status = "running"
    <2>1. InPlace(p) /\ proc[p].at # "none"
      BY <1>1, <1>3 DEF InOrder
    <2>2. A
      <3>1. k \in 1 .. Last(i) /\ Last(i) \in 1 .. MaxStages
        BY <2>1, PlaceOf
      <3> QED
        BY <3>1, BoundsAssumption
    <2>3. ASSUME RunsAt(p, n)
          PROVE  /\ Stdin(p) = Redirected(p, "in", From(i, n))
                 /\ Stdout(p) = Redirected(p, "out", Into(i, n))
      BY <2>1, <2>3 DEF RunsAt, InPlace, HasFds, Stdin, Stdout
    <2>4. proc[p].at \in {"pipe", "child", "parent", "execute", "program",
                          "builtin"}
      BY <2>1 DEF ShellInv, TypeOK
    <2>5. ASSUME NEW f \in Fds PROVE R(f)
      <3>1. CASE At(p, "pipe")
        BY <2>1, <3>1 DEF InPlace, HasFds, From, Fds
      <3>2. CASE proc[p].at \in {"parent", "child"}
        BY <2>1, <3>2 DEF InPlace, HasFds, From, Fds, Making
      <3>3. CASE At(p, "execute")
        BY <2>1, <3>3 DEF InPlace, HasFds, From, Into, Fds, At
      <3>4. CASE proc[p].at \in {"program", "builtin"}
        BY <2>1, <3>4 DEF InPlace, HasFds, From, Into, Redirected, Fds
      <3> QED
        BY <2>4, <3>1, <3>2, <3>3, <3>4 DEF At
    <2>6. ASSUME NEW f \in Fds, NEW j \in Jobs,
                 proc[p].fd[f] = WriteEnd(<<j, n>>)
          PROVE  j = i /\ (Making(p, n) \/ p[2] = n)
      <3>1. /\ WriteEnd(<<j, n>>) = WriteEnd(<<i, k>>)
            /\ p[2] = k \/ Making(p, k)
        BY <2>5, <2>6, EndsApart
      <3>2. <<j, n>> = <<i, k>>
        BY <3>1, EndsApart
      <3> QED
        BY <3>1, <3>2
    <2>7. ASSUME NEW f \in Fds, NEW j \in Jobs,
                 proc[p].fd[f] = ReadEnd(<<j, n>>)
          PROVE  j = i /\ (Making(p, n) \/ k = n + 1)
      <3>1. \/ ReadEnd(<<j, n>>) = ReadEnd(<<i, k>>) /\ Making(p, k)
            \/ ReadEnd(<<j, n>>) = ReadEnd(<<i, k - 1>>)
        BY <2>5, <2>7, EndsApart
      <3>2. \/ <<j, n>> = <<i, k>> /\ Making(p, k)
            \/ <<j, n>> = <<i, k - 1>>
        BY <3>1, EndsApart
      <3> QED
        BY <2>2, <3>2
    <2> QED
      BY <2>3, <2>6, <2>7 DEF From, Into, Redirected
  <1> QED
    BY <1>2, <1>3

(* The inductive invariant of the executor.                                *)
THEOREM ShellInvariance == Spec => []ShellInv
  BY ShellInitially, ShellStep, PTL DEF Spec

(* Every variable of main, the executor and their processes keeps its      *)
(* type: a descriptor is the terminal, a file, or an end of a pipe.        *)
THEOREM ShellTypeCorrect == Spec => []TypeOK
  BY ShellInvariance, PTL DEF ShellInv

(* do_pipe and execute wire a pipeline of any number of stages as the line *)
(* says, and leave no end of a pipe open where it does not belong, however *)
(* the processes are scheduled and whichever forks fail or stages end.     *)
THEOREM StagesAreWired == Spec => []Wired
  <1>1. ShellInv => Wired
    BY InOrderWired
  <1> QED
    BY <1>1, ShellInvariance, PTL

(* main comes back to its prompt with no more children left than lines put *)
(* into the background, though its wait may reap another line's.           *)
THEOREM PromptAlwaysWaits == Spec => []PromptWaits
  <1>1. ShellInv => PromptWaits
    <2> SUFFICES ASSUME ShellInv PROVE PromptWaits
      OBVIOUS
    <2>1. /\ Cardinality(Unreaped) \in Nat /\ Cardinality(InBackground) \in Nat
          /\ Owed \in {0, 1}
      BY UnreapedFinite DEF ShellInv, TypeOK, Owed
    <2>2. InBackground = {j \in 1 .. Len(job) : job[j].background}
      BY DEF InBackground
    <2> HIDE DEF InBackground
    <2> QED
      BY <2>1, <2>2 DEF ShellInv, Waits, PromptWaits
  <1> QED
    BY <1>1, ShellInvariance, PTL

=============================================================================
