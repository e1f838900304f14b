----------------------------- MODULE ShellParser -----------------------------
(***************************************************************************)
(* The shell's parser (user/sh.c), as operators.  A line is a sequence of  *)
(* characters, a pointer into it is an index, and the end es is one past   *)
(* the last character.  All white space is " ".  A word is the pair of its *)
(* first index and the index after its last; nulterminate() writes a NUL   *)
(* at the latter.  A panic() of the parser is the command BAD.             *)
(***************************************************************************)
EXTENDS Integers, Sequences, SequencesExt, FiniteSets, FiniteSetsExt

CONSTANT MAXARGS

Space   == " "
Symbols == {"<", "|", ">", "&", ";", "(", ")"}

(***************************************************************************)
(* Commands.                                                               *)
(***************************************************************************)
execcmd(argv)            == [type |-> "EXEC", argv |-> argv]
redircmd(cmd, file, tok) == [type |-> "REDIR", cmd |-> cmd, file |-> file, tok |-> tok]
pipecmd(left, right)     == [type |-> "PIPE", left |-> left, right |-> right]
listcmd(left, right)     == [type |-> "LIST", left |-> left, right |-> right]
backcmd(cmd)             == [type |-> "BACK", cmd |-> cmd]
BAD                      == [type |-> "BAD"]

(***************************************************************************)
(* Tokens.                                                                 *)
(***************************************************************************)
IsWord(c) == c \notin Symbols \cup {Space}

\* The first index at or after i that is not white space, or not part of a word.
SkipSpace(l, i) == Min({j \in i .. Len(l) : l[j] # Space} \cup {Len(l) + 1})
SkipWord(l, i)  == Min({j \in i .. Len(l) : ~IsWord(l[j])} \cup {Len(l) + 1})

\* peek(): whether one of toks comes next.
PeekAt(l, j, toks) == j <= Len(l) /\ l[j] \in toks
peek(l, i, toks)   == PeekAt(l, SkipSpace(l, i), toks)

\* gettoken(): the token at index i, its first index and the index after it, and where to go on.
TokenEnd(l, q) ==
    CASE q > Len(l) -> q
      [] q < Len(l) /\ l[q] = ">" /\ l[q + 1] = ">" -> q + 2
      [] q <= Len(l) /\ IsWord(l[q]) -> SkipWord(l, q)
      [] OTHER -> q + 1
Token(l, q, eq) == [tok |-> IF q > Len(l) THEN "end" ELSE IF IsWord(l[q]) THEN "a" ELSE IF eq = q + 2 THEN "+" ELSE l[q],
                    word |-> <<q, eq>>, next |-> SkipSpace(l, eq)]
TokenAt(l, q)  == Token(l, q, TokenEnd(l, q))
gettoken(l, i) == TokenAt(l, SkipSpace(l, i))

(***************************************************************************)
(* Parsing.  A result is the command and the index where parsing goes on.  *)
(***************************************************************************)
Parsed(cmd, i) == [cmd |-> cmd, i |-> i]
Panic(i)       == Parsed(BAD, i)
IsBad(r)       == r.cmd = BAD

\* The index after the token at i, which peek() has seen.
Skip(l, i) == gettoken(l, i).next

RECURSIVE parseredirs(_, _), parseargs(_, _, _), parseline(_, _), parsepipe(_, _)

RedirTo(l, r, tok, f) == IF f.tok # "a" THEN Panic(f.next)
                         ELSE parseredirs(l, Parsed(redircmd(r.cmd, f.word, tok), f.next))
RedirOp(l, r, t) == RedirTo(l, r, t.tok, gettoken(l, t.next))
parseredirs(l, r) == IF IsBad(r) \/ ~peek(l, r.i, {"<", ">"}) THEN r ELSE RedirOp(l, r, gettoken(l, r.i))

\* cmd->argv[argc] = q, below the redirections that ret has put around cmd.
RECURSIVE AddArg(_, _)
AddArg(cmd, w) == IF cmd.type = "EXEC" THEN [cmd EXCEPT !.argv = Append(@, w)]
                                       ELSE [cmd EXCEPT !.cmd = AddArg(@, w)]

\* The loop of parseexec().
ArgsFullLate(argc) == argc + 1 > MAXARGS
ArgsFull(argc) == argc + 1 >= MAXARGS
Arg(l, r, argc, t) ==
    IF t.tok = "end" THEN r
    ELSE IF t.tok # "a" \/ ArgsFull(argc) THEN Panic(t.next)
    ELSE parseargs(l, parseredirs(l, Parsed(AddArg(r.cmd, t.word), t.next)), argc + 1)
parseargs(l, r, argc) == IF IsBad(r) \/ peek(l, r.i, {"|", ")", "&", ";"}) THEN r
                         ELSE Arg(l, r, argc, gettoken(l, r.i))

BlockEnd(l, r) == IF IsBad(r) THEN r
                  ELSE IF ~peek(l, r.i, {")"}) THEN Panic(r.i)
                  ELSE parseredirs(l, Parsed(r.cmd, Skip(l, r.i)))
parseblock(l, i) == BlockEnd(l, parseline(l, Skip(l, i)))

parseexec(l, i) == IF peek(l, i, {"("}) THEN parseblock(l, i)
                   ELSE parseargs(l, parseredirs(l, Parsed(execcmd(<< >>), i)), 0)

\* left and what follows its operator, as one command.
Piped(left, s)  == IF IsBad(s) THEN s ELSE Parsed(pipecmd(left, s.cmd), s.i)
Listed(left, s) == IF IsBad(s) THEN s ELSE Parsed(listcmd(left, s.cmd), s.i)

PipeTo(l, r) == IF IsBad(r) \/ ~peek(l, r.i, {"|"}) THEN r
                ELSE Piped(r.cmd, parsepipe(l, Skip(l, r.i)))
parsepipe(l, i) == PipeTo(l, parseexec(l, i))

\* The loop of parseline() over "&".
RECURSIVE parseback(_, _)
parseback(l, r) == IF IsBad(r) \/ ~peek(l, r.i, {"&"}) THEN r
                   ELSE parseback(l, Parsed(backcmd(r.cmd), Skip(l, r.i)))

ListTo(l, r) == IF IsBad(r) \/ ~peek(l, r.i, {";"}) THEN r
                ELSE Listed(r.cmd, parseline(l, Skip(l, r.i)))
parseline(l, i) == ListTo(l, parseback(l, parsepipe(l, i)))

\* nulterminate(): the indices where it writes a NUL.
RECURSIVE nulterminate(_)
nulterminate(cmd) ==
    CASE cmd.type = "EXEC"  -> {cmd.argv[k][2] : k \in 1 .. Len(cmd.argv)}
      [] cmd.type = "REDIR" -> nulterminate(cmd.cmd) \cup {cmd.file[2]}
      [] cmd.type = "BACK"  -> nulterminate(cmd.cmd)
      [] OTHER              -> nulterminate(cmd.left) \cup nulterminate(cmd.right)

\* The C string at index q of the line once it is terminated, beside the index.
Str(l, ends, q) == <<q, SubSeq(l, q, Min({e \in ends : e >= q}) - 1)>>

RECURSIVE Strings(_, _, _)
Strings(l, ends, cmd) ==
    CASE cmd.type = "EXEC"  -> execcmd([k \in 1 .. Len(cmd.argv) |-> Str(l, ends, cmd.argv[k][1])])
      [] cmd.type = "REDIR" -> redircmd(Strings(l, ends, cmd.cmd), Str(l, ends, cmd.file[1]), cmd.tok)
      [] cmd.type = "BACK"  -> backcmd(Strings(l, ends, cmd.cmd))
      [] cmd.type = "PIPE"  -> pipecmd(Strings(l, ends, cmd.left), Strings(l, ends, cmd.right))
      [] OTHER              -> listcmd(Strings(l, ends, cmd.left), Strings(l, ends, cmd.right))

Whole(l, r) == IF IsBad(r) \/ SkipSpace(l, r.i) # Len(l) + 1 THEN BAD
               ELSE Strings(l, nulterminate(r.cmd), r.cmd)
parsecmd(l) == Whole(l, parseline(l, 1))

(***************************************************************************)
(* The grammar, as a reference.  It splits the tokens of a line at its     *)
(* outermost operators:                                                    *)
(*    line   ::=  item | item ; line          item ::=  pipe &*            *)
(*    pipe   ::=  simple | simple "|" pipe                                 *)
(*    simple ::=  ( line ) redir*  |  (word | redir)*                      *)
(***************************************************************************)
\* The tokens: maximal words, symbols, and pairs of ">" counted from the first of a run.
GreaterBefore(l, k) == k - 1 - Max({j \in 1 .. k - 1 : l[j] # ">"} \cup {0})
Starts(l, k) == CASE IsWord(l[k]) -> k = 1 \/ ~IsWord(l[k - 1])
                  [] l[k] = ">"   -> GreaterBefore(l, k) % 2 = 0
                  [] OTHER        -> l[k] # Space
WordAt(l, k) == SubSeq(l, k, Max({j \in k .. Len(l) : \A i \in k .. j : IsWord(l[i])}))
Lexeme(l, k) == IF IsWord(l[k]) THEN <<"a", <<k, WordAt(l, k)>>>>
                ELSE IF l[k] = ">" /\ k < Len(l) /\ l[k + 1] = ">" THEN <<"+", <<k, << >>>>>>
                ELSE <<l[k], <<k, << >>>>>>
Sorted(S)  == [i \in 1 .. Cardinality(S) |-> CHOOSE x \in S : Cardinality({y \in S : y <= x}) = i]
LexemesAt(l, ks) == [i \in 1 .. Len(ks) |-> Lexeme(l, ks[i])]
Lexemes(l) == LexemesAt(l, Sorted({k \in 1 .. Len(l) : Starts(l, k)}))

Depth(ts, k) == Cardinality({i \in 1 .. k : ts[i][1] = "("}) - Cardinality({i \in 1 .. k : ts[i][1] = ")"})
Balanced(ts) == (\A k \in 1 .. Len(ts) : Depth(ts, k) >= 0) /\ Depth(ts, Len(ts)) = 0
TopLevel(ts, op) == {k \in 1 .. Len(ts) : ts[k][1] = op /\ Depth(ts, k) = 0}

RedirOps  == {"<", ">", "+"}
IsRedir(ts, k) == ts[k][1] \in RedirOps
FileAt(ts, k)  == k > 1 /\ IsRedir(ts, k - 1)
SimpleOK(ts) == \A k \in 1 .. Len(ts) : \/ ts[k][1] = "a"
                                        \/ IsRedir(ts, k) /\ k < Len(ts) /\ ts[k + 1][1] = "a"
Words(ts) == {k \in 1 .. Len(ts) : ts[k][1] = "a" /\ ~FileAt(ts, k)}

\* cmd with the redirections of ts around it, the first one innermost.
Redirected(cmd, ts) == FoldLeft(LAMBDA c, k : redircmd(c, ts[k + 1][2], ts[k][1]), cmd,
                                Sorted({k \in 1 .. Len(ts) : IsRedir(ts, k)}))
ArgsOf(ts) == [i \in 1 .. Cardinality(Words(ts)) |-> ts[Sorted(Words(ts))[i]][2]]

From(ts, k) == SubSeq(ts, k, Len(ts))
Upto(ts, k) == SubSeq(ts, 1, k)
One(cmd, make(_))            == IF cmd = BAD THEN BAD ELSE make(cmd)
Two(left, right, make(_, _)) == IF BAD \in {left, right} THEN BAD ELSE make(left, right)

RECURSIVE LineOf(_), ItemOf(_), PipeOf(_)
BlockOf(ts, k) == IF ~SimpleOK(From(ts, k + 1)) \/ Words(From(ts, k + 1)) # {} THEN BAD
                  ELSE One(LineOf(SubSeq(ts, 2, k - 1)), LAMBDA c : Redirected(c, From(ts, k + 1)))
SimpleOf(ts) == IF ts # << >> /\ ts[1][1] = "(" THEN BlockOf(ts, Min(TopLevel(ts, ")")))
                ELSE IF ~SimpleOK(ts) \/ Cardinality(Words(ts)) >= MAXARGS THEN BAD
                ELSE Redirected(execcmd(ArgsOf(ts)), ts)
SplitPipe(ts, k) == Two(SimpleOf(Upto(ts, k - 1)), PipeOf(From(ts, k + 1)), pipecmd)
PipeOf(ts) == IF TopLevel(ts, "|") = {} THEN SimpleOf(ts) ELSE SplitPipe(ts, Min(TopLevel(ts, "|")))
ItemOf(ts) == IF ts = << >> \/ Last(ts)[1] # "&" THEN PipeOf(ts) ELSE One(ItemOf(Front(ts)), backcmd)
SplitList(ts, k) == Two(ItemOf(Upto(ts, k - 1)), LineOf(From(ts, k + 1)), listcmd)
LineOf(ts) == IF TopLevel(ts, ";") = {} THEN ItemOf(ts) ELSE SplitList(ts, Min(TopLevel(ts, ";")))
MeaningOf(ts) == IF Balanced(ts) THEN LineOf(ts) ELSE BAD
Meaning(l) == MeaningOf(Lexemes(l))
=============================================================================
