------------------------------ MODULE Commands ------------------------------
(***************************************************************************)
(* The shell's parser (user/sh.c) and, for comparison, the grammar of its  *)
(* command lines.  A line is a sequence of tokens, as gettoken() cuts it:  *)
(* the symbols and the words.                                              *)
(***************************************************************************)
EXTENDS Integers, Sequences, FiniteSets, SequencesExt, FiniteSetsExt

CONSTANTS Word,         \* the words of command lines
          MAXARGS       \* entries of argv, the terminating 0 included

Redirect == {"<", ">", ">>"}
Symbol == Redirect \cup {"|", "&", ";", "(", ")"}
Token == Word \cup Symbol

-----------------------------------------------------------------------------
(* Commands *)

execcmd(argv) == [type |-> "EXEC", argv |-> argv]
redircmd(cmd, r) == [type |-> "REDIR", cmd |-> cmd, file |-> r.file,
                     mode |-> r.mode, fd |-> r.fd]
pipecmd(left, right) == [type |-> "PIPE", left |-> left, right |-> right]
listcmd(left, right) == [type |-> "LIST", left |-> left, right |-> right]
backcmd(cmd) == [type |-> "BACK", cmd |-> cmd]

(* The cases of parseredirs(): what a redirection opens in place of fd. *)
Redirection(tok, file) ==
    CASE tok = "<" -> [file |-> file, mode |-> "rdonly", fd |-> 0]
      [] tok = ">" -> [file |-> file, mode |-> "trunc", fd |-> 1]
      [] OTHER -> [file |-> file, mode |-> "create", fd |-> 1]

Redirected(cmd, redirs) == FoldLeft(redircmd, cmd, redirs)

-----------------------------------------------------------------------------
(* The parser.  A parse is the command with the tokens that are left;      *)
(* ok is FALSE once it has called panic().                                 *)

Parsed(cmd, rest) == [ok |-> TRUE, cmd |-> cmd, rest |-> rest]
Panicked == [ok |-> FALSE, cmd |-> execcmd(<<>>), rest |-> <<>>]

Peek(s, toks) == s # <<>> /\ Head(s) \in toks

(* The words and the redirections read so far, in an EXEC command that     *)
(* parseredirs() wraps while its arguments are still being added.          *)
Reading(s) == [ok |-> TRUE, argv |-> <<>>, redirs |-> <<>>, rest |-> s]
ReadPanicked == [Reading(<<>>) EXCEPT !.ok = FALSE]

RECURSIVE Parseredirs(_)

Parseredirs(r) ==
    IF ~Peek(r.rest, Redirect) THEN r
    ELSE IF ~Peek(Tail(r.rest), Word) THEN ReadPanicked
    ELSE Parseredirs([r EXCEPT
            !.redirs = Append(@, Redirection(r.rest[1], r.rest[2])),
            !.rest = Tail(Tail(@))])

RECURSIVE Parseargs(_)

Parseargs(r) ==
    IF r.rest = <<>> \/ Peek(r.rest, {"|", ")", "&", ";"}) THEN r
    ELSE IF ~Peek(r.rest, Word) \/ Len(r.argv) + 1 >= MAXARGS
         THEN ReadPanicked
    ELSE Parseargs(Parseredirs([r EXCEPT !.argv = Append(@, Head(r.rest)),
                                         !.rest = Tail(@)]))

ExecOf(r) ==
    [ok |-> r.ok, cmd |-> Redirected(execcmd(r.argv), r.redirs), rest |-> r.rest]

BlockOf(p, r) ==
    [ok |-> r.ok, cmd |-> Redirected(p.cmd, r.redirs), rest |-> r.rest]

(* parseblock(), after parseline() has read what the parentheses hold. *)
Parseblock(p) ==
    IF ~Peek(p.rest, {")"}) THEN Panicked
    ELSE BlockOf(p, Parseredirs(Reading(Tail(p.rest))))

(* The two commands of a list or a pipe, op building the node. *)
Join(op(_, _), p, q) ==
    [ok |-> p.ok /\ q.ok, cmd |-> op(p.cmd, q.cmd), rest |-> q.rest]

RECURSIVE Backs(_)

Backs_Once(p) ==
    IF Peek(p.rest, {"&"}) THEN Parsed(backcmd(p.cmd), Tail(p.rest)) ELSE p

Backs(p) ==
    IF Peek(p.rest, {"&"}) THEN Backs(Parsed(backcmd(p.cmd), Tail(p.rest))) ELSE p

RECURSIVE Parseline(_)
RECURSIVE Parsepipe(_)

Parseexec(s) ==
    IF Peek(s, {"("}) THEN Parseblock(Parseline(Tail(s)))
    ELSE ExecOf(Parseargs(Parseredirs(Reading(s))))

PipeOf(p) ==
    IF Peek(p.rest, {"|"}) THEN Join(pipecmd, p, Parsepipe(Tail(p.rest))) ELSE p

Parsepipe(s) == PipeOf(Parseexec(s))

ListOf(p) ==
    IF Peek(p.rest, {";"}) THEN Join(listcmd, p, Parseline(Tail(p.rest))) ELSE p

Parseline(s) == ListOf(Backs(Parsepipe(s)))

(* parsecmd(): tokens left over are a syntax error. *)
Leftovers(p) == IF p.ok /\ p.rest = <<>> THEN p ELSE Panicked

Parsecmd(s) == Leftovers(Parseline(s))

-----------------------------------------------------------------------------
(* The grammar, by splitting a line at its weakest operator:               *)
(*   line  ::=  back [ ";" line ]         back  ::=  pipe { "&" }          *)
(*   pipe  ::=  block [ "|" pipe ]                                         *)
(*   block ::=  "(" line ")" redirs  |  words and redirs                   *)

Depth(s, i) == Cardinality({j \in 1 .. i - 1 : s[j] = "("})
               - Cardinality({j \in 1 .. i : s[j] = ")"})

Outside(s, tok) == {i \in 1 .. Len(s) : s[i] = tok /\ Depth(s, i) = 0}

Before(s, i) == SubSeq(s, 1, i - 1)
After(s, i) == SubSeq(s, i + 1, Len(s))

(* The redirections of s, in their order, and its other tokens. *)
RedirOps(s) == {i \in 1 .. Len(s) : s[i] \in Redirect}
Names(s) == {i + 1 : i \in RedirOps(s)}
RedirList(s) ==
    LET at == SetToSortSeq(RedirOps(s), <)
    IN  [k \in DOMAIN at |-> Redirection(s[at[k]], s[at[k] + 1])]
Rest(s) == LET at == SetToSortSeq(1 .. Len(s) \ (RedirOps(s) \cup Names(s)), <)
           IN  [k \in DOMAIN at |-> s[at[k]]]

RedirsNamed(s) == \A i \in Names(s) : i <= Len(s) /\ s[i] \in Word

NoCommand == [type |-> "none"]

Both(op(_, _), l, r) == IF NoCommand \in {l, r} THEN NoCommand ELSE op(l, r)

RECURSIVE Grammar(_)

GrammarWords(s) ==
    IF ~RedirsNamed(s) \/ Rest(s) \notin Seq(Word) \/ Len(Rest(s)) >= MAXARGS
    THEN NoCommand
    ELSE Redirected(execcmd(Rest(s)), RedirList(s))

GrammarBlock(s) ==
    IF s = <<>> \/ s[1] # "(" THEN GrammarWords(s)
    ELSE LET close == Outside(s, ")")
             end == Min(close)
             inside == Grammar(SubSeq(s, 2, end - 1))
             redirs == After(s, end)
         IN  IF close = {} \/ inside = NoCommand \/ ~RedirsNamed(redirs)
                \/ Rest(redirs) # <<>>
             THEN NoCommand
             ELSE Redirected(inside, RedirList(redirs))

RECURSIVE GrammarPipe(_)

GrammarPipe(s) ==
    IF Outside(s, "|") = {} THEN GrammarBlock(s)
    ELSE LET i == Min(Outside(s, "|"))
         IN  Both(pipecmd, GrammarBlock(Before(s, i)), GrammarPipe(After(s, i)))

RECURSIVE GrammarBack(_)

GrammarBack(s) ==
    IF s = <<>> \/ s[Len(s)] # "&" THEN GrammarPipe(s)
    ELSE LET c == GrammarBack(Before(s, Len(s)))
         IN  IF c = NoCommand THEN NoCommand ELSE backcmd(c)

Grammar(s) ==
    IF Outside(s, ";") = {} THEN GrammarBack(s)
    ELSE LET i == Min(Outside(s, ";"))
         IN  Both(listcmd, GrammarBack(Before(s, i)), Grammar(After(s, i)))
=============================================================================
