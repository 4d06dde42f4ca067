------------------------------- MODULE Parser -------------------------------
(***************************************************************************)
(* The parser, src/src/parser.c: recursive descent over the tokens.  A     *)
(* parser p holds the tokens left and the tree parsed last.  Diagnostics   *)
(* are abstracted to whether there was one: a parser that has reported one *)
(* has no tokens left, the recovery of the code only finds more of them.   *)
(* A qualified name is one token, its dots left out.                       *)
(***************************************************************************)
EXTENDS Syntax, SequencesExt

Token(k) == [k |-> k, v |-> <<>>]
Separators == {"nl", ";"}
TypeTokens == {"int", "str", "bool"}
Qualified == Builtins \ {"putsc", "putl", "inpt", "clearc"}

Precedence ==
    [op \in Arithmetic \cup Order \cup Equality \cup Logic |->
        CASE op \in {"*", "/", "%"} -> 6
          [] op \in {"+", "-"} -> 5
          [] op \in Order -> 4
          [] op \in Equality -> 3
          [] op = "&&" -> 2
          [] op = "||" -> 1]
Compound == [x \in {"+=", "-=", "*=", "/=", "%="} |->
                CASE x = "+=" -> "+" [] x = "-=" -> "-" [] x = "*=" -> "*"
                  [] x = "/=" -> "/" [] x = "%=" -> "%"]

Parsing(tokens) == [ok |-> TRUE, rest |-> tokens, v |-> None]
Lookahead(p, n) == IF n > Len(p.rest) THEN "eof" ELSE p.rest[n].k
Peek(p) == Lookahead(p, 1)
Spelling(p) == Head(p.rest).v[1]        \* of a name or a number
Give(p, v) == [p EXCEPT !.v = v]
Advance(p) == [p EXCEPT !.rest = Tail(@)]
Error(p) == [ok |-> FALSE, rest |-> <<>>, v |-> None]
Consume(p, k) == IF Peek(p) = k THEN Advance(p) ELSE Error(p)

RECURSIVE SkipAny(_, _)
SkipAny(p, kinds) == IF Peek(p) \in kinds THEN SkipAny(Advance(p), kinds) ELSE p
SkipNewlines(p) == SkipAny(p, {"nl"})
SkipSeparators(p) == SkipAny(p, Separators)

(* The functions call each other, and repeat, through Descend, defined     *)
(* last: what is parsed from p, and what has been read of it so far.       *)
RECURSIVE Descend(_, _, _)
ParseExpression(p) == Descend("binary", p, 1)
Parenthesized(p) ==
    Consume(SkipNewlines(ParseExpression(SkipNewlines(Consume(p, "(")))), ")")

-----------------------------------------------------------------------------
(* Expressions.                                                            *)
ParseArgument(p, named) ==
    LET name == Peek(p) = "name" /\ Lookahead(p, 2) = ":"
        e == ParseExpression(IF name THEN SkipNewlines(Advance(Advance(p))) ELSE p)
    IN  IF ~name /\ named THEN Error(p)     \* no positional after a named one
        ELSE Give(e, Argument(IF name THEN Spelling(p) ELSE "", e.v))

ParseArguments(p, args) ==
    LET a == ParseArgument(SkipNewlines(p), args # <<>> /\ Last(args).p # "")
        b == SkipNewlines(a)
        all == Append(args, a.v)
    IN  IF Peek(b) = "," THEN Descend("arguments", Advance(b), all)
        ELSE Give(Consume(b, ")"), all)

ParseCall(p, f) ==              \* at the "("
    LET a == SkipNewlines(Consume(p, "("))
        b == IF Peek(a) = ")" THEN Give(Advance(a), <<>>) ELSE Descend("arguments", a, <<>>)
    IN  Give(b, Call(f, b.v))

ParseName(p, x) ==
    CASE Peek(p) = "(" -> ParseCall(p, x)
      [] Peek(p) # "(" /\ x \in Qualified -> Error(p)
      [] OTHER -> Give(p, Name(x))

ParsePrimary(p) ==
    CASE Peek(p) = "number" -> Give(Advance(p), Number(Spelling(p)))
      [] Peek(p) = "chars" -> Give(Advance(p), Chars(Head(p.rest).v))
      [] Peek(p) \in {"true", "false"} ->
             Give(Advance(p), Truth(IF Peek(p) = "true" THEN 1 ELSE 0))
      [] Peek(p) = "name" -> ParseName(Advance(p), Spelling(p))
      [] Peek(p) = "(" -> Parenthesized(p)
      [] OTHER -> Error(p)

(* The minus of a number is part of it.                                    *)
ParseUnary(p) ==
    LET e == Descend("unary", SkipNewlines(Advance(p)), None)
    IN  CASE Peek(p) \notin {"-", "!"} -> ParsePrimary(p)
          [] Peek(p) \in {"-", "!"} /\ ~e.ok -> e
          [] Peek(p) = "-" /\ e.ok /\ e.v.k = "lit" /\ e.v.t = "int" ->
                 Give(e, Number(-e.v.v[1]))
          [] OTHER -> Give(e, Unary(Peek(p), e.v))

(* Every operator is left associative.  Faulty: grouped to the right.      *)
Rightward(op) == Precedence[op]
Binding(op) == Precedence[op] + 1

Climb(l, min) ==
    LET op == Peek(l)
        r == Descend("binary", SkipNewlines(Advance(l)), Binding(op))
    IN  IF op \notin DOMAIN Precedence THEN l
        ELSE IF Precedence[op] < min THEN l
        ELSE Descend("climb", Give(r, Binary(op, l.v, r.v)), min)
ParseBinary(p, min) == Climb(ParseUnary(p), min)

-----------------------------------------------------------------------------
(* Statements.                                                             *)
StatementEnd(p) ==
    CASE Peek(p) \in {"}", "eof"} -> p
      [] Peek(p) \in Separators -> SkipSeparators(p)
      [] OTHER -> Error(p)

ParseBlock(p) == Descend("statements", SkipSeparators(Consume(p, "{")), <<>>)

ParseWhile(p) ==
    LET c == Parenthesized(p)
        b == ParseBlock(SkipNewlines(c))
    IN  Give(b, While(c.v, b.v))

ParseBranch(p, branches) ==     \* a condition and its block
    LET c == Parenthesized(p)
        b == ParseBlock(SkipNewlines(c))
    IN  Descend("branches", b, Append(branches, Arm(c.v, b.v)))

(* The separators before an elsif or an else belong to the statement; if   *)
(* there is neither, they do not.                                          *)
ParseBranches(p, branches) ==
    LET q == SkipSeparators(p)
        e == SkipNewlines(Advance(q))
    IN  CASE Peek(q) = "elsif" -> ParseBranch(Advance(q), branches)
          [] Peek(q) = "else" ->
                 IF Peek(e) = "if" THEN ParseBranch(Advance(e), branches)
                 ELSE LET b == ParseBlock(e)
                      IN  Give(b, If(Append(branches, Arm(None, b.v))))
          [] OTHER -> Give(p, If(branches))

ParseVar(p) ==
    LET n == Advance(p)
        e == ParseExpression(SkipNewlines(Advance(Advance(n))))
    IN  CASE Peek(n) # "name" -> Error(p)
          [] Peek(n) = "name" /\ Lookahead(n, 2) = "=" ->
                 Give(e, Var(Peek(p), Spelling(n), e.v))
          [] OTHER -> Give(Advance(n), Var(Peek(p), Spelling(n), None))

(* x op= e is x = x op (e).                                                *)
ParseSimple(p) ==
    LET x == Spelling(p)
        n == Advance(p)
        e == ParseExpression(SkipNewlines(Advance(n)))
        Alone(c) == Give(c, Do(c.v))
    IN  CASE Peek(p) \in TypeTokens -> ParseVar(p)
          [] Peek(p) = "name" /\ Peek(n) = "(" -> Alone(ParseCall(n, x))
          [] Peek(p) = "name" /\ x \notin Qualified /\ Peek(n) = "=" ->
                 Give(e, Assign(x, e.v))
          [] Peek(p) = "name" /\ x \notin Qualified /\ Peek(n) \in DOMAIN Compound ->
                 Give(e, Assign(x, Binary(Compound[Peek(n)], Name(x), e.v)))
          [] OTHER -> Error(p)

(* A clause of a for header, empty when the token that closes it is next.  *)
ParseClause(p, close) ==
    LET One(s) == Give(s, <<s.v>>)
    IN  IF Peek(p) = close THEN Give(p, <<>>) ELSE One(ParseSimple(p))

ParseForBody(s, init, c) ==
    LET b == ParseBlock(SkipNewlines(Consume(SkipNewlines(s), ")")))
    IN  Give(b, For(init, c, s.v, b.v))
ParseForStep(c, init) ==
    ParseForBody(ParseClause(SkipNewlines(Consume(c, ";")), ")"), init, c.v)
ParseForCondition(a, init) ==
    ParseForStep(IF Peek(a) = ";" THEN Give(a, None) ELSE ParseExpression(a), init)
ParseForInit(i) == ParseForCondition(SkipNewlines(Consume(i, ";")), i.v)
ParseFor(p) == ParseForInit(ParseClause(SkipNewlines(Consume(p, "(")), ";"))

ParseCases(p, cases) ==
    LET c == ParseExpression(SkipNewlines(Advance(p)))
        head == IF Peek(p) = "case" THEN c ELSE Give(Advance(p), None)
        b == ParseBlock(SkipNewlines(head))
        again == \E i \in 1 .. Len(cases) : cases[i].c = None
    IN  CASE Peek(p) = "}" -> Give(Advance(p), cases)
          [] Peek(p) = "case" \/ (Peek(p) = "default" /\ ~again) ->
                 Descend("cases", SkipSeparators(b), Append(cases, Arm(head.v, b.v)))
          [] OTHER -> Error(p)

ParseSwitch(p) ==
    LET e == Parenthesized(p)
        b == SkipSeparators(Consume(SkipNewlines(e), "{"))
        c == Descend("cases", b, <<>>)
    IN  Give(c, Switch(e.v, c.v))

ParseReturn(p) ==
    IF Peek(p) \in Separators \cup {"}", "eof"} THEN Give(p, Return(None))
    ELSE LET e == ParseExpression(p) IN Give(e, Return(e.v))

ParseStatement(p) ==
    LET q == Advance(p)
    IN  CASE Peek(p) = "while" -> ParseWhile(q)
          [] Peek(p) = "for" -> ParseFor(q)
          [] Peek(p) = "if" -> ParseBranch(q, <<>>)
          [] Peek(p) = "switch" -> ParseSwitch(q)
          [] Peek(p) = "return" -> StatementEnd(ParseReturn(q))
          [] Peek(p) = "break" -> StatementEnd(Give(q, Break))
          [] Peek(p) = "continue" -> StatementEnd(Give(q, Continue))
          [] OTHER -> StatementEnd(ParseSimple(p))

ParseStatements(p, block) ==
    LET More(s) == Descend("statements", SkipSeparators(s), Append(block, s.v))
    IN  CASE Peek(p) = "eof" -> Error(p)
          [] Peek(p) = "}" -> Give(Advance(p), block)
          [] OTHER -> More(ParseStatement(p))

-----------------------------------------------------------------------------
(* Functions and the begin block.                                          *)
ParseType(p, types) ==
    IF Peek(p) \in types THEN Give(Advance(p), Peek(p)) ELSE Error(p)

ParseParams(p, params) ==
    LET n == SkipNewlines(p)
        typed == Lookahead(n, 2) = ":"
        t == IF typed THEN ParseType(SkipNewlines(Advance(Advance(n))), TypeTokens)
             ELSE Give(Advance(n), "unknown")
        q == SkipNewlines(t)
        all == Append(params, Param(Spelling(n), t.v))
    IN  CASE Peek(n) # "name" -> Error(p)
          [] Peek(n) = "name" /\ Peek(q) = "," -> Descend("params", Advance(q), all)
          [] OTHER -> Give(Consume(q, ")"), all)

(* Both ": type" and "-> type" give the result.                            *)
ParseFunction(p) ==             \* after the optional "static"
    LET n == Consume(Consume(p, "func"), "->")
        Body(c, params, ret) ==
            IF c.ok THEN Give(c, Function(Spelling(n), params, ret, c.v)) ELSE c
        Ret(r, params) == Body(ParseBlock(SkipNewlines(r)), params, r.v)
        Params(b) == Ret(IF Peek(b) \in {":", "->"}
                         THEN ParseType(SkipNewlines(Advance(b)), TypeTokens \cup {"void"})
                         ELSE Give(b, "unknown"), b.v)
        a == SkipNewlines(Consume(Consume(n, "name"), "("))
    IN  Params(IF Peek(a) = ")" THEN Give(Advance(a), <<>>)
               ELSE Descend("params", a, <<>>))

(* parse_program; begins holds the begin block once it is there.           *)
ParseTop(p, m) ==
    LET More(f) == Descend("top", SkipSeparators(f), [m EXCEPT !.funs = Append(@, f.v)])
        b == ParseBlock(SkipNewlines(Advance(p)))
    IN  CASE Peek(p) \in {"func", "static"} ->
                 More(ParseFunction(IF Peek(p) = "static" THEN Advance(p) ELSE p))
          [] Peek(p) = "begin" /\ m.begins = <<>> ->
                 Descend("top", SkipSeparators(b), [m EXCEPT !.begins = <<b.v>>])
          [] Peek(p) = "eof" /\ p.ok /\ m.begins # <<>> ->
                 Give(p, Program(m.funs, m.begins[1]))
          [] OTHER -> Error(p)

Descend(what, p, so) ==
    CASE what = "unary" -> ParseUnary(p)
      [] what = "binary" -> ParseBinary(p, so)
      [] what = "climb" -> Climb(p, so)
      [] what = "arguments" -> ParseArguments(p, so)
      [] what = "statements" -> ParseStatements(p, so)
      [] what = "branches" -> ParseBranches(p, so)
      [] what = "cases" -> ParseCases(p, so)
      [] what = "params" -> ParseParams(p, so)
      [] what = "top" -> ParseTop(p, so)

ParseProgram(tokens) ==
    Descend("top", SkipSeparators(Parsing(tokens)), [funs |-> <<>>, begins |-> <<>>])
=============================================================================
