---------------------------- MODULE SsaSemantics ----------------------------
(***************************************************************************)
(* What a program of SsaProgram does when it is run, as the Go             *)
(* specification has it: the reference the results of the interpreter are  *)
(* compared with.  All phis of a block take their values at once, from the *)
(* edge of the block control came from.                                    *)
(*                                                                         *)
(* An outcome is how the run ended ("return", "panic", "divisionByZero",   *)
(* "assume", or "fuel" if it was still running after so many blocks), the  *)
(* value returned, and the terminal nodes that were executed.              *)
(***************************************************************************)
EXTENDS SsaProgram

Outcome(how, val, seen) == [how |-> how, val |-> val, seen |-> seen]

Operand(G, env, n) == IF G[n].kind = "Const" THEN G[n].value ELSE env[n]

Bind(env, n, v) == [k \in DOMAIN env \cup {n} |-> IF k = n THEN v ELSE env[k]]

Abs(a) == IF a < 0 THEN -a ELSE a

\* Division truncates towards zero, and the remainder goes with it.
GoQuotient(a, b) == IF (a < 0) = (b < 0) THEN Abs(a) \div Abs(b)
                    ELSE -(Abs(a) \div Abs(b))

Apply(op, a, b) ==
    CASE op = "+"  -> a + b
      [] op = "-"  -> a - b
      [] op = "*"  -> a * b
      [] op = "/"  -> GoQuotient(a, b)
      [] op = "%"  -> a - b * GoQuotient(a, b)
      [] op = "<"  -> a < b
      [] op = ">"  -> a > b
      [] op = "<=" -> a <= b
      [] op = ">=" -> a >= b
      [] op = "==" -> a = b
      [] op = "!=" -> a # b

\* The environment after the phis of block b, entered from block from.
AfterPhis(G, b, from, env) ==
    LET phis == {n \in Range(G[b].instr) : G[n].kind = "Phi"}
    IN  [k \in DOMAIN env \cup phis |->
           IF k \in phis THEN Operand(G, env, G[k].edges[from]) ELSE env[k]]

RECURSIVE RunFrom(_, _, _, _, _, _)

\* The run from the k-th instruction of block b on.
RunFrom(G, b, k, env, seen, fuel) ==
    LET n == G[b].instr[k]
        Goto(c) == RunFrom(G, c, 1, AfterPhis(G, c, b, env), seen, fuel - 1)
        Continue(v, more) == RunFrom(G, b, k + 1, Bind(env, n, v), more, fuel)
        ValueOf(m) == Operand(G, env, m)
    IN
    IF fuel = 0 THEN Outcome("fuel", 0, seen)
    ELSE CASE G[n].kind = "Phi" -> RunFrom(G, b, k + 1, env, seen, fuel)
      [] G[n].kind = "BinOp" ->
           IF G[n].op \in {"/", "%"} /\ ValueOf(G[n].y) = 0
           THEN Outcome("divisionByZero", 0, seen)
           ELSE Continue(Apply(G[n].op, ValueOf(G[n].x), ValueOf(G[n].y)), seen)
      [] G[n].kind = "UnOp" -> Continue(-ValueOf(G[n].x), seen)
      [] G[n].kind = "Jump" -> Goto(G[n].successor)
      [] G[n].kind = "If" ->
           IF ValueOf(G[n].cond) THEN Goto(G[n].body) ELSE Goto(G[n].elseBody)
      [] G[n].kind = "Panic" -> Outcome("panic", 0, seen \cup {n})
      [] G[n].kind = "Return" ->
           Outcome("return", IF G[n].res = <<>> THEN 0 ELSE ValueOf(G[n].res[1]),
                   seen \cup {n})
      [] G[n].kind = "Call" ->
           LET f == G[G[n].func]
               args == [m \in Range(f.params) |->
                          ValueOf(G[n].args[CHOOSE j \in DOMAIN f.params :
                                              f.params[j] = m])]
               out == RunFrom(G, f.body, 1, args, seen, fuel - 1)
           IN  IF f.body = NoNode
               THEN IF ValueOf(G[n].args[1]) THEN Continue(TRUE, seen)
                    ELSE Outcome("assume", 0, seen)
               ELSE IF out.how = "return" THEN Continue(out.val, out.seen)
               ELSE out

\* The run of function f on the tuple of arguments i.
Run(G, f, i, fuel) ==
    RunFrom(G, G[f].body, 1,
            [m \in Range(G[f].params) |->
               LET j == CHOOSE k \in DOMAIN G[f].params : G[f].params[k] = m
               IN  ParamValue(G[m], i[j])], {}, fuel)
=============================================================================
