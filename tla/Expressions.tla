---------------------------- MODULE Expressions -----------------------------
(***************************************************************************)
(* eval_expr (ryudb/exec/ops.py), one row at a time: what the Series of an *)
(* expression holds at a row.  Every operation has a column operand; the   *)
(* connectives of nullable Boolean Series are Kleene's (external).         *)
(* Strings, dates, casts and scalar functions are left out.                *)
(***************************************************************************)
EXTENDS Plan

\* A qualified column is the alias-renamed one if the frame has it, else the bare name.
Lookup(c, row) ==
    IF c.table # "" /\ <<c.table, c.name>> \in DOMAIN row THEN row[<<c.table, c.name>>]
    ELSE IF Out(c.name) \in DOMAIN row THEN row[Out(c.name)]
    ELSE Missing

Compare(fn, l, r) ==
    IF l = Null \/ r = Null THEN Null
    ELSE CASE fn = "=" -> l = r
           [] fn = "!=" -> l # r
           [] fn = "<" -> l < r
           [] fn = "<=" -> l <= r
           [] fn = ">" -> l > r
           [] fn = ">=" -> l >= r

\* Truncated modulus: the sign is the dividend's.
Modulus(l, r) == LET m == (IF l < 0 THEN -l ELSE l) % (IF r < 0 THEN -r ELSE r)
                 IN IF l < 0 THEN -m ELSE m
Arith(fn, l, r) ==
    IF l = Null \/ r = Null THEN Null
    ELSE CASE fn = "+" -> l + r
           [] fn = "-" -> l - r
           [] fn = "*" -> l * r
           [] fn = "%" -> Modulus(l, r)

And3(l, r) == IF l = FALSE \/ r = FALSE THEN FALSE ELSE IF Null \in {l, r} THEN Null ELSE TRUE
Not3(v) == IF v = Null THEN Null ELSE ~v
Or3(l, r) == Not3(And3(Not3(l), Not3(r)))

\* _in: isin, then NA for a NULL operand, then the negation.
In(negated, v, values) ==
    LET m == IF v = Null THEN Null ELSE v \in values
    IN IF negated THEN Not3(m) ELSE m

RECURSIVE Eval(_, _)
Eval(e, row) ==
    LET v(i) == Eval(e.args[i], row)
        last == Len(e.args)
        rest == {v(i) : i \in 2..last}
        known == {i \in 1..last : v(i) # Null}
        holds == {i \in 1..((last - 1) \div 2) : v(2 * i - 1) = TRUE}
    IN CASE e.op = "col"      -> Lookup(e, row)
         [] e.op = "lit"      -> e.value
         [] e.op = "compare"  -> Compare(e.fn, v(1), v(2))
         [] e.op = "arith"    -> Arith(e.fn, v(1), v(2))
         [] e.op = "and"      -> And3(v(1), v(2))
         [] e.op = "or"       -> Or3(v(1), v(2))
         [] e.op = "not"      -> Not3(v(1))
         [] e.op = "isnull"   -> (v(1) = Null) # (e.fn = "not")
         [] e.op = "in"       -> In(e.fn = "not", v(1), rest)
         [] e.op = "case"     -> IF holds = {} THEN v(last) ELSE v(2 * Min(holds))
         [] e.op = "coalesce" -> IF known = {} THEN Null ELSE v(Min(known))

\* A row passes a filter if its predicate is TRUE: NA counts as FALSE.
Passes(e, row) == Eval(e, row) = TRUE
=============================================================================
