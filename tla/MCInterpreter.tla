--------------------------- MODULE MCInterpreter ---------------------------
(* One program with every kind of branch, and in the slots every kind of    *)
(* instruction that can raise an exception.  One handler branches.          *)
EXTENDS Interpreter

I(op) == [op |-> op, target |-> 0]
To(op, a) == [op |-> op, target |-> a]

MCPage(a) == a \div 8
MCVector == 32
MCRefill == 34
MCStart == 0
MCHandlers == 32 .. 36

MCCode == [a \in 0 .. 36 |->
    CASE a = 0  -> I("sc")
      [] a = 1  -> I("load")
      [] a = 2  -> To("b", 5)
      [] a = 3  -> I("mem")
      [] a = 4  -> I("fp")
      [] a = 5  -> To("bl", 8)
      [] a = 6  -> I("fp")
      [] a = 7  -> I("count")
      [] a = 8  -> To("jal", 16)
      [] a = 9  -> I("load")
      [] a = 10 -> To("bal", 2)
      [] a = 11 -> I("sys")
      [] a = 12 -> To("bc1", 16)
      [] a = 13 -> I("sc")
      [] a = 14 -> To("bl", 10)
      [] a = 15 -> I("sys")
      [] a = 16 -> I("mtc0")
      [] a = 17 -> To("jr", 20)
      [] a = 18 -> I("mem")
      [] a = 20 -> To("ball", 24)
      [] a = 21 -> I("mem")
      [] a = 22 -> To("jalr", 10)
      [] a = 23 -> I("fp")
      [] a = 24 -> To("bc1l", 8)
      [] a = 25 -> I("fp")
      [] a = 26 -> To("j", 0)
      [] a \in {27, 32} -> I("count")
      [] a \in 28 .. 31 -> I("sys")
      [] a = 34 -> To("b", 36)
      [] a \in {33, 36} -> I("eret")
      [] OTHER -> I("op")]
MCPaged == 8 .. 25
=============================================================================
