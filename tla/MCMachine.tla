----------------------------- MODULE MCMachine -----------------------------
(***************************************************************************)
(* Machine with the code the compiler emits for three programs.  The code  *)
(* is that of the repository's compiler (its missing returns supplied).    *)
(***************************************************************************)
EXTENDS Machine

I(type, l, a) == inst_t(type, l, a)

\* test.pas, the sample in the repository.  b is cell 4, and the condition of
\* the loop is evaluated from address 11 on.
TestPas ==
  <<I("INT", 0, 5), I("JMP", 0, 9),
    \* procedure p; begin c := b + a end;
    I("INT", 0, 3), I("JMP", 0, 4), I("LOD", 1, 4), I("LIT", 0, 10),
    I("OPR", 0, 2), I("STO", 1, 3), I("OPR", 0, 0),
    \* read(b); while b#0 do begin call p; write(2*c); read(b) end
    I("OPR", 0, 16), I("STO", 0, 4), I("LOD", 0, 4), I("LIT", 0, 0),
    I("OPR", 0, 9), I("JPC", 0, 24), I("CAL", 0, 2), I("LIT", 0, 2),
    I("LOD", 0, 3), I("OPR", 0, 4), I("OPR", 0, 14), I("OPR", 0, 15),
    I("OPR", 0, 16), I("STO", 0, 4), I("JMP", 0, 11), I("OPR", 0, 0)>>

\* var n;
\* procedure p; var m;
\*   procedure q; begin n := n - m / 2 * 2 - 1; call p end;
\*   begin m := 3; if n > 0 then call q end;
\* begin read(n); call p; if odd n then write(-n+0) end.
Recursion ==
  <<I("INT", 0, 4), I("JMP", 0, 26), I("INT", 0, 4), I("JMP", 0, 18),
    I("INT", 0, 3), I("JMP", 0, 6), I("LOD", 2, 3), I("LOD", 1, 3),
    I("LIT", 0, 2), I("OPR", 0, 5), I("LIT", 0, 2), I("OPR", 0, 4),
    I("OPR", 0, 3), I("LIT", 0, 1), I("OPR", 0, 3), I("STO", 2, 3),
    I("CAL", 2, 2), I("OPR", 0, 0), I("LIT", 0, 3), I("STO", 0, 3),
    I("LOD", 1, 3), I("LIT", 0, 0), I("OPR", 0, 12), I("JPC", 0, 25),
    I("CAL", 0, 4), I("OPR", 0, 0), I("OPR", 0, 16), I("STO", 0, 3),
    I("CAL", 0, 2), I("LOD", 0, 3), I("OPR", 0, 6), I("JPC", 0, 39),
    I("LIT", 0, 0), I("LOD", 0, 3), I("OPR", 0, 3), I("LIT", 0, 0),
    I("OPR", 0, 2), I("OPR", 0, 14), I("OPR", 0, 15), I("OPR", 0, 0)>>

\* Every operator the compiler has a number for, behind one input.
Operators ==
  <<I("INT", 0, 3), I("JMP", 0, 2), I("OPR", 0, 16)>>
    \o [k \in 1..26 |-> IF k % 2 = 1 THEN I("LIT", 0, 3)
                        ELSE I("OPR", 0, <<1, 2, 3, 4, 5, 6, 8, 9, 10, 11, 12, 13, 7>>[k \div 2])]
    \o <<I("OPR", 0, 0)>>

MCInputs == {-1, 0, 1, 5}
MCPrograms == {TestPas, Recursion, Operators}
SampleOnly == {TestPas}

\* The loop of test.pas is left when 0 has been read, and not before
\* (test.pas:9, "while b#0 do").
LoopLeftOnZero == status = "completed" => stack[4] = 0
============================================================================
