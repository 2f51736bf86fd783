------------------------------- MODULE MCClkGen -------------------------------
(* Two images with AWS_CLK_GEN, one with fewer clocks, and one without it. *)
EXTENDS ClkGen

AllClocks == [g \in Groups |-> 0..(NumClocks[g] - 1)]
FewClocks == [g \in Groups |-> CASE g = "a" -> {0, 2} [] g = "hbm" -> {0}
                                 [] OTHER -> {}]

\* --clock_recipe_a=A1, _b=B2, _c=C0, _hbm=H2.
BuiltWith == [a |-> Row(RecipeTable["a"][2]), b |-> Row(RecipeTable["b"][3]),
              c |-> Row(RecipeTable["c"][1]), hbm |-> Row(RecipeTable["hbm"][3])]

Quad(a, b, c, h) == [a |-> a, b |-> b, c |-> c, hbm |-> h]
MCImages == {AllClocks, FewClocks}
MCRecipes == {Quad(1, 3, 3, 1), Quad(2, 5, 4, 4)}
MCFreqs == {Quad(124, 370, 300, 449), Quad(86, 450, 300, 450),
            Quad(126, 450, 300, 450)}
===============================================================================
