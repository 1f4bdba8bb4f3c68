-------------------------- MODULE MCRenderSettings --------------------------
(***************************************************************************)
(* An instance of RenderSettings for TLC: every colour of a pool as the    *)
(* underlayer and in palettes of up to two, and faults among the numbers.  *)
(***************************************************************************)
EXTENDS RenderSettings

N(n) == <<"int", n>>
D(x) == <<"double", x>>   (* some number that is no integer              *)
Array(elements) == <<"array", elements>>

Good ==
  {<<"string", "">>, <<"string", "red">>, Array(<<N(1), N(2), N(3)>>),
   Array(<<N(5), N(-1), N(16)>>), Array(<<N(3), N(2), N(1), D(-5)>>),
   Array(<<N(9), N(2), N(1), N(1), N(7)>>)}

Bad ==
  {<<"null">>, N(3), Array(<<<<"null">>>>), Array(<<N(1), N(2)>>),
   Array(<<N(1), D(25), N(3)>>), Array(<<N(1), N(2), N(3), <<"string", "x">>>>)}

Colours == Good \cup Bad

Numbers ==
  [width |-> N(600), height |-> D(4005), padding |-> N(50), stop_radius |-> N(5),
   line_width |-> N(14), underlayer_width |-> N(3),
   bus_label_font_size |-> N(20), stop_label_font_size |-> N(18),
   bus_label_offset |-> Array(<<N(7), N(15)>>),
   stop_label_offset |-> Array(<<N(8), D(-35)>>)]

FaultyNumbers ==
  {[Numbers EXCEPT !.padding = Missing], [Numbers EXCEPT !.width = <<"string", "600">>],
   [Numbers EXCEPT !.bus_label_font_size = D(205)],
   [Numbers EXCEPT !.bus_label_offset = Array(<<N(7)>>), !.stop_label_offset = Array(<<<<"null">>>>)],
   [Numbers EXCEPT !.stop_label_offset = Array(<<N(7), N(15), N(9)>>)]}

WithColours(numbers, underlayer, palette) ==
  numbers @@ [underlayer_color |-> underlayer, color_palette |-> palette]

Palettes(colours) == {<<>>} \cup {<<c>> : c \in colours} \cup {<<c, d>> : c, d \in colours}

MCDocuments ==
  {Absent}
  \cup {WithColours(Numbers, u, p) : u \in Colours, p \in Palettes(Colours)}
  \cup {WithColours(n, u, <<>>) : n \in FaultyNumbers, u \in Colours}
=============================================================================
