---------------------------- MODULE MapRenderer ----------------------------
(***************************************************************************)
(* renderer::MapRenderer and SphereProjector (map_renderer.h/.cpp): the    *)
(* map of a catalogue, drawn in four layers.  One action is one turn of a  *)
(* layer's loop over the buses or the stops.  Of a shape the model keeps   *)
(* its place, its colour and its text; latitude, longitude and the sizes   *)
(* of the image are integers in a unit of which Epsilon make EPSILON.      *)
(***************************************************************************)
EXTENDS JSONReader

CONSTANTS
  Documents,     (* base documents the catalogue was loaded from           *)
  Settings,      (* what the map depends on in the RenderSettings          *)
  NameRank,      (* the order of std::string on names                      *)
  Epsilon,
  Underlayer     (* the underlayer colour                                  *)

ASSUME MapAssumption ==
  /\ \A base \in Documents :
       base \in Seq(Request) /\ ~ DBBuilderThrows(base) /\ AllDeclared(base)
  /\ Coordinates \subseteq [lat : Int, lng : Int]
  /\ \A s \in Settings : /\ {s.width, s.height, s.padding} \subseteq Nat
                         /\ 2 * s.padding <= s.width /\ 2 * s.padding <= s.height
                         /\ s.color_palette \in Seq(ToSet(s.color_palette))
                         /\ Underlayer \notin ToSet(s.color_palette)
  /\ NameRank \in [Names -> Nat]
  /\ \A m, n \in Names : NameRank[m] = NameRank[n] => m = n
  /\ Epsilon \in Nat \ {0}

VARIABLES
  base,           (* the base document, for the properties only            *)
  catalogue, settings,
  proj,           (* the SphereProjector                                   *)
  layer,          (* the loop that runs                                    *)
  todo,           (* the names its turns are still to come for             *)
  color_count,
  picture,
  render_         (* the shapes of the finished map                        *)

vars == <<base, catalogue, settings, proj, layer, todo, color_count, picture, render_>>
input_vars == <<base, catalogue, settings>>

(* The names of a std::map, in its order.                                  *)
InOrder(names) ==
  [k \in 1 .. Cardinality(names) |->
     CHOOSE n \in names : Cardinality({m \in names : NameRank[m] < NameRank[n]}) = k - 1]

-----------------------------------------------------------------------------
(* SphereProjector.  A zoom is a fraction <<numerator, denominator>>, and  *)
(* a point is given in units of its denominator.                           *)

MostOf(S)  == CHOOSE x \in S : \A y \in S : y <= x
LeastOf(S) == CHOOSE x \in S : \A y \in S : x <= y

IsZero(value) == value < Epsilon

Wider(z1, z2)   == IF z1[1] * z2[2] < z2[1] * z1[2] THEN z2 ELSE z1
Smaller(z1, z2) == IF z2[1] * z1[2] < z1[1] * z2[2] THEN z2 ELSE z1

NotProjected(padding) == [padding |-> padding, min_lon |-> 0, max_lat |-> 0, zoom |-> <<0, 1>>]

SphereProjector(points, s) ==
  IF points = {} THEN NotProjected(s.padding)
  ELSE
    LET lons == {p.lng : p \in points}
        lats == {p.lat : p \in points}
        lon  == MostOf(lons) - LeastOf(lons)
        lat  == MostOf(lats) - LeastOf(lats)
        width_zoom  == <<s.width - 2 * s.padding, lon>>
        height_zoom == <<s.height - 2 * s.padding, lat>>
    IN  [padding |-> s.padding, min_lon |-> LeastOf(lons), max_lat |-> MostOf(lats),
         zoom |-> CASE ~ IsZero(lon) /\ ~ IsZero(lat) -> Smaller(width_zoom, height_zoom)
                    [] ~ IsZero(lon) /\ IsZero(lat)   -> width_zoom
                    [] IsZero(lon) /\ ~ IsZero(lat)   -> height_zoom
                    [] IsZero(lon) /\ IsZero(lat)     -> <<0, 1>>]

Projected(c) ==
  [x |-> (c.lng - proj.min_lon) * proj.zoom[1] + proj.padding * proj.zoom[2],
   y |-> (proj.max_lat - c.lat) * proj.zoom[1] + proj.padding * proj.zoom[2]]

-----------------------------------------------------------------------------
(* DrawSvgMap.                                                             *)

PlaceOf(stop) == catalogue.stops[stop].coordinates

ServedStops(cat) == {s \in StopNames(cat) : cat.stops[s].buses # {}}

Init ==
  /\ base \in Documents /\ settings \in Settings
  /\ catalogue = DBBuilder(base)
  /\ proj = NotProjected(settings.padding)
  /\ layer = "frame" /\ todo = <<>> /\ color_count = 0
  /\ picture = <<>> /\ render_ = <<>>

(* color_count is a local variable of each of the two loops over buses.    *)
CountOn(next, names) ==
  layer' = next /\ todo' = InOrder(names) /\ UNCHANGED color_count
Begin(next, names) ==
  layer' = next /\ todo' = InOrder(names) /\ color_count' = 0

FindScale ==
  /\ layer = "frame"
  /\ proj' = SphereProjector({PlaceOf(s) : s \in ServedStops(catalogue)}, settings)
  /\ Begin("routes", BusNames(catalogue))
  /\ UNCHANGED <<input_vars, picture, render_>>

(* One turn: the shapes it adds, and whether it takes a colour.            *)
In(this) == layer = this /\ todo # <<>>
Turn(shapes, colours) ==
  /\ picture' = picture \o shapes
  /\ color_count' = color_count + colours
  /\ todo' = Tail(todo)
  /\ UNCHANGED <<input_vars, proj, layer, render_>>

bus == catalogue.buses[Head(todo)]

(* The remainder by the size of an empty palette is undefined.             *)
HasColour == settings.color_palette # <<>>
Colour == settings.color_palette[1 + (color_count % Len(settings.color_palette))]

RouteIsEmpty == layer \in {"routes", "route_names"} /\ todo # <<>> /\ bus.route = <<>>

SkipRoute == RouteIsEmpty /\ Turn(<<>>, 0)

(* The route is stored last stop first.                                    *)
ThereOnly(route, is_chain) == Reverse(route)
PolylineStops(route, is_chain) ==
  Reverse(route) \o IF is_chain THEN Tail(route) ELSE <<>>

DrawRoute ==
  /\ In("routes") /\ bus.route # <<>> /\ HasColour
  /\ LET stops == PolylineStops(bus.route, bus.is_chain)
     IN  Turn(<<[shape |-> "line", color |-> Colour,
                 points |-> [k \in DOMAIN stops |-> Projected(PlaceOf(stops[k]))]]>>, 1)

LabelledEnds(route, is_chain) ==
  IF is_chain /\ route[1] # route[Len(route)] THEN <<Len(route), 1>> ELSE <<Len(route)>>

(* A text in the underlayer colour, and the text itself on top.            *)
Texts(shape, name, color, at) ==
  <<[shape |-> shape, data |-> name, color |-> Underlayer, at |-> at],
    [shape |-> shape, data |-> name, color |-> color, at |-> at]>>

DrawRouteName ==
  /\ In("route_names") /\ bus.route # <<>> /\ HasColour
  /\ LET ends == LabelledEnds(bus.route, bus.is_chain)
     IN  Turn(FlattenSeq([k \in DOMAIN ends |->
                Texts("route_name", Head(todo), Colour, Projected(PlaceOf(bus.route[ends[k]])))]), 1)

NoColourForNothing ==
  /\ layer \in {"routes", "route_names"} /\ todo # <<>> /\ ~ HasColour
  /\ layer' = "undefined"
  /\ UNCHANGED <<input_vars, proj, todo, color_count, picture, render_>>
NoColour ==
  /\ layer \in {"routes", "route_names"} /\ todo # <<>>
  /\ bus.route # <<>> /\ ~ HasColour
  /\ layer' = "undefined"
  /\ UNCHANGED <<input_vars, proj, todo, color_count, picture, render_>>

DrawStopPoint ==
  /\ In("stop_points")
  /\ Turn(<<[shape |-> "point", color |-> "white", at |-> Projected(PlaceOf(Head(todo)))]>>, 0)

DrawStopName ==
  /\ In("stop_names")
  /\ Turn(Texts("stop_name", Head(todo), "black", Projected(PlaceOf(Head(todo)))), 0)

NextLayer ==
  /\ todo = <<>>
  /\ \/ layer = "routes" /\ Begin("route_names", BusNames(catalogue))
     \/ layer = "route_names" /\ Begin("stop_points", ServedStops(catalogue))
     \/ layer = "stop_points" /\ Begin("stop_names", ServedStops(catalogue))
     \/ layer = "stop_names" /\ Begin("render", {})
  /\ UNCHANGED <<input_vars, proj, picture, render_>>

(* The shapes go to the svg::Document, and from there into a text, in the  *)
(* order in which they were drawn.                                         *)
Render ==
  /\ layer = "render"
  /\ render_' = picture
  /\ layer' = "done"
  /\ UNCHANGED <<input_vars, proj, todo, color_count, picture>>

Next ==
  \/ FindScale \/ SkipRoute \/ DrawRoute \/ DrawRouteName \/ NoColour
  \/ DrawStopPoint \/ DrawStopName \/ NextLayer \/ Render

Spec == Init /\ [][Next]_vars

-----------------------------------------------------------------------------
(* Safety, from the base document and the settings alone.                  *)

BusesWithStops ==
  IF HasNull(base) THEN {}
  ELSE {base[k] : k \in {n \in DOMAIN base : base[n].type = "Bus" /\ base[n].stops # <<>>}}

(* No two requests for one bus: SetBus would join their routes.            *)
BusesOnce ==
  HasNull(base) \/
  \A m, n \in DOMAIN base :
    (m # n /\ base[m].type = "Bus" /\ base[n].type = "Bus") => base[m].name # base[n].name

DrawnBuses ==
  LET names == InOrder({b.name : b \in BusesWithStops})
  IN  [k \in DOMAIN names |-> CHOOSE b \in BusesWithStops : b.name = names[k]]

DrawnStops == InOrder(UNION {ToSet(b.stops) : b \in BusesWithStops})

DocumentPlace(stop) ==
  base[Max({k \in DOMAIN base : base[k].type = "Stop" /\ base[k].name = stop})].coordinates

ProjectedStops(stops) == [k \in DOMAIN stops |-> Projected(DocumentPlace(stops[k]))]

Way(b) == IF b.is_roundtrip THEN b.stops ELSE b.stops \o Tail(Reverse(b.stops))

EndsOf(b) ==
  LET first == Head(b.stops)
      last  == Last(b.stops)
  IN  IF b.is_roundtrip \/ first = last THEN <<first>> ELSE <<first, last>>

(* Buses take the colours of the palette in turn, by the order of names.   *)
Chosen(k) == settings.color_palette[1 + ((k - 1) % Len(settings.color_palette))]

(* The line of a bus passes its stops the way the request gives them, and  *)
(* back for a chain; its name stands at the first stop and, for a chain,   *)
(* at the last one if that is another, in the colour of the line.          *)
LineOf(k) ==
  <<[shape |-> "line", color |-> Chosen(k), points |-> ProjectedStops(Way(DrawnBuses[k]))]>>

LabelOf(k) ==
  LET at == ProjectedStops(EndsOf(DrawnBuses[k]))
  IN  FlattenSeq([n \in DOMAIN at |->
        Texts("route_name", DrawnBuses[k].name, Chosen(k), at[n])])

RoutesOfMap ==
  FlattenSeq([k \in DOMAIN DrawnBuses |-> LineOf(k)])
    \o FlattenSeq([k \in DOMAIN DrawnBuses |-> LabelOf(k)])

(* The stops that appear, as a point and as a name, are those some bus     *)
(* goes to, each once and at the place its last request gave it.           *)
PointOf(k) ==
  <<[shape |-> "point", color |-> "white", at |-> Projected(DocumentPlace(DrawnStops[k]))]>>

StopNameOf(k) ==
  Texts("stop_name", DrawnStops[k], "black", Projected(DocumentPlace(DrawnStops[k])))

StopsOfMap ==
  FlattenSeq([k \in DOMAIN DrawnStops |-> PointOf(k)])
    \o FlattenSeq([k \in DOMAIN DrawnStops |-> StopNameOf(k)])

(* What is drawn later covers what was drawn before: no line crosses a     *)
(* name or a stop, and no point a stop's name.                             *)
Rank == [line |-> 1, route_name |-> 2, point |-> 3, stop_name |-> 4]
LayersInOrder ==
  \A m, n \in DOMAIN picture : m < n => Rank[picture[m].shape] <= Rank[picture[n].shape]

(* The finished map shows the routes and the stops of the document, each   *)
(* in its place, the stops above the routes, and nothing else.             *)
PictureIsTheDocuments ==
  /\ LayersInOrder
  /\ layer \in {"render", "done"} =>
       \E n \in 0 .. Len(picture) :
         /\ BusesOnce => SubSeq(picture, 1, n) = RoutesOfMap
         /\ \A k \in 1 .. n : Rank[picture[k].shape] <= 2
         /\ SubSeq(picture, n + 1, Len(picture)) = StopsOfMap
  /\ layer = "done" => render_ = picture

(* Two loops count colours on their own; still the name of a bus has the   *)
(* colour of its line at any time, and with two colours or more the lines  *)
(* of buses next to each other in the order of names have different ones.  *)
ColoursAgree ==
  BusesOnce =>
    /\ \A k \in DOMAIN picture :
         (picture[k].shape = "route_name" /\ picture[k].color # Underlayer) =>
           \E n \in DOMAIN picture \cap DOMAIN DrawnBuses :
             /\ picture[n].shape = "line" /\ picture[n].color = picture[k].color
             /\ DrawnBuses[n].name = picture[k].data
    /\ \A k \in DOMAIN picture :
         (k > 1 /\ picture[k].shape = "line"
            /\ Cardinality(ToSet(settings.color_palette)) = Len(settings.color_palette)
            /\ Len(settings.color_palette) > 1) =>
           picture[k].color # picture[k - 1].color

PlacesOf(shape) == IF shape.shape = "line" THEN ToSet(shape.points) ELSE {shape.at}

Spread(S) == MostOf(S) - LeastOf(S)
NoNeighbours(S) == Cardinality(S) < 2 \/ Spread(S) >= Epsilon

(* Whatever is drawn is placed within the margins of the image, and if     *)
(* there are two places at all, they reach from one margin to the opposite *)
(* one.  Not so if the stops' latitudes, or longitudes, all lie within     *)
(* EPSILON of each other and differ, where the zoom leaves them out.       *)
InsideImage ==
  LET points == {DocumentPlace(DrawnStops[k]) : k \in DOMAIN DrawnStops}
      lats   == {p.lat : p \in points}
      lons   == {p.lng : p \in points}
      places == UNION {PlacesOf(picture[k]) : k \in DOMAIN picture}
      den    == proj.zoom[2]
      reaches(S, size) == {settings.padding * den, (size - settings.padding) * den} \subseteq S
  IN  (picture # <<>> /\ NoNeighbours(lats) /\ NoNeighbours(lons)) =>
        /\ \A p \in places :
             /\ settings.padding * den <= p.x /\ p.x <= (settings.width - settings.padding) * den
             /\ settings.padding * den <= p.y /\ p.y <= (settings.height - settings.padding) * den
        /\ (layer = "done" /\ Cardinality(points) > 1) =>
             \/ reaches({p.x : p \in places}, settings.width)
             \/ reaches({p.y : p \in places}, settings.height)

(* A map cannot be drawn exactly if there is no palette and a bus has a    *)
(* stop: without render settings, say, but not for an empty catalogue.     *)
DrawOutcome ==
  LET cause == settings.color_palette = <<>> /\ BusesWithStops # {}
  IN  /\ layer = "undefined" => cause
      /\ layer = "done" => ~ cause
=============================================================================
