# Transport catalogue: a TLA+ model

The program (`transport-catalogue/` in the repository) keeps a catalogue of bus
stops and bus routes.  One run of `main` reads a *base document* and writes it
to a database file, then reads a *request document*, loads the database file it
names into a catalogue, and answers the requests: bus statistics, the buses of
a stop, the fastest route between two stops, and a map.  These modules model
that program and state what has to be true of it.  TLC checks them on small
instances; the TLA+ proof system proves the most important statements for every
value of the constants.

## Components

| component | state | operations | module |
|---|---|---|---|
| router (`graph.h`, `router.h`) | edges and incidence lists; an all-pairs table of weight and last edge | `AddEdge`, constructor, `BuildRoute` | `Router` |
| catalogue (`transport_catalogue.*`) | stops, buses, distances, each found by name; a stop knows its buses | `SetStop`, `SetStopDistance`, `SetBus`, the queries behind the answers | `TransportCatalogue` |
| JSON reader (`json_reader.*`) | the catalogue and settings it was given | `DBBuilder`: document to catalogue; `JsonResponseBuilder`: requests to answers; settings | `JSONReader`, `ResponseBuilder`, `RenderSettings` |
| serializer and `main` (`serialization.*`, `main.cpp`) | database files, numbering of stops by name, numbering back, catalogue and settings being loaded | `ToFileSerializer`, `FromFileDeserializer` | `Serialization`, `RenderSettings` |
| transport router (`transport_router.*`) | two vertices per stop, edges per wait and ride | graph from a catalogue, `RouteSearch` | `TransportRouter` |
| JSON builder (`json_builder.*`) | stack of pointers to open containers, pending key | `Key`, `Value`, `StartDict`, ... | `JsonBuilder` |
| JSON text (`json.*`) | the stream and the calls that are open | loader, printer | `JsonText` |
| map renderer (`map_renderer.*`) | the picture so far, colour counters, the projection | `DrawSvgMap` | `MapRenderer` |
| SVG, geography, `log_duration.h`, Protocol Buffers | formatting, one formula, unused, vendored | | left out |

How they interact: `main` runs the serializer, whose only effect is the file;
the deserialiser reads the file, fills a catalogue through `SetStop`,
`SetStopDistance` and `SetBus` (in that order) and hands it to the response
builder, which builds the transport router, which fills a graph and constructs
the router.  Each answer is a row of calls to the JSON builder; a map is drawn
for each request that asks for one.  Documents come from the JSON loader and
leave through its printer.  There are no threads and no locks.  What is hard is
elsewhere: loops that read a table they are writing, walks along links and
pointers into containers that grow, which nobody checks, numbering, order and
direction on the way through the file and the graph, files left over from runs
that failed or were killed, and exceptions nobody catches.

What makes each part correct:

* router: the table holds shortest distances although it is relaxed in place;
  following `prev_edge` never meets an empty entry, never loops, and yields a
  walk with exactly the weight announced; constructor and queries end.
* catalogue: stops and buses agree about each other; no stop with uninitialised
  coordinates is ever exposed; a route measures what the document says.
* serializer: the file preserves the document, settings included; ids survive
  it; what remains after a failed or killed run is never taken for another run's
  data.
* transport router: every edge joins vertices of its own stops; a ride costs the
  road between its stops in the direction of travel; answers are journeys a
  passenger could make, and no journey is faster.
* JSON builder: no pointer of its stack ever goes stale, and a caller who keeps
  to the grammar of JSON gets the document he described.
* response builder: it keeps to that grammar; one answer per request, in order,
  with the numbers of the base document; what makes it throw is known exactly.
* JSON text: what is printed is loaded as the same document, up to differences that
  can be named, or refused for a number that can be named; a text that is not a
  document is refused.
* map: each bus and stop once, at its place, in its colour, inside the image,
  and the layers in the order in which they may cover each other.

## Modules

**`Router`** is `graph.h` and `router.h`.  `pc` is the point of the code that
runs next, and one action is one iteration of a loop: `AddEdge` while the graph
is filled, `InitVertex`/`InitEdge`/... for `InitializeRoutesInternalData`,
`RelaxFrom`/`RelaxTo`/... for the three nested loops of the relaxation, and
`RouteFound`/`WalkBack`/`ReturnRoute` for `BuildRoute`.  `routes_internal_data`
is the table of the code, `NoRoute` its empty optional, `NoEdge` the empty
`prev_edge`.  The dereference that `router.h:108` makes without a test leads to
`pc = "undefined"` when the optional is empty; a negative weight leads to
`"domain_error"`.  Weights are exact integers; the rounding of `double` is
outside the model.

**`ShortestPath`** is what the router promises its caller, without a table: a
graph, and answers that are walks of least weight, where distances are defined
by enumerating walks.  **`RouterPromise`** has the mapping under which `Router`
implements it, which `MCRouter` checks.

**`TransportCatalogue`** are operators on a catalogue value, one per method.
`Stop*` and `Bus*` are names, since the maps hand out one object per name.

**`JSONReader`** describes what the code tells apart in an element of
`base_requests` (duplicates, undeclared names, `null`, malformed requests) and
has `DBBuilder`, which builds a catalogue straight from a document.  The program
no longer calls it, but it says what the detour through the file has to
preserve, for every document on which it does not throw (`DBBuilderThrows`: a
malformed request, on which the detour throws as well).

**`Serialization`** is `main` and the serializer, over several runs that share
the disk.  `Make` is `ToFileSerializer` request by request and stop by stop;
`Process` is `FromFileDeserializer` element by element.  Opening the file
truncates it first, as the code does; an exception ends the run with everything
left as it is; `Kill` may strike between any two steps, and during the write
leaves the message cut anywhere; the file may be impossible to open, in
which case writing and reading silently do nothing.  The parser keeps an element
that the bytes end in, so a file that was cut may hold a stop with its id and without
its name, or a bus without some of its stops (`TornStop`, `TornBus`,
`TornDistance`): fields before the cut are whole, those behind it have
their defaults, and the one that is cut itself is read as anything, since it is
not known which bytes the parser takes for the missing ones.  `origin` is a history
variable: the document whose message a file completely holds.
Here `JsonResponseBuilder` is one step that answers or throws, the render settings
are one value and the routing settings another (half-read ones are values as well);
the next modules look inside.

**`TransportRouter`** is the constructor of `CustomRouteFinder`, one action per
iteration: `GetVertex`; `WaitEdge`, in any order, since `stop_data_` is ordered by
addresses; `TakeBus`, `RideEdge`, `NextOuter`, `TurnRound` for the loops of
`GetEdges` and `RouteEdgeBuild`; `AddEdge`, `RouterBuilt`.  `RouteSearch` is one
action, which takes any answer that `ShortestPath` allows: `Router` implements
it, so nothing of the table has to be repeated.  `WaitTime` and `SpeedFactor`
are integers; times come out exact.

**`JsonTree`** is what `json::Builder` promises: the calls so far describe a row
of open containers, and the call that closes the last one makes the document.  It
knows no pointers.  **`JsonBuilder`** is the code: a heap of nodes with
addresses that are never used again, `node_stack_` with addresses in it, vectors
that move their elements to new addresses whenever the library likes
(`MayMove`), maps that do not.  The caller is arbitrary; `phase` records whether
he has kept to the grammar so far.  `MCJsonBuilder` shows that `JsonBuilder`
implements `JsonTree`; the mapping follows the pointers.

**`ResponseBuilder`** is `JsonResponseBuilder`: construct the router, look for a
null, then one action per request, which puts into `calls` the calls that the
code makes to the builder; `CallBuilder` makes them one at a time on an instance
of `JsonTree`.  A call that the grammar does not allow makes `phase` "broken".
What `TransportRouter` answers is any of the outcomes it may have (`FoundRoutes`,
`RouteThrows`); its constructor throws for a hop that has no road, and for an edge
that `graph::Router` refuses, a wait or a ride that takes less than no time
(`RouterThrows`), of which the signs of the routing settings decide.  A velocity of
zero makes `speed_factor_` infinite, which counts as a positive sign here: the weight
of a ride without length is NaN then, and NaN is not less than zero.  The
picture of a map is one value.  `literals`
stands for the two readings of `Value("Wait")`, a string literal that the
variant of `Node` takes for a `bool` or a string depending on the library.

**`JsonText`** is `LoadNode` and the four functions it calls, one action per
symbol, with a stack of frames for their recursion.  `input` is a sequence of
symbols: digits, punctuation, and words that none of the functions takes
apart.  An int or a double is a decimal, a sign, digits and a power of ten; `Stoi` and
`Stod` read it as far as it makes a number and refuse what does not fit, `PrintInt`
and `PrintDouble` print it, the latter with the six significant digits
and the exponents of a stream nobody has set up otherwise.  A `char` that is compared
before anything was read into it is any symbol.  `JsonOutput` is an operator.

**`RenderSettings`** is `RenderSettingsSerializer` and `RenderSettingsSet`,
member after member, with the oneof of a colour, and `RenderSettingsBuilder` as
the reference.  An index behind the end of an array leads to "undefined", a node
of the wrong kind to "threw".  `Uint8` and `Uint32` are the sizes of the two types.

**`MapRenderer`** is `DrawSvgMap`: the projection, then four layers, one action
per bus or stop.  A shape is its kind, place, colour and text.  A zoom is kept as
a fraction and points are given in units of its denominator, so the geometry is
exact.  The remainder by the size of an empty palette leads to "undefined".

The modules `MC...` give the constants their values for TLC.

**`RouterProofs`**, **`JSONReaderProofs`**, **`SerializationProofs`**,
**`TransportRouterProofs`**, **`ResponseBuilderProofs`**, **`MapRendererProofs`**,
**`JsonBuilderProofs`** and **`RenderSettingsProofs`** hold the theorems.
`JSONReaderProofs` begins with the lemmas about recursive functions, sums and rows
that the modules which extend it share.

## Runs

| run | instance | shows |
|---|---|---|
| `router` | 3 vertices, 3 edges, weights -1, 0, 1 | inductive invariant (type included), optimal table, no undefined read, answers are walks, pivots are not disturbed; searches return; `Router` implements `ShortestPath` |
| `router_cycles` | 4 vertices, 4 edges, weights 0, 1, edges added in one order | `BuildRoute` never visits a vertex twice |
| `database` | all documents of up to 3 requests from a pool of 9, and pairs with a null or a malformed one; one run (files of earlier runs are left to the theorem) | what is loaded is what `DBBuilder` builds; stops and buses agree; exactly the expected documents fail |
| `database_runs` | 9 chosen documents, 4 choices of request document, two files, 3 runs | files left by earlier, failed and killed runs, cut between and inside their elements |
| `transport_router` | 3 road maps with one-way, missing, circular and negative roads; every pair of buses from a pool of 8 | vertices are distinct, edges fit (with the types: `GraphConsistent`), rides are those of the documents, answers are fastest journeys, exactly the expected documents throw |
| `json_builder` | two keys, one value, 7 calls | no stale pointer; the grammar is enough; `JsonBuilder` implements `JsonTree` |
| `response` | 8 base documents, two of them with a negative road; arrays of up to two requests from a pool of 11, no array; waits and speeds of either sign | one answer per request, in order, with the documents' numbers; when nothing is answered |
| `json_text` | 395 documents with two levels of containers, printed or cut anywhere, 21 numbers at the limits of printer and loader among them; 66 dictionaries with a key twice; all texts of up to 4 of 10 symbols and 32 longer ones | what printing and loading preserve; what is refused; the loader ends |
| `render_settings` | 12 colours, good and bad, as underlayer and in palettes of up to two; faulty numbers | the settings survive the file; what one way refuses the other refuses |
| `map` | one bus at every set of up to three of 9 places; 3 buses with every kind of route; palettes of 0 to 3 colours | routes, stops, colours, layers and places are those of the documents |
| `hop_direction` | as `response`, with one base document, a round trip of two stops | violated: two comments name the ends of a hop the wrong way round (`transport_catalogue.cpp:93-94`) |
| `json_text_cut` | as `json_text`, shorter texts | violated: a dictionary that breaks off is not an error (`json.cpp:144`), although `json.h:26` says every error throws |

The bounds.  Three vertices are the fewest with a pivot between two others, and
three edges the fewest for a detour that competes with a direct edge; parallel
edges, loops, unreachable vertices and a negative weight in the middle of the
initialisation all occur.  Cycles of weight zero that could trap the walk need
an edge into the cycle and one out of it, hence four vertices and edges.
`AddedInOrder` keeps the graphs of that run to one insertion order: which of
two equal routes wins may depend on the order of the *parallel* edges only, and
ids are compared by nobody.  Documents of three requests can declare two stops
with different roads between them and a bus that goes round asymmetrically, or
the same bus or stop twice; three runs can leave a file, spoil it and read it.
Three stops make a bus with an inner hop, two buses a change, and the
pool of buses has a chain and a round trip over the same stops, which differ in
the rides they offer.  Seven calls nest containers three deep and still grow the
outer ones after the inner are closed.  Two requests suffice to see order, a
request that spoils another, and one that is skipped.  Texts of four symbols
hold every pair of functions of the loader in each other with the end of the
text in any place.  Two colours of a palette show order; widths of 8 and 64 values show the
truncation of channels, since only that one width divides the other matters.
`MaxRuns`, `MaxEdges`, `MaxCalls`, `MaxRequests`, `MaxLength` bound the counters
and lengths.  All runs allow deadlock, since the program ends: after
`domain_error`, after the last run, with the last answer, at the end of a text.

Fairness is weak fairness of the code's own steps: a single thread that is in
the router's constructor or in `BuildRoute`, or in the JSON loader goes on,
because nothing in it waits for anything.  Nothing obliges a caller to add edges or
to ask.  The other modules have no liveness property: their loops go over
collections that do not change meanwhile.

## Proofs

`RouterProofs` proves, for every number of vertices, every bound on edges and
every set of integer weights, that `IInv` is an invariant of `Router` and from
it type correctness, `TableOptimal`, `NeverUndefined`, `AnswerIsWalk` and the
action property `PivotFrozen`.  The invariant is needed because none of these is
inductive.  Its parts: the graph is consistent (`GraphConsistent`), loop
variables are in range, the diagonal is the empty route (`Diagonal`), no entry
exceeds an edge already read (`EdgeBound`), each entry is bounded below by its
last edge and the entry before it, or is about to be (`PrevSound`), entries obey
the triangle inequality through every vertex already passed (`ClosedBelow`) and,
for the pairs already handled, through the current one (`PassClosed`), and the
edges collected by `BuildRoute` form a walk (`WalkConnected`).  There is one
lemma per action; those that leave the table alone share `QuietStep`, the
relaxation step rests on `PassKeepsPivot`, `WithinKept` and `CoverKept`.

That the walk along `prev_edge` ends (`WalksAreSimple`) does not follow from the
weights, since edges of weight zero may form cycles.  The proof ranks the entries:
each lies above the entry its last edge leads back to, by weight, or by rank if the
edge weighs nothing (`PrevBelow`).  The initialisation gives every single edge a
rank; a pass through a vertex raises the entries it stores above the bound `base`
of all ranks before it, so that an entry of the first part of a detour stays below
the whole (`PassRanked`).  Such ranks exist in every reachable state (`CanRank`),
although the code keeps none, and the walk descends along them.

`Refinement` proves that `Router` implements `ShortestPath`.  The constructor
refines `Prepare`, a call refines `Ask`, `ReturnRoute` refines `Reply`, and
everything else stutters.  What is to be shown of `Reply` is that the weight in the table is
the least cost among all walks of fewer edges than vertices, a set defined by
recursion: no walk costs less, because the table is optimal, and the walk of the
table is one of them, because it is simple and a simple walk has fewer edges than
there are vertices.

`SerializationProofs` proves, for every set of documents, names, files and
settings and every number of runs, that `IInv` is an invariant of
`Serialization`: `TypeOK`, `Numbering`, `IdsResolve`, `NoPhantomStop`,
`StopsKnowTheirBuses` and `Unfinished` (a file that is being written belongs to no
document yet).  They are proved together because they need each other:
a message that is cut short or loaded in a later run has one id per name
(`IdsResolve`) because the message was numbered one to one when it was built
(`Numbering`).  A stop that was cut inside may have the id of another, if
its own bytes are not all there, or its own id and no name, though the name was
declared before.  It can only be the last stop of a file in which nothing follows the
stops, so it is loaded last, and `insert` leaves an id that is there to the stop that
had it; `IdsResolve` is therefore about the stops that are whole (`WholeStops`).  A road or bus finds its stops (`NoPhantomStop`) because
`id_stops_` holds exactly what was loaded (`IdsResolve`); and `SetBus` creates no
stop, so that the relation between stops and buses is kept
(`StopsKnowTheirBuses`), because its route consists of stops that are there.
The lemmas of `JSONReaderProofs` say what `SetStop`, `SetStopDistance` and `SetBus`
do to each field of a catalogue (`SetStopFields`, `SetBusFields`, ...);
`NameIsNumbered` is about `SetStopByName`, `CutResolves` about files that are cut short.  The
actions are grouped by what they leave: `QuietStep` (a run ends or goes on),
`BuildStep` (the message grows), `LoadStep` (the catalogue grows).

`JSONReaderProofs` proves that `DBBuilder`, whatever the document, makes a catalogue
whose stops and buses agree and whose declared stops have coordinates
(`DBBuilderIsConsistent`).  The second part of `SerializationProofs` proves that the
detour through the file preserves that catalogue: `RoundTrip`, `LoadOutcome`, `FreshResult` and
`NoStaleDatabase`, for any documents and any number of runs, failed and killed ones
included.  The two ways build the catalogue in different orders (the document mixes
stops and buses, the file has all stops first, then all roads, then all buses), so
no step-by-step comparison holds.  What does hold is that both are determined by
three maps: the last coordinates of each stop, the last length of each road, the
buses with their routes.  `Says` states that a message, read with the names behind
its numbers, makes the same three maps as a document.  The invariant `RInv` has
four parts beside `IInv`: the message says what the requests read so far say,
within a stop also between two roads of it (`Telling`); files written completely say
what their documents say (`FilesTell`); the catalogue holds what the elements
loaded so far say (`Loaded`); and a file a run has opened is its own or empty
(`OwnFile`).  It is needed because the truth of `RoundTrip` is laid down one run
earlier than it is asked for.  `Numbering` and `IdsResolve` enter where a number is
read back as a name.

Folds and recursive functions appear in these statements.  The first lemmas of
`JSONReaderProofs` replace the induction theorems, which take operators as parameters, by lemmas about sets and
functions: a set of naturals with 0 that is closed under successor is `Nat`
(`SetInduction`), a sequence of functions can be iterated (`IntervalRecursion`), and
a fold over a sequence is such an iteration (`FoldToFacts`, `FoldToNext`).

`JSONReaderProofs` also says what that catalogue holds, in terms of the document
alone: a distance is known exactly if some request declares the road in one of the
directions, and is then the one declared last, in the direction of travel if there
is one (`DBBuilderKeepsTheRoads`); a bus that is declared once has the stops of its
request, backwards, as its route (`DBBuilderKeepsTheBuses`); a stop is where the last
request for it says, and lists the buses whose requests name it
(`DBBuilderKeepsTheStops`).  For the roads it
matters that `road_distances` is a map: with a stop twice in it the last length
would count, and the document would not say which.  Hence the length of a route is
the document's (`DBBuilderKeepsTheLengths`), although the code starts at the other
end and adds both ways of a chain hop by hop: the lemmas on sums
(reversed, side by side, one after the other) say that it makes no difference.

`TransportRouterProofs` proves all that is claimed of the constructor of
`CustomRouteFinder` and of `RouteSearch`, for every set of
documents, any wait and any positive speed.  `GInv` is `GraphConsistent` with what
its steps need (a stop on a route is in the catalogue, a vertex number is at most
`GetLastId`).  `Construction` says which edges stand at each moment of the loops: the
waits of the stops passed, all rides of the buses done, and of the bus at hand those
of the pairs of positions before `<<outer, inner>>`, in the first or in both directions;
how many there are; and that each hop passed was known.  With the lemmas
above, that becomes `RidesAreTheDocuments` when the loops are over, and
`ConstructorOutcome` when one throws.  `Found` keeps what the search returned as
a walk of the graph.  That the walk is a journey (`AnswerIsJourney`) needs no more
than distinct vertices: a wait leads from the vertex where one arrives to
the one where one boards, a ride back to one where one arrives, and as no vertex is
both, waits and rides alternate and each ride starts where the wait was.

That no journey is faster (`AnswerIsFastest`) compares two searches that have little in
common: the least weight of the simple walks of a graph, and a table of arrivals by
number of rides that looks at the document only.  Each bounds the other.  An
arrival after some rides is a walk of the graph, perhaps one with circles; a circle can be
left out, because no edge weighs less than nothing, and what remains is a simple walk
that takes no longer.  A simple walk between stops consists of pairs of a wait and a ride;
by induction on the pairs, the arrivals after as many rides include one at the same stop
that is no later (they keep the least times only, so an equal one need not be there).
And a simple walk has no more rides than there are stops, since it visits as
many vertices where one boards.

`ResponseBuilderProofs` proves, for any documents, any requests and any walk the
search may find, that each call `JsonResponseBuilder` makes is one the grammar
allows (`CallsKeepToGrammar`), that each request has its answer under its id and in its
place (`AnswersInOrder`), what the answers about buses and stops say
(`AnswersAreTheDocuments`), and when nothing is answered (`ResponseOutcome`).
The calls of an answer are composed as the code composes them: `Leads` says that a row of
calls is allowed in one state of the builder and leads to another, and two rows
one after the other compose; the invariant `RInv` says where the calls still pending will
lead, so that every call between is covered.  `Passed` is what the builder holds
of the requests already taken.  What an answer says follows from the theorems about
`DBBuilder`: the catalogue is the one the document describes until a request throws.
The curvature is a number exactly if some hop leads from one place to another,
because distances are naturals, zero only between a place and itself.  For
`ResponseOutcome` what the constructor measures has to be turned into hops of the document:
the hops of a route travelled backwards, both ways for a chain, are those of the
request (`TravelledAreDocumentHops`, `AllHopsAreTravelled`), a length is missing exactly
where one of them has no road (`HopsNeedDistances`), and what a hop takes has the sign
of its road times that of the speed (`RouterThrowsForTheDocument`).

`MapRendererProofs` proves all that is claimed of a map, for every set of documents, any
settings with room between the margins and any order of names without ties.  The
invariant `MInv` has four parts: the frame (the catalogue is the document's, the projection is
that of the stops some bus goes to), the turns (what is still to come of a loop is the
end of the names in their order, and the colour counter counts the buses with
a route before that), the palette (a colour was there for every bus so far), and
the content: the picture consists of the shapes of the loops that are over and,
of the one that runs, of those of the names that had their turn.  The names of a `std::map` are
given by rank, the number of names before them, so that the next name of the loop over all
buses is the next one of the buses that have a route (`DueNext`), which is where its
line and its label find the same colour.  `DrawOutcome`, `ColoursAgree` and the order of the
layers follow from there.  `PictureIsTheDocuments` then puts the document in the place of the
catalogue, shape by shape (`LineAsGiven`, `NameAsGiven`, `PlaceAsDeclared`): the route is
stored backwards, drawn backwards, and so is the document's again.
For `InsideImage`, what is as wide and as high as the places are apart fits into the
room between the margins and fills its width or its height (`ZoomFits`), whichever
of the two ratios is the smaller one, and each axis has a place at both ends (`EndsOfAxes`).

`JsonBuilderProofs` proves, for any keys and values and any number of calls, that
the builder's pointers stay valid (`NoDanglingPointer`), that a caller who keeps to
the grammar meets no error (`GrammarIsEnough`), and `TypeOK`.  The program has no
argument for the pointers; this is the one the proof found: a container that is
open lies in the container below it on the stack, as its *last* element or under
the pending key, and only the innermost one grows.  So whatever moves when a
vector grows was never on the stack.  Formally, addresses grow inwards: `Newer`
says that a container's address is above all those of what the containers below
it hold, but for the open one itself, and `OpenAndWhole` that everything on
the stack is a container and everything else complete.  `NodePlaced`, `StayKeeps`,
`PushKeeps` and `PopKeeps` say what placing a node, growing, opening and closing
do to that order.

It also proves that `JsonBuilder` implements `JsonTree` (`BuildsTheDocument`): a caller
who keeps to the grammar gets the document that his calls describe, of any size and any
depth.  The mapping reads documents off memory (`Tree`), so the first thing to prove is
that memory has trees at all: `Nested` says that what a node holds lies deeper than the
node, for some bounded depth, and from it `TreesExist` and `TreeUnfolds` follow by
induction over the depth, set by set, which needs no induction theorem with an operator
for a parameter (`SetInduction`).  The invariant `FInv` then says that memory is a forest:
no node is held twice, and nothing holds the outermost open container.  It is what the
pointers' validity leaves out: with an element shared between two containers no pointer
would dangle, and a value could still turn up in the document twice.  Memory grows in
one way (`Grows`), whether a vector moves its elements, a map takes a member or a first
node is made, and `RegrownTrees` says that this changes the trees of open containers
only.  What the document shows of an open container leaves out the element or member that
is still open, so all containers but the innermost stay as they were (`LowerContainer`);
the innermost one changes as `JsonTree` says (`KeyTop`, `ValueTop`, `StartTop`, `EndTop`).
`NextIsNext` puts these together, one lemma for each kind of call.

`RenderSettingsProofs` proves, for every document and any two widths of which one
divides the other, that the settings survive the file (`SettingsAsBuilt`) and that
both ways refuse the same documents (`RefusedAlike`).  The invariant says how much
of the document the message holds (`WrittenSoFar`) and how much of the message the
settings hold (`ReadSoFar`).  Two lemmas carry it: `NarrowAfterWide`, that a
channel which passes through the wider type of the file is cut off to the same byte
(the only place where the widths matter), and `StopsWhereBuilderStops`, that the
first fault the writer meets is one the builder may meet: the builder reads the
channels of a colour in the arguments of one call, which are evaluated in an order
that is left open.

From the assumptions: there is at least one vertex, weights are integers, base
documents consist of requests as `Request` describes them, and the sentinels
differ from the values they stand beside.  What is loaded into a catalogue and not
read back from a file (`TransportRouter`, `ResponseBuilder`, `MapRenderer`) comes
from documents on which `DBBuilder` does not throw.  The documents of `RenderSettings` have
all members of the settings (a number may be `Missing`), and colours consist of nodes.  For
`TransportRouter` and `ResponseBuilder` every stop that a document mentions is declared by
it, or it has a null (`AllDeclared`): of any other document no catalogue is loaded
(`LoadOutcome`).  `road_distances` is a map (`json::Dict`), the speed is
positive, names are ordered without ties, the value for no pending key is none
of the keys of the answers, and the builder's value for no address and no key
is neither an address nor a key.

Only model-checked: liveness, which needs fairness, and everything about `JsonText`,
whose printer is a `RECURSIVE` operator.

## What the runs found out

Facts about the code that are true, that no comment mentions, and that the
properties state:

* A base document in which one bus has a hop without a road answers no request at
  all, not even one for a stop; so does one request for a route with an unknown
  stop (`ResponseOutcome`).  The same goes for a road of negative length that a bus
  takes, and for a negative wait or velocity.
* A negative `bus_wait_time` makes the constructor throw as soon as there is a stop,
  like a road of negative length that a bus takes (`ConstructorOutcome`).
* Printing and loading a document turns empty arrays into `[null]`, removes tabs
  from strings, rounds doubles to six digits (55.611087 becomes 55.6111) and makes
  whole ones integers, but from a million on: 1000000.0 is printed as 1e+06 and stays
  a double.  A document with a double that is nan, infinite or rounded below the least
  normal double is printed as a text that cannot be loaded (`RoundTrip` of `JsonText`).
  An empty array of requests counts as one with a null.
* Of a database cut inside a stop, a stop of the empty name or one at the wrong place
  may be loaded; the stops before it keep their ids (`IdsResolve`).
* Of a key given twice the loader keeps the first value, the builder the second.
* Without an underlayer colour the file turns "no colour" into the empty string
  (`SettingsAsBuilt`); nothing can show it, because there is no palette then, and
  without a palette no map of a bus can be drawn (`DrawOutcome`).
* Stops whose latitudes, or longitudes, differ by less than `EPSILON` are ignored
  by the zoom, which then may place them outside the image; the comment
  `map_renderer.h:88` speaks of coordinates inside it.  `InsideImage` excludes
  them: at a distance of 1e-6 degrees this needs an image of immense height.

## Not modelled

Floating point: rounding, and infinity and NaN from a zero velocity or in the
table; the curvature of a bus without a chord is a value of its own in
`ResponseBuilder`.  Coordinates on the sphere: `ComputeDistance` is a table.  The
text of an SVG document, including names written without escapes, and the sizes,
offsets and fonts of its shapes.  Of numbers as text, the digits beyond those of a decimal that a
double tells apart, and which way a double in the very middle between two
roundings goes, since its binary digits decide.  The console entry points, which call the same loader and printer.  The
context classes of the JSON builder: they exclude some calls at compile time,
which the arbitrary caller of `JsonBuilder` makes as well.  The copy that
`Builder::Value` returns: the program drops it.

Nearly all lines of the repository are vendored headers of Protocol Buffers and
files that CMake generated; the program's own sources have about 2900 lines,
most of which the modules cover.  The vendored library is only modelled as far as
the program relies on it: repeated fields keep their order, absent fields read as
defaults, parsing keeps what it read before an error, the unfinished element included.
