-------------------------- MODULE ResponseBuilder --------------------------
(***************************************************************************)
(* JSONReader::JsonResponseBuilder (json_reader.cpp): the stat requests of *)
(* a document are answered one after the other from a catalogue, through   *)
(* calls of json::Builder, of which what JsonTree promises is used.  An    *)
(* exception leaves the function, and main with it: no request is answered *)
(* then, those before the one that threw included.                         *)
(*                                                                         *)
(* One action takes one request and gathers the calls its answer consists  *)
(* of; then there is one action per call.  What CustomRouteFinder finds    *)
(* and the picture MapRenderer draws come from outside this module.        *)
(***************************************************************************)
EXTENDS JSONReader

CONSTANTS
  Documents,    (* base documents the catalogue was loaded from            *)
  StatDocs,     (* arrays "stat_requests", or Absent                       *)
  Absent,
  NameRank,     (* the order of std::string on names                       *)
  Distances,    (* ComputeDistance, a function on pairs of coordinates     *)
  RoutingSettings, (* wait_factor_ and speed_factor_, of which the sign    *)
                   (* matters here                                         *)
  Ids,          (* request ids                                             *)
  Null, NoKey

(* What the code tells apart in an element of "stat_requests"; the types   *)
(* are those of Request.                                                   *)
StatRequest ==
       [type : {"Bus", "Stop"}, id : Ids, name : Names]
  \cup [type : {"Map"}, id : Ids]
  \cup [type : {"Route"}, id : Ids, from : Names, to : Names]
  \cup [type : {"Other", "Malformed", "Null"}]

(* The keys of the answers.                                                *)
AnswerKeys ==
  {"request_id", "error_message", "stop_count", "unique_stop_count", "route_length",
   "curvature", "buses", "map", "total_time", "items", "type", "stop_name", "time",
   "bus", "span_count"}

ASSUME ResponseAssumption ==
  /\ \A base \in Documents :
       /\ base \in Seq(Request) /\ ~ DBBuilderThrows(base)
       /\ AllDeclared(base) /\ RoadsAreMaps(base)
  /\ \A stat \in StatDocs : stat = Absent \/ stat \in Seq(StatRequest)
  /\ NameRank \in [Names -> Nat]
  /\ \A m, n \in Names : NameRank[m] = NameRank[n] => m = n
  /\ Distances \in [Coordinates \X Coordinates -> Nat]
  /\ \A c, d \in Coordinates : (Distances[<<c, d>>] = 0) <=> (c = d)
  /\ \A c, d \in Coordinates : Distances[<<c, d>>] = Distances[<<d, c>>]
  /\ RoutingSettings \subseteq [wait_factor : Int, speed_factor : Int \ {0}]
  /\ NoKey \notin AnswerKeys

VARIABLES
  base,               (* the base document, for the properties only        *)
  catalogue, stat,
  routing,            (* the routing settings                              *)
  literals,           (* what a string literal becomes in a json::Node     *)
  pc, i,
  calls,              (* calls of j_builder still to be made               *)
  open, root, phase   (* the state of j_builder, see JsonTree              *)

vars == <<base, catalogue, stat, routing, literals, pc, i, calls, open, root, phase>>

builder_vars == <<open, root, phase>>
input_vars == <<base, stat, routing, literals>>

(* Keys and Values only matter to the Next of JsonTree, not used here.     *)
Answer == INSTANCE JsonTree WITH Keys <- {}, Values <- {}

ComputeDistance(c, d) == Distances[<<c, d>>]

-----------------------------------------------------------------------------
(* Values and calls.                                                       *)

Int32(n)     == <<"int", n>>
Text(name)   == <<"string", name>>
Number(q)    == <<"double", q>>
Picture      == <<"string", "svg">>

(* Node::Value("...") from a const char*: the alternatives of the variant  *)
(* include bool and std::string, and compilers disagree about which a      *)
(* pointer is converted to.                                                *)
Literal(text) == IF literals = "bool" THEN <<"bool", "true">> ELSE <<"string", text>>

KeyCall(key)     == [call |-> "Key", key |-> key]
ValueCall(value) == [call |-> "Value", value |-> value]
StartCall(kind)  == [call |-> "Start", kind |-> kind]
EndCall(kind)    == [call |-> "End", kind |-> kind]

Pair(key, value) == <<KeyCall(key), ValueCall(value)>>
InDict(body)  == <<StartCall("dict")>> \o body \o <<EndCall("dict")>>
InArray(body) == <<StartCall("array")>> \o body \o <<EndCall("array")>>

IdPair(request) == Pair("request_id", Int32(request.id))
NotFoundPair == Pair("error_message", Text("not found"))

Allowed(call) ==
  CASE call.call = "Key"   -> Answer!MayKey
    [] call.call = "Value" -> Answer!MayValue
    [] call.call = "Start" -> Answer!MayValue
    [] call.call = "End"   -> Answer!MayEnd(call.kind)

Make(call) ==
  \/ call.call = "Key" /\ Answer!Key(call.key)
  \/ call.call = "Value" /\ Answer!Value(call.value)
  \/ call.call = "Start" /\ Answer!Start(call.kind)
  \/ call.call = "End" /\ Answer!End(call.kind)

-----------------------------------------------------------------------------
(* The answers.                                                            *)

(* A quotient of doubles; what is printed for 0 / 0 and x / 0 is no JSON.  *)
Quotient(length, chord) ==
  IF chord # 0 THEN <<length, chord>>
  ELSE IF length = 0 THEN <<"nan">> ELSE <<"inf">>

BusAnswer(request) ==
  LET name   == request.name
      length == BusRouteLength(catalogue, name)
  IN  InDict(IdPair(request) \o
        IF BusStopCount(catalogue, name) = -1 THEN NotFoundPair
        ELSE Pair("stop_count", Int32(BusStopCount(catalogue, name)))
             \o Pair("unique_stop_count", Int32(BusUniqStopCount(catalogue, name)))
             \o Pair("route_length", Number(length))
             \o Pair("curvature", Number(Quotient(length,
                       ChordLength(catalogue, name, Distances)))))

(* Buses come by address out of the stop and by name out of sort_buses:    *)
(* the k-th is the one that k - 1 names come before.                       *)
Sorted(names) ==
  [k \in 1 .. Cardinality(names) |->
    CHOOSE n \in names : Cardinality({m \in names : NameRank[m] < NameRank[n]}) = k - 1]

BusList(names) == [k \in 1 .. Cardinality(names) |-> ValueCall(Text(Sorted(names)[k]))]

StopAnswer(request) ==
  InDict(IdPair(request) \o
    IF request.name \notin StopNames(catalogue) THEN NotFoundPair
    ELSE <<KeyCall("buses")>> \o InArray(BusList(GetStopBuses(catalogue, request.name))))

MapAnswer(request) == InDict(IdPair(request) \o Pair("map", Picture))

(* CustomRouteFinder::RouteSearch: no sections from a stop to itself, else *)
(* none at all (time -1), or waits and rides by turns.                     *)
NotFound == [time |-> -1, items |-> <<>>]

Wait(stop) == [kind |-> "Wait", stop |-> stop, time |-> routing.wait_factor]
Ride(bus)  == [kind |-> "Ride", bus |-> bus, time |-> 5, span_count |-> 1]

FoundRoutes(from, to) ==
  IF from = to THEN {[time |-> 0, items |-> <<>>]}
  ELSE {NotFound} \cup
       {[time |-> routing.wait_factor + 5, items |-> <<Wait(from), Ride(bus)>>] :
          bus \in BusNames(catalogue)}

RouteThrows(request) ==
  request.from # request.to /\ ~ {request.from, request.to} \subseteq StopNames(catalogue)

Section(item) ==
  IF item.kind = "Wait"
    THEN InDict(Pair("type", Literal("Wait")) \o Pair("stop_name", Text(item.stop))
                \o Pair("time", Number(item.time)))
    ELSE InDict(Pair("type", Literal("Bus")) \o Pair("bus", Text(item.bus))
                \o Pair("time", Number(item.time)) \o Pair("span_count", Int32(item.span_count)))

SectionsUnclosed(items) == <<StartCall("array")>> \o FlattenSeq([k \in DOMAIN items |-> Section(items[k])])
Sections(items) == InArray(FlattenSeq([k \in DOMAIN items |-> Section(items[k])]))

RouteAnswer(request, found) ==
  InDict(IdPair(request) \o
    IF found.time = -1 THEN NotFoundPair
    ELSE Pair("total_time", Number(found.time)) \o <<KeyCall("items")>> \o Sections(found.items))

-----------------------------------------------------------------------------
(* JsonResponseBuilder.                                                    *)

Init ==
  /\ base \in Documents /\ stat \in StatDocs /\ routing \in RoutingSettings
  /\ catalogue = DBBuilder(base)
  /\ literals \in {"bool", "string"}
  /\ pc = "router" /\ i = 1 /\ calls = <<>>
  /\ Answer!Init

(* The constructor of CustomRouteFinder measures every hop of every route, *)
(* whether a Route is asked for or not.                                    *)
HopWithoutRoad(cat) == \E bus \in BusNames(cat) : ~ HasRouteLength(cat, bus)

(* A round trip is travelled against the order in which it is stored, a    *)
(* chain both ways.                                                        *)
TravelledHops(cat, name) ==
  LET bus  == cat.buses[name]
      back == {<<bus.route[n], bus.route[n - 1]>> : n \in 2 .. Len(bus.route)}
  IN  IF bus.is_chain THEN back \cup {<<hop[2], hop[1]>> : hop \in back} ELSE back

RideTime(length, settings) == length * settings.speed_factor

(* Then graph::Router refuses an edge with a negative weight: the wait at  *)
(* a stop, or the ride along some hops, of which one is negative then.     *)
NegativeRide(cat, settings) ==
  \E bus \in BusNames(cat) : \E hop \in TravelledHops(cat, bus) :
    RideTime(GetDistance(cat, hop[1], hop[2]), settings) < 0

NegativeWait(cat, settings) == settings.wait_factor < 0 /\ StopNames(cat) # {}

RouterThrowsLate(cat, settings) == HopWithoutRoad(cat) \/ NegativeWait(cat, settings)
RouterThrows(cat, settings) ==
  HopWithoutRoad(cat) \/ NegativeWait(cat, settings) \/ NegativeRide(cat, settings)

ConstructRouter ==
  /\ pc = "router"
  /\ pc' = IF RouterThrows(catalogue, routing) THEN "threw" ELSE "begin"
  /\ UNCHANGED <<input_vars, catalogue, i, calls, builder_vars>>

HasNullRequest == \E k \in DOMAIN stat : stat[k].type = "Null"

BeginWithNoRequests ==
  /\ pc = "begin"
  /\ stat = Absent
  /\ pc' = "build"
  /\ UNCHANGED <<input_vars, catalogue, i, calls, builder_vars>>

BeginArray ==
  /\ pc = "begin"
  /\ stat # Absent
  /\ calls' = <<StartCall("array")>>
  /\ pc' = IF HasNullRequest THEN "end" ELSE "requests"
  /\ UNCHANGED <<input_vars, catalogue, i, builder_vars>>

CallBuilder ==
  /\ calls # <<>>
  /\ Allowed(Head(calls)) /\ Make(Head(calls))
  /\ calls' = Tail(calls)
  /\ UNCHANGED <<input_vars, catalogue, pc, i>>

request == stat[i]

InRequest(type) ==
  pc = "requests" /\ calls = <<>> /\ i <= Len(stat) /\ request.type = type

AnswerWith(its_calls) ==
  /\ calls' = its_calls
  /\ i' = i + 1
  /\ UNCHANGED <<input_vars, catalogue, pc, builder_vars>>

BusRequest == InRequest("Bus") /\ AnswerWith(BusAnswer(request))
StopRequest == InRequest("Stop") /\ AnswerWith(StopAnswer(request))
MapRequest == InRequest("Map") /\ AnswerWith(MapAnswer(request))

RouteRequest ==
  /\ InRequest("Route")
  /\ ~ RouteThrows(request)
  /\ \E found \in FoundRoutes(request.from, request.to) :
       AnswerWith(RouteAnswer(request, found))

(* A request of an unknown type is passed over.                            *)
AnsweredEmpty == InRequest("Other") /\ AnswerWith(InDict(<<>>))
OtherRequest == InRequest("Other") /\ AnswerWith(<<>>)

(* RouteSearch enters the name that stop_data_ has not got into the        *)
(* catalogue before it throws.                                             *)
RouteUnknown ==
  /\ InRequest("Route")
  /\ RouteThrows(request)
  /\ catalogue' = ReturnStop(catalogue, IF request.from \in StopNames(catalogue)
                                          THEN request.to ELSE request.from)
  /\ pc' = "threw"
  /\ UNCHANGED <<input_vars, i, calls, builder_vars>>

(* A member that is missing or of another kind.                            *)
MalformedRequest ==
  /\ InRequest("Malformed")
  /\ pc' = "threw"
  /\ UNCHANGED <<input_vars, catalogue, i, calls, builder_vars>>

RequestsDone ==
  /\ pc = "requests" /\ calls = <<>> /\ i > Len(stat)
  /\ pc' = "end"
  /\ UNCHANGED <<input_vars, catalogue, i, calls, builder_vars>>

EndOfArray ==
  /\ pc = "end" /\ calls = <<>>
  /\ calls' = <<EndCall("array")>>
  /\ pc' = "build"
  /\ UNCHANGED <<input_vars, catalogue, i, builder_vars>>

(* The document is what Build returns, root from now on.                   *)
Build ==
  /\ pc = "build" /\ calls = <<>>
  /\ pc' = "done"
  /\ UNCHANGED <<input_vars, catalogue, i, calls, builder_vars>>

Next ==
  \/ ConstructRouter \/ BeginWithNoRequests \/ BeginArray \/ CallBuilder
  \/ BusRequest \/ StopRequest \/ MapRequest \/ RouteRequest \/ OtherRequest
  \/ RouteUnknown \/ MalformedRequest \/ RequestsDone \/ EndOfArray \/ Build

Spec == Init /\ [][Next]_vars

-----------------------------------------------------------------------------
(* Safety.                                                                 *)

(* Every call that comes next is one the grammar of JSON allows, on every  *)
(* way through the answers: as the builder checks nothing, a call out of   *)
(* place would be undefined behaviour or a document other than meant.      *)
CallsKeepToGrammar ==
  /\ calls # <<>> => Allowed(Head(calls))
  /\ pc = "done" => open = <<>> /\ (stat # Absent => phase = "done")

Answered(k) == stat[k].type \in {"Bus", "Stop", "Map", "Route"}

(* How many of the first n requests get an answer; hence the place of the  *)
(* answer to the n-th, if it gets one.                                     *)
AnsweredAmong(n) == Cardinality({k \in 1 .. n : Answered(k)})

(* The answers that are complete.                                          *)
Answers ==
  IF phase = "done" THEN root.elements
  ELSE IF open = <<>> THEN <<>> ELSE open[1].node.elements

HasId(answer, id) ==
  "request_id" \in DOMAIN answer.members /\ answer.members["request_id"].value = Int32(id)

(* Each request that was taken has one answer, under its own id and in the *)
(* place of the request; requests of an unknown type leave no gap.  With a *)
(* null among the requests, which is how an empty array is loaded, the     *)
(* answer is an empty array: the requests beside that null are not looked  *)
(* at.  Without "stat_requests" it is null.                                *)
AnswersInOrder ==
  /\ (stat # Absent /\ pc # "threw" /\ calls = <<>> /\ ~ HasNullRequest) =>
       /\ Len(Answers) = AnsweredAmong(i - 1)
       /\ \A k \in 1 .. i - 1 :
            Answered(k) => HasId(Answers[AnsweredAmong(k)], stat[k].id)
  /\ pc = "done" => /\ stat = Absent => root = Answer!Leaf(Null)
                    /\ stat # Absent /\ HasNullRequest => root = Answer!EmptyContainer("array")

-----------------------------------------------------------------------------
(* What the answers say, from the base document alone.                     *)

BusesNamed(name) ==
  IF HasNull(base) THEN {}
  ELSE {k \in DOMAIN base : base[k].type = "Bus" /\ base[k].name = name}

CoordinatesOf(stop) ==
  base[Max({k \in DOMAIN base : base[k].type = "Stop" /\ base[k].name = stop})].coordinates

DocumentChord(bus) ==
  FoldLeft(LAMBDA sum, hop :
             sum + ComputeDistance(CoordinatesOf(hop[1]), CoordinatesOf(hop[2])),
           0, DocumentHops(bus))

MembersOf(answer) == answer.members
ValueOf(answer, key) == MembersOf(answer)[key].value

AnswersTo(type) ==
  IF stat = Absent \/ pc = "threw" \/ calls # <<>> \/ HasNullRequest THEN {}
  ELSE {<<stat[k], Answers[AnsweredAmong(k)]>> : k \in {n \in 1 .. i - 1 : stat[n].type = type}}

(* An answer about a bus describes the way its request takes: the stops    *)
(* passed, there and back for a chain, the different ones among them, and  *)
(* the length of the road, hop by hop, over that of the crow's flight; the *)
(* latter is a number exactly if the bus goes between places apart.  Only  *)
(* a bus the document does not have is "not found".                        *)
BusAnswersAreTheDocuments ==
  \A a \in AnswersTo("Bus") :
    LET buses == BusesNamed(a[1].name)
    IN  /\ buses = {} => DOMAIN MembersOf(a[2]) = {"request_id", "error_message"}
        /\ Cardinality(buses) = 1 =>
             LET bus   == base[CHOOSE k \in buses : TRUE]
                 hops  == DocumentHops(bus)
                 chord == DocumentChord(bus)
             IN  /\ ValueOf(a[2], "stop_count") =
                      Int32(IF bus.stops = <<>> THEN 0 ELSE Len(hops) + 1)
                 /\ ValueOf(a[2], "unique_stop_count") = Int32(Cardinality(ToSet(bus.stops)))
                 /\ ValueOf(a[2], "route_length") = Number(DocumentLength(base, bus))
                 /\ LET curvature == ValueOf(a[2], "curvature")[2]
                    IN  IF \E k \in DOMAIN hops : CoordinatesOf(hops[k][1]) # CoordinatesOf(hops[k][2])
                          THEN curvature = <<DocumentLength(base, bus), chord>>
                          ELSE curvature \in {<<"nan">>, <<"inf">>}

(* An answer about a stop lists, in the order of the names and each once,  *)
(* the buses whose requests name the stop; only a stop that no request     *)
(* mentions is "not found", one without buses has an empty list.           *)
StopAnswersAreTheDocuments ==
  \A a \in AnswersTo("Stop") :
    LET name   == a[1].name
        known  == ~ HasNull(base) /\ name \in DeclaredStops(base) \cup MentionedStops(base)
        buses  == {base[k].name : k \in {n \in DOMAIN base :
                                     base[n].type = "Bus" /\ name \in ToSet(base[n].stops)}}
        list   == [k \in DOMAIN MembersOf(a[2])["buses"].elements |->
                     MembersOf(a[2])["buses"].elements[k].value[2]]
    IN  IF ~ known THEN DOMAIN MembersOf(a[2]) = {"request_id", "error_message"}
        ELSE /\ ToSet(list) = buses
             /\ \A m, n \in DOMAIN list : m < n => NameRank[list[m]] < NameRank[list[n]]

(* All the numbers and names of the answers are those of the documents,    *)
(* also of answers after others: no request disturbs the catalogue.        *)
AnswersAreTheDocuments == BusAnswersAreTheDocuments /\ StopAnswersAreTheDocuments

(* The hops that buses make, and the stops there are.                      *)
AllHops ==
  IF HasNull(base) THEN {}
  ELSE UNION {ToSet(DocumentHops(base[k])) : k \in {n \in DOMAIN base : base[n].type = "Bus"}}

KnownStops == IF HasNull(base) THEN {} ELSE DeclaredStops(base) \cup MentionedStops(base)

(* Each bus has one request: a second one would lengthen the route of the  *)
(* first.                                                                  *)
BusesDeclaredOnce ==
  \A k, n \in DOMAIN base :
    base[k].type = "Bus" /\ base[n].type = "Bus" /\ base[k].name = base[n].name => k = n

(* Whether anything is answered at all can be told from the documents: the *)
(* function throws exactly if a hop, in the direction some bus makes it,   *)
(* has no road or one that takes less than no time; if the wait at a stop  *)
(* does; if a request is malformed; or if a Route goes between different   *)
(* names of which one is unknown.  Once the router is there every hop has  *)
(* a road, so that no length of a route that is asked for throws.          *)
ResponseOutcome ==
  LET impassable == \E hop \in AllHops : HasRoad(base, hop[1], hop[2]) =>
                      RideTime(RoadLength(base, hop[1], hop[2]), routing) < 0
      refused == impassable \/ (routing.wait_factor < 0 /\ KnownStops # {})
      bad(k) == \/ stat[k].type = "Malformed"
                \/ /\ stat[k].type = "Route" /\ stat[k].from # stat[k].to
                   /\ ~ {stat[k].from, stat[k].to} \subseteq KnownStops
      cause == \/ refused
               \/ stat # Absent /\ ~ HasNullRequest /\ \E k \in DOMAIN stat : bad(k)
  IN  BusesDeclaredOnce =>
        /\ pc = "threw" => cause
        /\ pc = "done" => ~ cause
        /\ pc \notin {"router", "threw"} =>
             \A hop \in AllHops : HasRoad(base, hop[1], hop[2])

-----------------------------------------------------------------------------
(* A comment of the code.                                                  *)

(* In the loop of BusRouteLength key.first is called the destination and   *)
(* key.second the origin: if that is so, the bus makes each hop from       *)
(* key.second to key.first.  (Of a bus with one request that is.)          *)
KeyNamesDestinationFirst ==
  LET buses == BusesNamed(request.name)
      route == catalogue.buses[request.name].route
  IN  (InRequest("Bus") /\ Cardinality(buses) = 1) =>
        \A n \in 2 .. Len(route) :
          <<route[n - 1], route[n]>> \in ToSet(DocumentHops(base[CHOOSE k \in buses : TRUE]))
=============================================================================
