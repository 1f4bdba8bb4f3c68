--------------------------- MODULE Serialization ---------------------------
(***************************************************************************)
(* main (main.cpp) and data_serialization::Serializer (serialization.h and *)
(* .cpp): a run of the program reads the base document and writes it to a  *)
(* database file, then reads a database file back into a catalogue and     *)
(* answers the stat requests from it.  Runs follow each other; what        *)
(* survives from one to the next is the disk.  A run may be killed between *)
(* any two steps, and ends early when an exception leaves main.            *)
(*                                                                         *)
(* One action is one iteration of a loop of the code, or the straight-line *)
(* code between two loops.  CURRENT_ID_ is bounded by the names in the     *)
(* documents; int does not overflow.                                       *)
(***************************************************************************)
EXTENDS JSONReader

CONSTANTS
  Files,           (* names of database files                              *)
  MakeDocs,        (* base documents: [file, base, two kinds of settings]  *)
  ProcessDocs,     (* request documents: [file]                            *)
  NoFile,          (* the document has no "serialization_settings"         *)
  Unreadable,      (* the document cannot be loaded, or names no file      *)
  Absent, Bad,     (* settings not given; settings that make a getter throw *)
  DefaultSettings, (* what proto3 yields for settings that were not stored *)
  Missing,         (* no such file                                         *)
  Settings,        (* settings a file may hold, half of some among them    *)
  NoName, Zero,    (* what proto3 yields for a name, for coordinates       *)
  TornNumbers,     (* what a number with missing bytes may be read as      *)
  TornIds,         (* what may be read behind the ids that are whole       *)
  MaxRuns          (* bound on the number of runs                          *)

FileField == Files \cup {NoFile, Unreadable}

ASSUME SerializationAssumption ==
  /\ MaxRuns \in Nat
  /\ {NoFile, Unreadable} \cap Files = {}
  /\ {Absent, Bad} \cap (Settings \cup {DefaultSettings}) = {}
  /\ MakeDocs \subseteq [file : FileField, base : Seq(Request),
                         render_settings : Settings \cup {Absent, Bad},
                         routing_settings : Settings \cup {Absent, Bad}]
  /\ ProcessDocs \subseteq [file : FileField]
  /\ NoName \in Names /\ Zero \in Coordinates
  /\ TornNumbers \subseteq Int /\ 0 \in TornNumbers
  /\ TornIds \subseteq Seq(Int)

(* The message catalog_proto::TransportCatalogue                           *)
Message ==
  [buses       : Seq([name : Names, stop_ids : Seq(Int), is_roundtrip : BOOLEAN]),
   stops       : Seq([id : Int, name : Names, coordinates : Coordinates]),
   distances   : Seq([from : Int, to : Int, distance : Int]),
   render_set  : Settings \cup {DefaultSettings},
   routing_set : Settings \cup {DefaultSettings}]

ASSUME MissingAssumption == Missing \notin Message

EmptyMessage ==
  [buses |-> <<>>, stops |-> <<>>, distances |-> <<>>,
   render_set |-> DefaultSettings, routing_set |-> DefaultSettings]

VARIABLES
  disk,        (* file -> Missing or the message its bytes hold            *)
  writable,    (* db_files/ exists and its files can be opened for writing *)
  result,      (* what json_result.json was computed from                  *)
  runs,
  pc,
  make_doc, process_doc,
  is_open,     (* the ofstream could be opened                             *)
  i, j,        (* loop counters                                            *)
  stop_ids,    (* stop_ids_                                                *)
  CURRENT_ID,
  proto,       (* the message being built, later the one parsed            *)
  bus_ids,     (* stop_ids of the Bus message under construction           *)
  id_stops,    (* id_stops_                                                *)
  catalogue,   (* catalogue_ of the deserialising Serializer               *)
  outcome,     (* how the last run ended                                   *)
  origin       (* history: file -> the document completely written there   *)

doc_vars  == <<make_doc, process_doc, runs>>
disk_vars == <<disk, origin>>
id_vars   == <<stop_ids, CURRENT_ID>>
load_vars == <<id_stops, catalogue>>
vars == <<disk_vars, writable, result, doc_vars, pc, is_open, i, j, id_vars,
          proto, bus_ids, load_vars, outcome>>

NoDoc == [file |-> NoFile, base |-> <<>>, render_settings |-> Absent,
          routing_settings |-> Absent]

Init ==
  /\ disk = [f \in Files |-> Missing]
  /\ origin = [f \in Files |-> NoDoc]
  /\ writable \in BOOLEAN
  /\ result = Missing
  /\ runs = 0
  /\ pc = "idle"
  /\ make_doc = NoDoc /\ process_doc = [file |-> NoFile]
  /\ is_open = FALSE
  /\ i = 1 /\ j = 1
  /\ stop_ids = EmptyMap /\ CURRENT_ID = 0
  /\ proto = EmptyMessage /\ bus_ids = <<>>
  /\ id_stops = EmptyMap /\ catalogue = EmptyCatalogue
  /\ outcome = "none"

(* main begins with fresh objects.                                         *)
Start(make, process) ==
  /\ pc = "idle"
  /\ runs < MaxRuns
  /\ runs' = runs + 1
  /\ make_doc' = make /\ process_doc' = process
  /\ pc' = "make"
  /\ outcome' = "running"
  /\ is_open' = FALSE
  /\ i' = 1 /\ j' = 1
  /\ stop_ids' = EmptyMap /\ CURRENT_ID' = 0
  /\ proto' = EmptyMessage /\ bus_ids' = <<>>
  /\ id_stops' = EmptyMap /\ catalogue' = EmptyCatalogue
  /\ UNCHANGED <<disk_vars, writable, result>>

(* An exception nobody catches.                                            *)
Throw(name) == pc' = "idle" /\ outcome' = name

-----------------------------------------------------------------------------
(* ToFileSerializer                                                        *)

MakeThrow ==
  /\ pc = "make"
  /\ make_doc.file = Unreadable
  /\ Throw("document_threw")
  /\ UNCHANGED <<disk_vars, writable, result, doc_vars, is_open, i, j, id_vars,
                 proto, bus_ids, load_vars>>

MakeSkipped ==
  /\ pc = "make"
  /\ make_doc.file = NoFile
  /\ pc' = "process"
  /\ UNCHANGED <<disk_vars, writable, result, doc_vars, is_open, i, j, id_vars,
                 proto, bus_ids, load_vars, outcome>>

(* Opening the stream truncates the file, before anything is serialised.   *)
KeepUntilWritten(f) == UNCHANGED disk_vars
Truncate(f) ==
  /\ disk' = [disk EXCEPT ![f] = EmptyMessage]
  /\ origin' = [origin EXCEPT ![f] = NoDoc]

OpenFile ==
  /\ pc = "make"
  /\ make_doc.file \in Files
  /\ is_open' = writable
  /\ IF writable THEN Truncate(make_doc.file) ELSE UNCHANGED disk_vars
  /\ pc' = IF HasNull(make_doc.base) THEN "settings" ELSE "requests"
  /\ UNCHANGED <<writable, result, doc_vars, i, j, id_vars, proto, bus_ids,
                 load_vars, outcome>>

(* SetStopByName: the id of a stop, the next one if the name is new        *)
IdOf(name) ==
  IF name \in DOMAIN stop_ids THEN stop_ids[name] ELSE CURRENT_ID + 1

SetStopByName(name) ==
  /\ CURRENT_ID' = IF name \in DOMAIN stop_ids THEN CURRENT_ID ELSE CURRENT_ID + 1
  /\ stop_ids' = Insert(stop_ids, name, CURRENT_ID + 1)

request == make_doc.base[i]

InRequests(type) ==
  /\ pc = "requests"
  /\ i <= Len(make_doc.base)
  /\ request.type = type

BusRequest ==
  /\ InRequests("Bus")
  /\ pc' = "bus"
  /\ j' = 1
  /\ bus_ids' = <<>>
  /\ UNCHANGED <<disk_vars, writable, result, doc_vars, is_open, i, id_vars,
                 proto, load_vars, outcome>>

BusStop ==
  /\ pc = "bus"
  /\ j <= Len(request.stops)
  /\ SetStopByName(request.stops[j])
  /\ bus_ids' = Append(bus_ids, IdOf(request.stops[j]))
  /\ j' = j + 1
  /\ UNCHANGED <<disk_vars, writable, result, doc_vars, pc, is_open, i, proto,
                 load_vars, outcome>>

BusEnd ==
  /\ pc = "bus"
  /\ j > Len(request.stops)
  /\ proto' = [proto EXCEPT !.buses =
                Append(@, [name |-> request.name, stop_ids |-> bus_ids,
                           is_roundtrip |-> request.is_roundtrip])]
  /\ i' = i + 1
  /\ pc' = "requests"
  /\ UNCHANGED <<disk_vars, writable, result, doc_vars, is_open, j, id_vars,
                 bus_ids, load_vars, outcome>>

StopRequest ==
  /\ InRequests("Stop")
  /\ SetStopByName(request.name)
  /\ proto' = [proto EXCEPT !.stops =
                Append(@, [id |-> IdOf(request.name), name |-> request.name,
                           coordinates |-> request.coordinates])]
  /\ pc' = "distances"
  /\ j' = 1
  /\ UNCHANGED <<disk_vars, writable, result, doc_vars, is_open, i, bus_ids,
                 load_vars, outcome>>

StopDistance ==
  /\ pc = "distances"
  /\ j <= Len(request.road_distances)
  /\ LET to     == request.road_distances[j][1]
         length == request.road_distances[j][2]
     IN  /\ SetStopByName(to)
         /\ proto' = [proto EXCEPT !.distances =
                       Append(@, [from |-> stop_ids[request.name], to |-> IdOf(to),
                                  distance |-> length])]
  /\ j' = j + 1
  /\ UNCHANGED <<disk_vars, writable, result, doc_vars, pc, is_open, i, bus_ids,
                 load_vars, outcome>>

StopEnd ==
  /\ pc = "distances"
  /\ j > Len(request.road_distances)
  /\ i' = i + 1
  /\ pc' = "requests"
  /\ UNCHANGED <<disk_vars, writable, result, doc_vars, is_open, j, id_vars,
                 proto, bus_ids, load_vars, outcome>>

OtherRequest ==
  /\ InRequests("Other")
  /\ i' = i + 1
  /\ UNCHANGED <<disk_vars, writable, result, doc_vars, pc, is_open, j, id_vars,
                 proto, bus_ids, load_vars, outcome>>

MalformedRequest ==
  /\ InRequests("Malformed")
  /\ Throw("make_threw")
  /\ UNCHANGED <<disk_vars, writable, result, doc_vars, is_open, i, j, id_vars,
                 proto, bus_ids, load_vars>>

RequestsDone ==
  /\ pc = "requests"
  /\ i > Len(make_doc.base)
  /\ pc' = "settings"
  /\ UNCHANGED <<disk_vars, writable, result, doc_vars, is_open, i, j, id_vars,
                 proto, bus_ids, load_vars, outcome>>

(* RenderSettingsSerializer, then RoutingSettingsSerializer: a getter may   *)
(* throw, as AsInt does on a velocity with a fraction.                     *)
SettingsBad == Bad \in {make_doc.render_settings, make_doc.routing_settings}

Stored(settings) == IF settings = Absent THEN DefaultSettings ELSE settings

SettingsSerializer ==
  /\ pc = "settings"
  /\ ~ SettingsBad
  /\ proto' = [proto EXCEPT !.render_set = Stored(make_doc.render_settings),
                            !.routing_set = Stored(make_doc.routing_settings)]
  /\ pc' = "write"
  /\ UNCHANGED <<disk_vars, writable, result, doc_vars, is_open, i, j, id_vars,
                 bus_ids, load_vars, outcome>>

SettingsThrow ==
  /\ pc = "settings"
  /\ SettingsBad
  /\ Throw("make_threw")
  /\ UNCHANGED <<disk_vars, writable, result, doc_vars, is_open, i, j, id_vars,
                 proto, bus_ids, load_vars>>

(* On a stream that is not open nothing is written, and nobody asks.       *)
StillBuffered(f) == UNCHANGED disk_vars
SerializeToOstream(f) ==
  /\ disk' = [disk EXCEPT ![f] = proto]
  /\ origin' = [origin EXCEPT ![f] = make_doc]

WriteFile ==
  /\ pc = "write"
  /\ IF is_open THEN SerializeToOstream(make_doc.file) ELSE UNCHANGED disk_vars
  /\ pc' = "process"
  /\ UNCHANGED <<writable, result, doc_vars, is_open, i, j, id_vars, proto,
                 bus_ids, load_vars, outcome>>

-----------------------------------------------------------------------------
(* FromFileDeserializer                                                    *)

ProcessThrow ==
  /\ pc = "process"
  /\ process_doc.file = Unreadable
  /\ Throw("document_threw")
  /\ UNCHANGED <<disk_vars, writable, result, doc_vars, is_open, i, j, id_vars,
                 proto, bus_ids, load_vars>>

(* Without serialization_settings the answer is an empty document.         *)
ProcessSkipped ==
  /\ pc = "process"
  /\ process_doc.file = NoFile
  /\ pc' = "output"
  /\ UNCHANGED <<disk_vars, writable, result, doc_vars, is_open, i, j, id_vars,
                 proto, bus_ids, load_vars, outcome>>

(* The verdict of ParseFromIstream is ignored: no file, an empty file and  *)
(* an empty message are all the same.                                      *)
ContentsUnchecked(f) == disk[f]
Contents(f) == IF disk[f] = Missing THEN EmptyMessage ELSE disk[f]

ParseFile ==
  /\ pc = "process"
  /\ process_doc.file \in Files
  /\ proto' = Contents(process_doc.file)
  /\ i' = 1
  /\ pc' = "set_stops"
  /\ UNCHANGED <<disk_vars, writable, result, doc_vars, is_open, j, id_vars,
                 bus_ids, load_vars, outcome>>

(* id_stops_.insert keeps the name an id already has; an assignment would  *)
(* not.                                                                    *)
AssignStop(stop) == (stop.id :> stop.name) @@ id_stops
InsertStop(stop) == Insert(id_stops, stop.id, stop.name)

SetNextStop ==
  /\ pc = "set_stops"
  /\ i <= Len(proto.stops)
  /\ LET stop == proto.stops[i]
     IN  /\ catalogue' = SetStop(catalogue, stop.name, stop.coordinates)
         /\ id_stops' = InsertStop(stop)
  /\ i' = i + 1
  /\ UNCHANGED <<disk_vars, writable, result, doc_vars, pc, is_open, j, id_vars,
                 proto, bus_ids, outcome>>

(* The three loops follow each other.                                      *)
NextLoop(from, elements, to) ==
  /\ pc = from
  /\ i > Len(elements)
  /\ i' = 1
  /\ pc' = to
  /\ UNCHANGED <<disk_vars, writable, result, doc_vars, is_open, j, id_vars,
                 proto, bus_ids, load_vars, outcome>>

BusesAtOnce == NextLoop("set_stops", proto.stops, "set_buses")
StopsSet == NextLoop("set_stops", proto.stops, "set_distances")

DistancesSet == NextLoop("set_distances", proto.distances, "set_buses")

BusesSet == NextLoop("set_buses", proto.buses, "respond")

(* id_stops_.at throws for a stop that was mentioned but has no message.   *)
SetNextDistance ==
  /\ pc = "set_distances"
  /\ i <= Len(proto.distances)
  /\ LET d == proto.distances[i]
     IN  IF {d.from, d.to} \subseteq DOMAIN id_stops
           THEN /\ catalogue' = SetStopDistance(catalogue, id_stops[d.from],
                                                id_stops[d.to], d.distance)
                /\ i' = i + 1
                /\ UNCHANGED <<pc, outcome>>
           ELSE /\ Throw("load_threw")
                /\ UNCHANGED <<catalogue, i>>
  /\ UNCHANGED <<disk_vars, writable, result, doc_vars, is_open, j, id_vars,
                 proto, bus_ids, id_stops>>

RouteAsStored(names) == names
RouteFromIds(names) == Reverse(names)

SetNextBus ==
  /\ pc = "set_buses"
  /\ i <= Len(proto.buses)
  /\ LET bus == proto.buses[i]
         ids == bus.stop_ids
     IN  IF \A k \in DOMAIN ids : ids[k] \in DOMAIN id_stops
           THEN /\ catalogue' =
                     SetBus(catalogue, bus.name,
                            RouteFromIds([k \in DOMAIN ids |-> id_stops[ids[k]]]),
                            ~ bus.is_roundtrip)
                /\ i' = i + 1
                /\ UNCHANGED <<pc, outcome>>
           ELSE /\ Throw("load_threw")
                /\ UNCHANGED <<catalogue, i>>
  /\ UNCHANGED <<disk_vars, writable, result, doc_vars, is_open, j, id_vars,
                 proto, bus_ids, id_stops>>

(* JsonResponseBuilder is not modelled here; it answers or it throws.      *)
Respond ==
  /\ pc = "respond"
  /\ \/ pc' = "output" /\ UNCHANGED outcome
     \/ Throw("respond_threw")
  /\ UNCHANGED <<disk_vars, writable, result, doc_vars, is_open, i, j, id_vars,
                 proto, bus_ids, load_vars>>

(* JsonFileWrite                                                           *)
WriteResult ==
  /\ pc = "output"
  /\ result' = IF process_doc.file = NoFile THEN NoDoc
               ELSE [catalogue |-> catalogue, render_settings |-> proto.render_set,
                     routing_settings |-> proto.routing_set]
  /\ pc' = "idle"
  /\ outcome' = "done"
  /\ UNCHANGED <<disk_vars, writable, doc_vars, is_open, i, j, id_vars, proto,
                 bus_ids, load_vars>>

-----------------------------------------------------------------------------
(* The environment.                                                        *)

(* What a write that was cut short leaves.  A message is written field by  *)
(* field, in the order of their numbers.  The parser keeps what it has     *)
(* read when the bytes end, the unfinished element included: of that, the  *)
(* fields before the cut are whole, those behind it have their defaults,   *)
(* and the one that was cut itself may be read as anything, since the      *)
(* parser takes up bytes that have been in its buffer before.              *)
TornBus(bus) ==
  LET fresh == [name |-> NoName, stop_ids |-> <<>>, is_roundtrip |-> FALSE]
      ids   == bus.stop_ids
  IN  {[fresh EXCEPT !.name = name] : name \in Names}
        \cup {[bus EXCEPT !.stop_ids = <<>>, !.is_roundtrip = round] : round \in BOOLEAN}
        \cup UNION {{[bus EXCEPT !.stop_ids = SubSeq(ids, 1, n) \o torn] :
                        torn \in TornIds} : n \in 0 .. Len(ids)}

TornStop(stop) ==
  {[id |-> id, name |-> NoName, coordinates |-> Zero] : id \in TornNumbers}
    \cup {[stop EXCEPT !.name = name, !.coordinates = Zero] : name \in Names}
    \cup {[stop EXCEPT !.coordinates = place] : place \in Coordinates}

TornDistance(d) ==
  {[from |-> from, to |-> 0, distance |-> 0] : from \in TornNumbers}
    \cup {[d EXCEPT !.to = to, !.distance = 0] : to \in TornNumbers}
    \cup {[d EXCEPT !.distance = distance] : distance \in TornNumbers}

(* The elements before the n-th are whole; torn[n] is what it may be.      *)
CutWithin(seq, torn) ==
  UNION {{Append(SubSeq(seq, 1, n - 1), rest) : rest \in torn[n]}
           \cup {SubSeq(seq, 1, n - 1)} : n \in DOMAIN seq}

CutBuses(m) ==
  CutWithin(m.buses, [n \in DOMAIN m.buses |-> TornBus(m.buses[n])])

CutStops(m) ==
  CutWithin(m.stops, [n \in DOMAIN m.stops |-> TornStop(m.stops[n])])

CutDistances(m) ==
  CutWithin(m.distances, [n \in DOMAIN m.distances |-> TornDistance(m.distances[n])])

CutSettings == Settings \cup {DefaultSettings}

Cuts(m) ==
  {[EmptyMessage EXCEPT !.buses = buses] : buses \in CutBuses(m)}
    \cup {[EmptyMessage EXCEPT !.buses = m.buses, !.stops = stops] : stops \in CutStops(m)}
    \cup {[m EXCEPT !.distances = distances, !.render_set = DefaultSettings,
                     !.routing_set = DefaultSettings] : distances \in CutDistances(m)}
    \cup {[m EXCEPT !.render_set = set, !.routing_set = DefaultSettings] : set \in CutSettings}
    \cup {[m EXCEPT !.routing_set = set] : set \in CutSettings}

Kill ==
  /\ pc # "idle"
  /\ pc' = "idle"
  /\ outcome' = "killed"
  /\ IF pc = "write" /\ is_open
       THEN \E cut \in Cuts(proto) : disk' = [disk EXCEPT ![make_doc.file] = cut]
       ELSE UNCHANGED disk
  /\ IF pc = "output" THEN result' \in {result, Missing} ELSE UNCHANGED result
  /\ UNCHANGED <<origin, writable, doc_vars, is_open, i, j, id_vars, proto,
                 bus_ids, load_vars>>

(* Between two runs the directory becomes writable, or no longer is.       *)
ChangeAccess ==
  /\ pc = "idle"
  /\ runs < MaxRuns
  /\ writable' = ~ writable
  /\ UNCHANGED <<disk_vars, result, doc_vars, pc, is_open, i, j, id_vars, proto,
                 bus_ids, load_vars, outcome>>

Make ==
  \/ MakeThrow \/ MakeSkipped \/ OpenFile \/ BusRequest \/ BusStop \/ BusEnd
  \/ StopRequest \/ StopDistance \/ StopEnd \/ OtherRequest \/ MalformedRequest
  \/ RequestsDone \/ SettingsSerializer \/ SettingsThrow \/ WriteFile

Process ==
  \/ ProcessThrow \/ ProcessSkipped \/ ParseFile \/ SetNextStop \/ StopsSet
  \/ SetNextDistance \/ DistancesSet \/ SetNextBus \/ BusesSet \/ Respond \/ WriteResult

Next ==
  \/ \E make \in MakeDocs, process \in ProcessDocs : Start(make, process)
  \/ Make
  \/ Process
  \/ Kill
  \/ ChangeAccess

Spec == Init /\ [][Next]_vars

-----------------------------------------------------------------------------
(* Type invariant.                                                         *)

BuildingPcs == {"requests", "bus", "distances", "settings", "write"}
LoadingPcs  == {"set_stops", "set_distances", "set_buses", "respond"}

(* Every variable of the program stays in its type; in particular what is  *)
(* handed to the loading loops is always a message, even where the         *)
(* database is missing or was cut short (the ignored ParseFromIstream).    *)
TypeOK ==
  /\ disk \in [Files -> Message \cup {Missing}]
  /\ origin \in [Files -> MakeDocs \cup {NoDoc}]
  /\ writable \in BOOLEAN /\ is_open \in BOOLEAN
  /\ runs \in 0 .. MaxRuns
  /\ pc \in {"idle", "make", "process", "output"} \cup BuildingPcs \cup LoadingPcs
  /\ make_doc \in MakeDocs \cup {NoDoc}
  /\ process_doc \in ProcessDocs \cup {[file |-> NoFile]}
  /\ i \in Nat \ {0} /\ j \in Nat \ {0}
  /\ IsPartialFunction(stop_ids, Names, Nat) /\ CURRENT_ID \in Nat
  /\ proto \in Message
  /\ bus_ids \in Seq(Int)
  /\ IsPartialFunction(id_stops, Int, Names)
  /\ CatalogueType(catalogue)
  /\ pc \in {"bus", "distances"} => i \in DOMAIN make_doc.base
  /\ pc = "bus" => request.type = "Bus"
  /\ pc = "distances" => request.type = "Stop" /\ request.name \in DOMAIN stop_ids
  /\ pc \in BuildingPcs => make_doc.file \in Files
  /\ is_open => make_doc.file \in Files
  /\ pc \in LoadingPcs => process_doc.file \in Files

-----------------------------------------------------------------------------
(* Safety.                                                                 *)

(* Names have the numbers 1 .. last, without a gap, and no two the same.   *)
OneToOne(ids, last) ==
  /\ ids \in [DOMAIN ids -> 1 .. last]
  /\ \A id \in 1 .. last : \E name \in DOMAIN ids : ids[name] = id
  /\ \A a, b \in DOMAIN ids : ids[a] = ids[b] => a = b

(* Every id in a message is the id of a name that has one.                 *)
NumberedBy(m, ids, last) ==
  /\ \A k \in DOMAIN m.stops :
       m.stops[k].name \in DOMAIN ids /\ m.stops[k].id = ids[m.stops[k].name]
  /\ \A k \in DOMAIN m.distances :
       m.distances[k].from \in 1 .. last /\ m.distances[k].to \in 1 .. last
  /\ \A k \in DOMAIN m.buses : \A n \in DOMAIN m.buses[k].stop_ids :
       m.buses[k].stop_ids[n] \in 1 .. last

(* SetStopByName numbers the names 1 .. CURRENT_ID without a gap and no two *)
(* names alike, and every id already put into the message, in a stop, a    *)
(* distance or a bus, is the id of a name that has one.                    *)
Numbering ==
  /\ OneToOne(stop_ids, CURRENT_ID)
  /\ pc \in BuildingPcs \cup {"make"} => NumberedBy(proto, stop_ids, CURRENT_ID)
  /\ pc = "bus" => \A n \in DOMAIN bus_ids : bus_ids[n] \in 1 .. CURRENT_ID

(* Among the stops at some places of a message, an id stands for one name  *)
(* and a name has one id.                                                  *)
OneIdPerName(m, places) ==
  \A k, n \in places :
    (m.stops[k].id = m.stops[n].id) <=> (m.stops[k].name = m.stops[n].name)

(* The stops of a message m, read from a file that doc was completely      *)
(* written to, or no document at all, which are known to be whole: if the  *)
(* write did not end and nothing follows the last stop, not that one.      *)
WholeStops(m, doc) ==
  {k \in DOMAIN m.stops : doc # NoDoc \/ m.distances # <<>> \/ k < Len(m.stops)}

StopsLoaded == IF pc = "set_stops" THEN 1 .. i - 1 ELSE DOMAIN proto.stops

LoadedWhole == StopsLoaded \cap WholeStops(proto, origin[process_doc.file])

(* In a file an id stands for one name only, whatever run left it there,   *)
(* finished or killed.                                                     *)
FilesResolve ==
  \A f \in Files : OneIdPerName(Contents(f), WholeStops(Contents(f), origin[f]))

(* Ids survive the disk: whatever was written gives an id to one name only, *)
(* and while a database is loaded id_stops_ holds the ids of the stops      *)
(* loaded so far and maps each to the name it was given.  A stop that was   *)
(* cut by a kill may come with any id and any name, also with the id of a   *)
(* whole stop under another name: it must not take that id away from it.    *)
IdsResolve ==
  /\ FilesResolve
  /\ pc \in BuildingPcs \cup {"make", "process"} => DOMAIN id_stops = {}
  /\ pc \in LoadingPcs =>
       /\ proto = Contents(process_doc.file)
       /\ StopsLoaded \subseteq DOMAIN proto.stops
       /\ DOMAIN id_stops = {proto.stops[k].id : k \in StopsLoaded}
       /\ \A k \in LoadedWhole : id_stops[proto.stops[k].id] = proto.stops[k].name

(* ReturnStop leaves the coordinates of a stop it creates uninitialised.   *)
(* Loading never exposes such a stop: distances and buses only name stops  *)
(* that were set before them, in a damaged database as well.               *)
NoPhantomStop ==
  /\ \A name \in StopNames(catalogue) :
       catalogue.stops[name].coordinates \in Coordinates
  /\ pc \in LoadingPcs =>
       \A id \in DOMAIN id_stops : id_stops[id] \in StopNames(catalogue)

(* At every step of the load a stop lists exactly the buses whose route    *)
(* passes it (GetStopBuses answers from one side, the map from the other). *)
StopsKnowTheirBuses == IndexConsistent(catalogue)

(* As long as a message is built, its file counts as unfinished.           *)
Unfinished == (pc \in BuildingPcs /\ is_open) => origin[make_doc.file] = NoDoc

(* What is proved invariant together.                                      *)
IInv ==
  TypeOK /\ Numbering /\ Unfinished /\ IdsResolve /\ NoPhantomStop /\ StopsKnowTheirBuses

(* The detour through the file loses nothing: a document that was written  *)
(* completely, in this run or an earlier one, loads as the very catalogue  *)
(* DBBuilder would have built from it, with the settings it gave.          *)
RoundTrip ==
  pc = "respond" =>
    LET doc == origin[process_doc.file]
    IN  doc # NoDoc =>
          /\ ~ DBBuilderThrows(doc.base) /\ catalogue = DBBuilder(doc.base)
          /\ proto.render_set = Stored(doc.render_settings)
          /\ proto.routing_set = Stored(doc.routing_settings)

(* id_stops_.at throws for a complete database exactly if its document     *)
(* mentions a stop it does not declare.                                    *)
LoadOutcome ==
  LET doc == origin[process_doc.file]
  IN  /\ pc = "respond" => (doc # NoDoc => AllDeclared(doc.base))
      /\ outcome = "load_threw" => (doc # NoDoc => ~ AllDeclared(doc.base))

(* A run that reads the file it wrote answers from its own document, never *)
(* from what an earlier run left there, provided the file could be opened. *)
FreshResult ==
  (outcome = "done" /\ is_open /\ process_doc.file = make_doc.file) =>
    result.catalogue = DBBuilder(make_doc.base)

(* Once a run has opened its database, nothing of an earlier run is in it: *)
(* however the run ends, the file is empty, cut short, or its own.         *)
NoStaleDatabase ==
  is_open => \/ origin[make_doc.file] = make_doc
             \/ disk[make_doc.file] = EmptyMessage
             \/ origin[make_doc.file] = NoDoc /\ outcome = "killed"
=============================================================================
