------------------------ MODULE SerializationProofs ------------------------
(***************************************************************************)
(* Serialization keeps IInv, and therefore its parts, whatever the         *)
(* documents, the names and the number of runs.  There is one lemma per    *)
(* action; actions that only move on share QuietStep.  The second part of  *)
(* the module proves RoundTrip and its kin from a second invariant, RInv.  *)
(***************************************************************************)
EXTENDS Serialization, JSONReaderProofs

-----------------------------------------------------------------------------
(* Numbering.                                                              *)

(* SetStopByName keeps the numbering one to one, changes the id of no name *)
(* and gives the stop the id that IdOf says.                               *)
LEMMA NameIsNumbered ==
  ASSUME IsPartialFunction(stop_ids, Names, Nat), CURRENT_ID \in Nat,
         OneToOne(stop_ids, CURRENT_ID),
         NEW name \in Names, SetStopByName(name)
  PROVE  /\ IsPartialFunction(stop_ids', Names, Nat)
         /\ CURRENT_ID' \in Nat /\ CURRENT_ID <= CURRENT_ID'
         /\ OneToOne(stop_ids', CURRENT_ID')
         /\ DOMAIN stop_ids' = DOMAIN stop_ids \cup {name}
         /\ \A n \in DOMAIN stop_ids : stop_ids'[n] = stop_ids[n]
         /\ IdOf(name) = stop_ids'[name]
         /\ IdOf(name) \in 1 .. CURRENT_ID'
<1>1. CASE name \in DOMAIN stop_ids
  <2>1. stop_ids' = stop_ids /\ CURRENT_ID' = CURRENT_ID
    BY <1>1 DEF SetStopByName, Insert
  <2>2. IdOf(name) = stop_ids[name] /\ stop_ids[name] \in 1 .. CURRENT_ID
    BY <1>1 DEF IdOf, OneToOne
  <2> QED
    BY <1>1, <2>1, <2>2, SMTT(30)
<1>2. CASE name \notin DOMAIN stop_ids
  <2>1. CURRENT_ID' = CURRENT_ID + 1 /\ IdOf(name) = CURRENT_ID + 1
    BY <1>2 DEF SetStopByName, IdOf
  <2>2. stop_ids' = [n \in DOMAIN stop_ids \cup {name} |->
                      IF n = name THEN CURRENT_ID + 1 ELSE stop_ids[n]]
    BY <1>2 DEF SetStopByName, Insert, Assign
  <2>3. /\ DOMAIN stop_ids' = DOMAIN stop_ids \cup {name}
        /\ stop_ids'[name] = CURRENT_ID + 1
        /\ \A n \in DOMAIN stop_ids : stop_ids'[n] = stop_ids[n]
    BY <1>2, <2>2
  <2>4. \A n \in DOMAIN stop_ids : stop_ids[n] \in 1 .. CURRENT_ID
    BY DEF OneToOne
  <2>5. stop_ids' \in [DOMAIN stop_ids' -> 1 .. CURRENT_ID + 1]
    BY <2>2, <2>4
  <2>6. ASSUME NEW id \in 1 .. CURRENT_ID + 1
        PROVE  \E n \in DOMAIN stop_ids' : stop_ids'[n] = id
    <3>1. CASE id = CURRENT_ID + 1
      BY <2>3, <3>1
    <3>2. CASE id # CURRENT_ID + 1
      <4>1. id \in 1 .. CURRENT_ID
        BY <3>2
      <4> QED
        BY <2>3, <4>1 DEF OneToOne
    <3> QED
      BY <3>1, <3>2
  <2>7. ASSUME NEW a \in DOMAIN stop_ids', NEW b \in DOMAIN stop_ids',
               stop_ids'[a] = stop_ids'[b]
        PROVE  a = b
    <3>1. CURRENT_ID + 1 \notin 1 .. CURRENT_ID
      OBVIOUS
    <3>2. CASE a = name
      BY <2>3, <2>4, <2>7, <3>1, <3>2
    <3>3. CASE b = name
      BY <2>3, <2>4, <2>7, <3>1, <3>3
    <3>4. CASE a # name /\ b # name
      BY <2>3, <2>7, <3>4 DEF OneToOne
    <3> QED
      BY <3>2, <3>3, <3>4
  <2>8. OneToOne(stop_ids', CURRENT_ID')
    BY <2>1, <2>5, <2>6, <2>7 DEF OneToOne
  <2>9. IsPartialFunction(stop_ids', Names, Nat)
    BY <2>2, <2>3 DEF IsPartialFunction
  <2> QED
    BY <2>1, <2>3, <2>8, <2>9
<1> QED
  BY <1>1, <1>2

(* What a message refers to stays valid while names are added.             *)
LEMMA NumberedStays ==
  ASSUME NEW m, NEW ids, NEW more, NEW last \in Nat, NEW later \in Nat,
         NumberedBy(m, ids, last), last <= later,
         DOMAIN ids \subseteq DOMAIN more,
         \A n \in DOMAIN ids : more[n] = ids[n]
  PROVE  NumberedBy(m, more, later)
<1>1. \A id \in 1 .. last : id \in 1 .. later
  OBVIOUS
<1> QED
  BY <1>1 DEF NumberedBy

(* In a message that is numbered one to one an id stands for one name.     *)
LEMMA NumberedOneIdPerName ==
  ASSUME NEW m, NEW ids, NEW last, OneToOne(ids, last), NumberedBy(m, ids, last)
  PROVE  OneIdPerName(m, DOMAIN m.stops)
BY DEF OneToOne, NumberedBy, OneIdPerName

(* Of what is true of all stops, the whole ones are a part.                *)
LEMMA WholeAreStops ==
  ASSUME NEW m, NEW doc
  PROVE  WholeStops(m, doc) \subseteq DOMAIN m.stops
BY DEF WholeStops

LEMMA WholeOneIdPerName ==
  ASSUME NEW m, NEW doc, OneIdPerName(m, DOMAIN m.stops)
  PROVE  OneIdPerName(m, WholeStops(m, doc))
BY WholeAreStops DEF OneIdPerName

(* The empty message has no stop.                                          *)
LEMMA EmptyResolves ==
  ASSUME NEW doc
  PROVE  EmptyMessage \in Message /\ OneIdPerName(EmptyMessage, WholeStops(EmptyMessage, doc))
BY DEF EmptyMessage, Message, OneIdPerName, WholeStops

(* A row of elements that is cut has elements that are whole, and at most  *)
(* one behind them.                                                        *)
WholeButLast(cut, seq) ==
  \A k \in DOMAIN cut : k < Len(cut) => k \in DOMAIN seq /\ cut[k] = seq[k]

LEMMA CutWithinRow ==
  ASSUME NEW S, NEW seq \in Seq(S), NEW torn, \A n \in DOMAIN seq : torn[n] \subseteq S,
         NEW cut \in CutWithin(seq, torn)
  PROVE  cut \in Seq(S) /\ WholeButLast(cut, seq)
<1> USE DEF WholeButLast
<1>1. PICK n \in DOMAIN seq :
        cut \in {Append(SubSeq(seq, 1, n - 1), rest) : rest \in torn[n]}
                 \cup {SubSeq(seq, 1, n - 1)}
  BY DEF CutWithin
<1> DEFINE front == SubSeq(seq, 1, n - 1)
<1>2. /\ front \in Seq(S) /\ Len(front) = n - 1
      /\ \A k \in 1 .. n - 1 : front[k] = seq[k] /\ k \in DOMAIN seq
  OBVIOUS
<1>3. n - 1 \in Nat
  OBVIOUS
<1>4. (\E rest \in S : cut = Append(front, rest)) \/ cut = front
  BY <1>1
<1> HIDE DEF front
<1>5. CASE cut = front
  BY <1>2, <1>3, <1>5
<1>6. ASSUME NEW rest \in S, cut = Append(front, rest)
      PROVE  /\ cut \in Seq(S)
             /\ \A k \in DOMAIN cut : k < Len(cut) => k \in DOMAIN seq /\ cut[k] = seq[k]
  <2>1. /\ cut \in Seq(S) /\ Len(cut) = n
        /\ \A k \in 1 .. n - 1 : cut[k] = front[k]
    BY <1>2, <1>3, <1>6
  <2>2. \A k \in DOMAIN cut : k < Len(cut) => k \in 1 .. n - 1
    BY <1>3, <2>1
  <2> QED
    BY <1>2, <2>1, <2>2
<1> QED
  BY <1>4, <1>5, <1>6

(* What is left of a message is a message.                                 *)
LEMMA TornType ==
  ASSUME NEW m \in Message
  PROVE  /\ \A n \in DOMAIN m.buses :
              TornBus(m.buses[n]) \subseteq
                [name : Names, stop_ids : Seq(Int), is_roundtrip : BOOLEAN]
         /\ \A n \in DOMAIN m.stops :
              TornStop(m.stops[n]) \subseteq [id : Int, name : Names, coordinates : Coordinates]
         /\ \A n \in DOMAIN m.distances :
              TornDistance(m.distances[n]) \subseteq [from : Int, to : Int, distance : Int]
<1> DEFINE SB == [name : Names, stop_ids : Seq(Int), is_roundtrip : BOOLEAN]
           SS == [id : Int, name : Names, coordinates : Coordinates]
           SD == [from : Int, to : Int, distance : Int]
<1>1. ASSUME NEW bus \in SB PROVE TornBus(bus) \subseteq SB
  <2>1. /\ bus.stop_ids \in Seq(Int) /\ <<>> \in Seq(Int)
        /\ bus.name \in Names /\ bus.is_roundtrip \in BOOLEAN
    OBVIOUS
  <2>2. \A n \in 0 .. Len(bus.stop_ids), torn \in TornIds :
          SubSeq(bus.stop_ids, 1, n) \o torn \in Seq(Int)
    <3> TAKE n \in 0 .. Len(bus.stop_ids), torn \in TornIds
    <3>1. SubSeq(bus.stop_ids, 1, n) \in Seq(Int) /\ torn \in Seq(Int)
      BY <2>1, SerializationAssumption
    <3> QED
      BY <3>1
  <2> SUFFICES ASSUME NEW t \in TornBus(bus) PROVE t \in SB
    OBVIOUS
  <2> DEFINE fresh == [name |-> NoName, stop_ids |-> <<>>, is_roundtrip |-> FALSE]
             A == {[fresh EXCEPT !.name = name] : name \in Names}
             B == {[bus EXCEPT !.stop_ids = <<>>, !.is_roundtrip = round] : round \in BOOLEAN}
             C == UNION {{[bus EXCEPT !.stop_ids = SubSeq(bus.stop_ids, 1, n) \o torn] :
                            torn \in TornIds} : n \in 0 .. Len(bus.stop_ids)}
  <2>0. TornBus(bus) = A \cup B \cup C
    BY DEF TornBus
  <2>3. \/ \E name \in Names :
             t = [[name |-> NoName, stop_ids |-> <<>>, is_roundtrip |-> FALSE]
                    EXCEPT !.name = name]
        \/ \E round \in BOOLEAN : t = [bus EXCEPT !.stop_ids = <<>>, !.is_roundtrip = round]
        \/ \E n \in 0 .. Len(bus.stop_ids), torn \in TornIds :
             t = [bus EXCEPT !.stop_ids = SubSeq(bus.stop_ids, 1, n) \o torn]
    BY <2>0, ZenonT(30)
  <2>4. \A ids \in Seq(Int), round \in BOOLEAN :
          /\ [bus EXCEPT !.stop_ids = ids] \in SB
          /\ [bus EXCEPT !.stop_ids = ids, !.is_roundtrip = round] \in SB
    OBVIOUS
  <2>5. CASE \E name \in Names :
               t = [[name |-> NoName, stop_ids |-> <<>>, is_roundtrip |-> FALSE]
                      EXCEPT !.name = name]
    BY <2>1, <2>5
  <2>6. CASE \E round \in BOOLEAN : t = [bus EXCEPT !.stop_ids = <<>>, !.is_roundtrip = round]
    BY <2>1, <2>4, <2>6
  <2>7. CASE \E n \in 0 .. Len(bus.stop_ids), torn \in TornIds :
               t = [bus EXCEPT !.stop_ids = SubSeq(bus.stop_ids, 1, n) \o torn]
    BY <2>2, <2>4, <2>7
  <2> QED
    BY <2>3, <2>5, <2>6, <2>7
<1>2. ASSUME NEW stop \in SS PROVE TornStop(stop) \subseteq SS
  <2> SUFFICES ASSUME NEW t \in TornStop(stop) PROVE t \in SS
    OBVIOUS
  <2>1. \/ \E id \in TornNumbers : t = [id |-> id, name |-> NoName, coordinates |-> Zero]
        \/ \E name \in Names : t = [stop EXCEPT !.name = name, !.coordinates = Zero]
        \/ \E place \in Coordinates : t = [stop EXCEPT !.coordinates = place]
    BY DEF TornStop
  <2>2. TornNumbers \subseteq Int /\ NoName \in Names /\ Zero \in Coordinates
    BY SerializationAssumption
  <2>3. \A name \in Names, place \in Coordinates :
          /\ [stop EXCEPT !.name = name, !.coordinates = Zero] \in SS
          /\ [stop EXCEPT !.coordinates = place] \in SS
    BY <2>2
  <2>4. CASE \E id \in TornNumbers : t = [id |-> id, name |-> NoName, coordinates |-> Zero]
    BY <2>2, <2>4
  <2>5. CASE \E name \in Names : t = [stop EXCEPT !.name = name, !.coordinates = Zero]
    BY <2>2, <2>3, <2>5
  <2>6. CASE \E place \in Coordinates : t = [stop EXCEPT !.coordinates = place]
    BY <2>2, <2>3, <2>6
  <2> QED
    BY <2>1, <2>4, <2>5, <2>6
<1>3. ASSUME NEW d \in SD PROVE TornDistance(d) \subseteq SD
  <2> SUFFICES ASSUME NEW t \in TornDistance(d) PROVE t \in SD
    OBVIOUS
  <2>1. \/ \E from \in TornNumbers : t = [from |-> from, to |-> 0, distance |-> 0]
        \/ \E to \in TornNumbers : t = [d EXCEPT !.to = to, !.distance = 0]
        \/ \E distance \in TornNumbers : t = [d EXCEPT !.distance = distance]
    BY DEF TornDistance
  <2>2. TornNumbers \subseteq Int /\ 0 \in TornNumbers
    BY SerializationAssumption
  <2>3. /\ \A n, k \in Int : [d EXCEPT !.to = n, !.distance = k] \in SD
        /\ \A n \in Int : [d EXCEPT !.distance = n] \in SD
    <3>1. \A n, k \in Int : [d EXCEPT !.to = n, !.distance = k] \in SD
      OBVIOUS
    <3>2. \A n \in Int : [d EXCEPT !.distance = n] \in SD
      OBVIOUS
    <3> HIDE DEF SD
    <3> QED
      BY <3>1, <3>2
  <2>4. CASE \E from \in TornNumbers : t = [from |-> from, to |-> 0, distance |-> 0]
    BY <2>2, <2>4
  <2>5. CASE \E to \in TornNumbers : t = [d EXCEPT !.to = to, !.distance = 0]
    BY <2>2, <2>3, <2>5
  <2>6. CASE \E distance \in TornNumbers : t = [d EXCEPT !.distance = distance]
    BY <2>2, <2>3, <2>6
  <2> QED
    BY <2>1, <2>4, <2>5, <2>6
<1>4. m.buses \in Seq(SB) /\ m.stops \in Seq(SS) /\ m.distances \in Seq(SD)
  BY DEF Message
<1> HIDE DEF SB, SS, SD
<1>5. /\ \A n \in DOMAIN m.buses : m.buses[n] \in SB
      /\ \A n \in DOMAIN m.stops : m.stops[n] \in SS
      /\ \A n \in DOMAIN m.distances : m.distances[n] \in SD
  BY <1>4
<1>6. /\ \A n \in DOMAIN m.buses : TornBus(m.buses[n]) \subseteq SB
      /\ \A n \in DOMAIN m.stops : TornStop(m.stops[n]) \subseteq SS
      /\ \A n \in DOMAIN m.distances : TornDistance(m.distances[n]) \subseteq SD
  BY <1>1, <1>2, <1>3, <1>5
<1> QED
  BY <1>6 DEF SB, SS, SD

(* What is left of a message that was cut is a message, and among its      *)
(* whole stops an id stands for one name.                                  *)
LEMMA CutResolves ==
  ASSUME NEW m \in Message, OneIdPerName(m, DOMAIN m.stops), NEW cut \in Cuts(m)
  PROVE  cut \in Message /\ OneIdPerName(cut, WholeStops(cut, NoDoc))
<1> DEFINE SB == [name : Names, stop_ids : Seq(Int), is_roundtrip : BOOLEAN]
           SS == [id : Int, name : Names, coordinates : Coordinates]
           SD == [from : Int, to : Int, distance : Int]
<1>1. m.buses \in Seq(SB) /\ m.stops \in Seq(SS) /\ m.distances \in Seq(SD)
  BY DEF Message
<1>2. /\ \A n \in DOMAIN m.buses : TornBus(m.buses[n]) \subseteq SB
      /\ \A n \in DOMAIN m.stops : TornStop(m.stops[n]) \subseteq SS
      /\ \A n \in DOMAIN m.distances : TornDistance(m.distances[n]) \subseteq SD
  BY TornType
<1>3. /\ EmptyMessage \in Message
      /\ EmptyMessage.stops = <<>> /\ EmptyMessage.distances = <<>>
  BY DEF EmptyMessage, Message
<1>4. ASSUME NEW buses \in CutBuses(m), cut = [EmptyMessage EXCEPT !.buses = buses]
      PROVE  cut \in Message /\ OneIdPerName(cut, WholeStops(cut, NoDoc))
  <2> HIDE DEF SB
  <2> DEFINE torn == [n \in DOMAIN m.buses |-> TornBus(m.buses[n])]
  <2>1. buses \in CutWithin(m.buses, torn) /\ \A n \in DOMAIN m.buses : torn[n] \subseteq SB
    BY <1>2, <1>4 DEF CutBuses
  <2> HIDE DEF torn
  <2>2. buses \in Seq(SB)
    BY <1>1, <2>1, CutWithinRow
  <2>3. cut \in Message /\ cut.stops = <<>>
    BY <1>3, <1>4, <2>2 DEF Message, SB
  <2> QED
    BY <2>3 DEF OneIdPerName, WholeStops
<1>5. ASSUME NEW stops \in CutStops(m),
             cut = [EmptyMessage EXCEPT !.buses = m.buses, !.stops = stops]
      PROVE  cut \in Message /\ OneIdPerName(cut, WholeStops(cut, NoDoc))
  <2> HIDE DEF SS
  <2> DEFINE torn == [n \in DOMAIN m.stops |-> TornStop(m.stops[n])]
  <2>1. stops \in CutWithin(m.stops, torn) /\ \A n \in DOMAIN m.stops : torn[n] \subseteq SS
    BY <1>2, <1>5 DEF CutStops
  <2> HIDE DEF torn
  <2>2. stops \in Seq(SS) /\ WholeButLast(stops, m.stops)
    BY <1>1, <2>1, CutWithinRow
  <2>3. cut \in Message /\ cut.stops = stops /\ cut.distances = <<>>
    BY <1>1, <1>3, <1>5, <2>2 DEF Message, SS
  <2>4. \A k \in WholeStops(cut, NoDoc) : k \in DOMAIN m.stops /\ cut.stops[k] = m.stops[k]
    BY <2>2, <2>3 DEF WholeStops, WholeButLast
  <2> QED
    BY <2>3, <2>4 DEF OneIdPerName
<1>6. ASSUME NEW distances \in CutDistances(m),
             cut = [m EXCEPT !.distances = distances, !.render_set = DefaultSettings,
                             !.routing_set = DefaultSettings]
      PROVE  cut \in Message /\ OneIdPerName(cut, WholeStops(cut, NoDoc))
  <2> HIDE DEF SD
  <2> DEFINE torn == [n \in DOMAIN m.distances |-> TornDistance(m.distances[n])]
  <2>1. /\ distances \in CutWithin(m.distances, torn)
        /\ \A n \in DOMAIN m.distances : torn[n] \subseteq SD
    BY <1>2, <1>6 DEF CutDistances
  <2> HIDE DEF torn
  <2>2. distances \in Seq(SD)
    BY <1>1, <2>1, CutWithinRow
  <2>3. cut \in Message /\ cut.stops = m.stops
    BY <1>6, <2>2 DEF Message, SD
  <2> QED
    BY <2>3, WholeOneIdPerName DEF OneIdPerName
<1>7. ASSUME NEW set \in CutSettings,
             \/ cut = [m EXCEPT !.render_set = set, !.routing_set = DefaultSettings]
             \/ cut = [m EXCEPT !.routing_set = set]
      PROVE  cut \in Message /\ OneIdPerName(cut, WholeStops(cut, NoDoc))
  <2>1. cut \in Message /\ cut.stops = m.stops
    BY <1>7 DEF Message, CutSettings
  <2> QED
    BY <2>1, WholeOneIdPerName DEF OneIdPerName
<1> QED
  BY <1>4, <1>5, <1>6, <1>7 DEF Cuts

(* What the files hold is a matter of the disk and of its history alone.   *)
LEMMA FilesKept ==
  ASSUME FilesResolve, UNCHANGED disk_vars
  PROVE  FilesResolve'
BY DEF FilesResolve, Contents, disk_vars

(* One file is written.                                                    *)
LEMMA OneFileWritten ==
  ASSUME FilesResolve, NEW g \in Files, NEW m \in Message, NEW doc,
         disk \in [Files -> Message \cup {Missing}], DOMAIN origin = Files,
         disk' = [disk EXCEPT ![g] = m], origin' = [origin EXCEPT ![g] = doc],
         OneIdPerName(m, WholeStops(m, doc))
  PROVE  FilesResolve'
<1>1. \A f \in Files \ {g} : Contents(f)' = Contents(f) /\ origin'[f] = origin[f]
  BY DEF Contents
<1>2. Contents(g)' = m /\ origin'[g] = doc
  BY MissingAssumption DEF Contents
<1> SUFFICES ASSUME NEW f \in Files
             PROVE  OneIdPerName(Contents(f)', WholeStops(Contents(f)', origin'[f]))
  BY DEF FilesResolve
<1>3. CASE f = g
  BY <1>2, <1>3
<1>4. CASE f # g
  BY <1>1, <1>4 DEF FilesResolve
<1> QED
  BY <1>3, <1>4

-----------------------------------------------------------------------------
(* What keeps the invariant, by the part of the run a step leads to.       *)

(* The requests of a document that is being read are requests.             *)
LEMMA RequestType ==
  ASSUME TypeOK, NEW k \in DOMAIN make_doc.base
  PROVE  LET r == make_doc.base[k]
         IN  /\ r.type = "Bus" => /\ r.name \in Names /\ r.stops \in Seq(Names)
                                  /\ r.is_roundtrip \in BOOLEAN
             /\ r.type = "Stop" => /\ r.name \in Names /\ r.coordinates \in Coordinates
                                   /\ r.road_distances \in Seq(Names \X Int)
<1> DEFINE r == make_doc.base[k]
<1>1. make_doc \in MakeDocs \/ make_doc = NoDoc
  BY DEF TypeOK
<1>2. make_doc # NoDoc
  BY DEF NoDoc
<1>3. make_doc.base \in Seq(Request)
  BY <1>1, <1>2, SerializationAssumption
<1>4. r \in Request
  BY <1>3
<1> HIDE DEF r
<1>5. /\ r.type = "Bus" => /\ r.name \in Names /\ r.stops \in Seq(Names)
                           /\ r.is_roundtrip \in BOOLEAN
      /\ r.type = "Stop" => /\ r.name \in Names /\ r.coordinates \in Coordinates
                            /\ r.road_distances \in Seq(Names \X Int)
  BY <1>4 DEF Request
<1> QED
  BY <1>5 DEF r

(* The requests of a document have consecutive places.                     *)
LEMMA BaseDomain ==
  ASSUME TypeOK, NEW k \in Nat \ {0}, k <= Len(make_doc.base)
  PROVE  k \in DOMAIN make_doc.base
<1>1. make_doc.base \in Seq(Request)
  BY SerializationAssumption DEF TypeOK, NoDoc
<1> QED
  BY <1>1

(* A step that ends a run, or passes on to reading without touching what   *)
(* was built.                                                              *)
LEMMA QuietStep ==
  ASSUME IInv, pc' \in {"idle", "process", "output"},
         pc' = "process" => DOMAIN id_stops = {},
         disk' \in [Files -> Message \cup {Missing}],
         origin' \in [Files -> MakeDocs \cup {NoDoc}],
         FilesResolve',
         writable' \in BOOLEAN,
         UNCHANGED <<doc_vars, is_open, i, j, id_vars, proto, bus_ids, load_vars>>
  PROVE  IInv'
<1> USE DEF IInv, BuildingPcs, LoadingPcs, doc_vars, id_vars, load_vars
<1>1. TypeOK'
  BY DEF TypeOK, request
<1>2. Numbering' /\ Unfinished'
  BY DEF Numbering, Unfinished
<1>3. IdsResolve'
  BY DEF IdsResolve
<1>4. NoPhantomStop'
  BY DEF NoPhantomStop
<1>5. StopsKnowTheirBuses'
  BY DEF StopsKnowTheirBuses
<1> QED
  BY <1>1, <1>2, <1>3, <1>4, <1>5

(* A step that builds the message.                                         *)
LEMMA BuildStep ==
  ASSUME IInv, pc \in BuildingPcs \cup {"make"}, pc' \in BuildingPcs,
         make_doc.file \in Files,
         is_open' => origin'[make_doc.file] = NoDoc,
         UNCHANGED <<writable, doc_vars, load_vars>>,
         is_open' \in BOOLEAN, i' \in Nat \ {0}, j' \in Nat \ {0},
         disk' \in [Files -> Message \cup {Missing}],
         origin' \in [Files -> MakeDocs \cup {NoDoc}],
         FilesResolve',
         IsPartialFunction(stop_ids', Names, Nat), CURRENT_ID' \in Nat,
         OneToOne(stop_ids', CURRENT_ID'),
         proto' \in Message, NumberedBy(proto', stop_ids', CURRENT_ID'),
         bus_ids' \in Seq(Int),
         pc' = "bus" => \A n \in DOMAIN bus_ids' : bus_ids'[n] \in 1 .. CURRENT_ID',
         pc' \in {"bus", "distances"} => i' \in DOMAIN make_doc.base,
         pc' = "bus" => make_doc.base[i'].type = "Bus",
         pc' = "distances" => /\ make_doc.base[i'].type = "Stop"
                              /\ make_doc.base[i'].name \in DOMAIN stop_ids'
  PROVE  IInv'
<1> USE DEF IInv, BuildingPcs, LoadingPcs, doc_vars, load_vars
<1>1. TypeOK'
  BY DEF TypeOK, request
<1>2. Numbering' /\ Unfinished'
  BY DEF Numbering, Unfinished
<1>3. IdsResolve'
  BY DEF IdsResolve
<1>4. NoPhantomStop'
  BY DEF NoPhantomStop
<1>5. StopsKnowTheirBuses'
  BY DEF StopsKnowTheirBuses
<1> QED
  BY <1>1, <1>2, <1>3, <1>4, <1>5

(* A step that loads a message into the catalogue.                         *)
LEMMA LoadStep ==
  ASSUME IInv, pc' \in LoadingPcs, process_doc.file \in Files,
         UNCHANGED <<disk_vars, writable, doc_vars, is_open, j, id_vars, bus_ids>>,
         i' \in Nat \ {0},
         proto' \in Message, proto' = Contents(process_doc.file),
         IsPartialFunction(id_stops', Int, Names),
         StopsLoaded' \subseteq DOMAIN proto'.stops,
         DOMAIN id_stops' = {proto'.stops[k].id : k \in StopsLoaded'},
         \A k \in LoadedWhole' : id_stops'[proto'.stops[k].id] = proto'.stops[k].name,
         CatalogueType(catalogue'), IndexConsistent(catalogue'),
         \A name \in StopNames(catalogue') :
           catalogue'.stops[name].coordinates \in Coordinates,
         \A id \in DOMAIN id_stops' : id_stops'[id] \in StopNames(catalogue')
  PROVE  IInv'
<1> USE DEF IInv, BuildingPcs, LoadingPcs, doc_vars, disk_vars, id_vars
<1>1. TypeOK'
  BY DEF TypeOK, request
<1>2. Numbering' /\ Unfinished'
  BY DEF Numbering, Unfinished
<1>3. IdsResolve'
  <2>1. FilesResolve'
    BY FilesKept DEF IdsResolve
  <2>2. Contents(process_doc.file)' = Contents(process_doc.file)
    BY DEF Contents
  <2> QED
    BY <2>1, <2>2 DEF IdsResolve
<1>4. NoPhantomStop'
  BY DEF NoPhantomStop
<1>5. StopsKnowTheirBuses'
  BY DEF StopsKnowTheirBuses
<1> QED
  BY <1>1, <1>2, <1>3, <1>4, <1>5

-----------------------------------------------------------------------------
(* One lemma per action, or per group of actions that do alike.            *)

(* A new run starts from nothing, on the disk as it is.                    *)
LEMMA StartStep ==
  ASSUME IInv, NEW make \in MakeDocs, NEW process \in ProcessDocs, Start(make, process)
  PROVE  IInv'
<1> USE DEF IInv, Start, BuildingPcs, LoadingPcs, disk_vars
<1>1. EmptyMessage \in Message /\ NumberedBy(EmptyMessage, EmptyMap, 0)
  BY DEF EmptyMessage, Message, NumberedBy
<1>2. CatalogueType(EmptyCatalogue) /\ IndexConsistent(EmptyCatalogue)
  BY DEF CatalogueType, IsPartialFunction, EmptyCatalogue, EmptyMap, IndexConsistent,
         StopNames, BusNames
<1>3. OneToOne(EmptyMap, 0) /\ IsPartialFunction(EmptyMap, Names, Nat)
      /\ IsPartialFunction(EmptyMap, Int, Names) /\ DOMAIN EmptyMap = {}
  BY DEF OneToOne, IsPartialFunction, EmptyMap
<1>4. runs' \in 0 .. MaxRuns
  BY SerializationAssumption DEF TypeOK
<1>5. TypeOK'
  <2>1. /\ disk' \in [Files -> Message \cup {Missing}]
        /\ origin' \in [Files -> MakeDocs \cup {NoDoc}]
        /\ writable' \in BOOLEAN /\ is_open' = FALSE
        /\ pc' = "make"
        /\ make_doc' \in MakeDocs \cup {NoDoc}
        /\ process_doc' \in ProcessDocs \cup {[file |-> NoFile]}
        /\ i' \in Nat \ {0} /\ j' \in Nat \ {0}
    BY DEF TypeOK
  <2>2. /\ IsPartialFunction(stop_ids', Names, Nat) /\ CURRENT_ID' \in Nat
        /\ proto' \in Message
        /\ bus_ids' \in Seq(Int)
        /\ IsPartialFunction(id_stops', Int, Names)
        /\ CatalogueType(catalogue')
    BY <1>1, <1>2, <1>3
  <2> QED
    BY <1>4, <2>1, <2>2 DEF TypeOK
<1>6. Numbering' /\ Unfinished'
  BY <1>1, <1>3 DEF Numbering, Unfinished
<1>7. IdsResolve'
  BY <1>3, FilesKept DEF IdsResolve
<1>8. NoPhantomStop'
  BY DEF NoPhantomStop, EmptyCatalogue, EmptyMap, StopNames
<1>9. StopsKnowTheirBuses'
  BY <1>2 DEF StopsKnowTheirBuses
<1> QED
  BY <1>5, <1>6, <1>7, <1>8, <1>9

(* Steps that leave the state of a run as it is but for where it goes on.  *)
LEMMA QuietActions ==
  ASSUME IInv,
         \/ MakeThrow \/ MakeSkipped \/ MalformedRequest \/ SettingsThrow
         \/ ProcessThrow \/ ProcessSkipped \/ Respond \/ WriteResult
  PROVE  IInv'
<1>1. /\ pc' \in {"idle", "process", "output"}
      /\ pc' = "process" => pc = "make"
      /\ UNCHANGED <<disk_vars, writable>>
      /\ UNCHANGED <<doc_vars, is_open, i, j, id_vars, proto, bus_ids, load_vars>>
  BY DEF MakeThrow, MakeSkipped, MalformedRequest, SettingsThrow, ProcessThrow,
         ProcessSkipped, Respond, WriteResult, Throw
<1>2. pc = "make" => DOMAIN id_stops = {}
  BY DEF IInv, IdsResolve
<1>3. /\ disk' \in [Files -> Message \cup {Missing}]
      /\ origin' \in [Files -> MakeDocs \cup {NoDoc}]
      /\ writable' \in BOOLEAN
      /\ FilesResolve'
  BY <1>1, FilesKept DEF IInv, TypeOK, IdsResolve, disk_vars
<1> QED
  BY <1>1, <1>2, <1>3, QuietStep

(* Between runs only the access to the directory changes.                  *)
LEMMA ChangeAccessStep ==
  ASSUME IInv, ChangeAccess
  PROVE  IInv'
<1>1. /\ pc' = "idle" /\ writable' \in BOOLEAN
      /\ UNCHANGED <<disk_vars, doc_vars, is_open, i, j, id_vars, proto, bus_ids, load_vars>>
  BY DEF ChangeAccess
<1>2. /\ disk' \in [Files -> Message \cup {Missing}]
      /\ origin' \in [Files -> MakeDocs \cup {NoDoc}]
      /\ FilesResolve'
  BY <1>1, FilesKept DEF IInv, TypeOK, IdsResolve, disk_vars
<1> QED
  BY <1>1, <1>2, QuietStep

(* An exception while loading ends the run.                                *)
LEMMA LoadStopped ==
  ASSUME IInv, pc' = "idle",
         UNCHANGED <<disk_vars, writable, doc_vars, is_open, j, id_vars, bus_ids>>,
         UNCHANGED <<i, proto, load_vars>>
  PROVE  IInv'
<1>1. /\ disk' \in [Files -> Message \cup {Missing}]
      /\ origin' \in [Files -> MakeDocs \cup {NoDoc}]
      /\ writable' \in BOOLEAN
      /\ FilesResolve'
  BY FilesKept DEF IInv, TypeOK, IdsResolve, disk_vars
<1> QED
  BY <1>1, QuietStep

(* A kill in the middle of the write leaves a part of the message.         *)
LEMMA KillStep ==
  ASSUME IInv, Kill
  PROVE  IInv'
<1>1. /\ pc' = "idle" /\ origin' = origin /\ writable' = writable
      /\ UNCHANGED <<doc_vars, is_open, i, j, id_vars, proto, bus_ids, load_vars>>
  BY DEF Kill
<1>2. /\ disk' \in [Files -> Message \cup {Missing}]
      /\ FilesResolve'
  <2>1. CASE pc = "write" /\ is_open
    <3>1. PICK cut \in Cuts(proto) : disk' = [disk EXCEPT ![make_doc.file] = cut]
      BY <2>1 DEF Kill
    <3>2. proto \in Message /\ make_doc.file \in Files
      BY <2>1 DEF IInv, TypeOK
    <3>3. OneIdPerName(proto, DOMAIN proto.stops) /\ origin[make_doc.file] = NoDoc
      BY <2>1, NumberedOneIdPerName DEF IInv, Numbering, Unfinished, BuildingPcs
    <3>4. cut \in Message /\ OneIdPerName(cut, WholeStops(cut, NoDoc))
      BY <3>1, <3>2, <3>3, CutResolves
    <3>5. /\ disk \in [Files -> Message \cup {Missing}] /\ FilesResolve
          /\ origin \in [Files -> MakeDocs \cup {NoDoc}] /\ DOMAIN origin = Files
      BY DEF IInv, TypeOK, IdsResolve
    <3>6. origin' = [origin EXCEPT ![make_doc.file] = NoDoc]
      BY <1>1, <3>2, <3>3, <3>5
    <3>7. FilesResolve'
      BY <3>1, <3>2, <3>4, <3>5, <3>6, OneFileWritten
    <3> QED
      BY <3>1, <3>4, <3>5, <3>7
  <2>2. CASE ~ (pc = "write" /\ is_open)
    <3>1. disk' = disk
      BY <2>2 DEF Kill
    <3> QED
      BY <1>1, <3>1, FilesKept DEF IInv, TypeOK, IdsResolve, disk_vars
  <2> QED
    BY <2>1, <2>2
<1>3. origin' \in [Files -> MakeDocs \cup {NoDoc}] /\ writable' \in BOOLEAN
  BY <1>1 DEF IInv, TypeOK
<1> QED
  BY <1>1, <1>2, <1>3, QuietStep

(* The message reaches the disk as a whole, if the file is open.           *)
LEMMA WriteFileStep ==
  ASSUME IInv, WriteFile
  PROVE  IInv'
<1>1. /\ pc = "write" /\ pc' = "process" /\ writable' = writable
      /\ UNCHANGED <<doc_vars, is_open, i, j, id_vars, proto, bus_ids, load_vars>>
  BY DEF WriteFile
<1>2. /\ proto \in Message /\ make_doc.file \in Files
      /\ OneIdPerName(proto, WholeStops(proto, make_doc))
  BY <1>1, NumberedOneIdPerName, WholeOneIdPerName DEF IInv, TypeOK, Numbering, BuildingPcs
<1>3. DOMAIN id_stops = {} /\ writable' \in BOOLEAN
  BY <1>1 DEF IInv, TypeOK, IdsResolve, BuildingPcs
<1>4. make_doc \in MakeDocs \cup {NoDoc}
  BY DEF IInv, TypeOK
<1>5. /\ disk \in [Files -> Message \cup {Missing}]
      /\ origin \in [Files -> MakeDocs \cup {NoDoc}]
      /\ FilesResolve
  BY DEF IInv, TypeOK, IdsResolve
<1>6. /\ disk' \in [Files -> Message \cup {Missing}]
      /\ origin' \in [Files -> MakeDocs \cup {NoDoc}]
      /\ FilesResolve'
  <2>1. CASE is_open
    <3>1. /\ disk' = [disk EXCEPT ![make_doc.file] = proto]
          /\ origin' = [origin EXCEPT ![make_doc.file] = make_doc]
      BY <2>1 DEF WriteFile, SerializeToOstream
    <3>2. DOMAIN origin = Files
      BY <1>5
    <3>3. FilesResolve'
      BY <1>2, <1>5, <3>1, <3>2, OneFileWritten
    <3> QED
      BY <1>2, <1>4, <1>5, <3>1, <3>3
  <2>2. CASE ~ is_open
    <3>1. UNCHANGED disk_vars
      BY <2>2 DEF WriteFile
    <3> QED
      BY <1>5, <3>1, FilesKept DEF disk_vars
  <2> QED
    BY <2>1, <2>2
<1> QED
  BY <1>1, <1>3, <1>6, QuietStep

(* The file is opened before the first request: the message is empty then. *)
LEMMA OpenFileStep ==
  ASSUME IInv, OpenFile
  PROVE  IInv'
<1>1. /\ pc = "make" /\ make_doc.file \in Files
      /\ pc' \in {"requests", "settings"}
      /\ is_open' = writable
      /\ UNCHANGED <<writable, doc_vars, i, j, id_vars, proto, bus_ids, load_vars>>
  BY DEF OpenFile
<1>2. /\ disk \in [Files -> Message \cup {Missing}]
      /\ origin \in [Files -> MakeDocs \cup {NoDoc}]
      /\ FilesResolve
      /\ writable \in BOOLEAN
      /\ i \in Nat \ {0} /\ j \in Nat \ {0}
  BY DEF IInv, TypeOK, IdsResolve
<1>3. EmptyMessage \in Message /\ OneIdPerName(EmptyMessage, WholeStops(EmptyMessage, NoDoc))
  BY EmptyResolves
<1>4. /\ disk' \in [Files -> Message \cup {Missing}]
      /\ origin' \in [Files -> MakeDocs \cup {NoDoc}]
      /\ FilesResolve'
      /\ is_open' => origin'[make_doc.file] = NoDoc
  <2>1. CASE writable
    <3>1. /\ disk' = [disk EXCEPT ![make_doc.file] = EmptyMessage]
          /\ origin' = [origin EXCEPT ![make_doc.file] = NoDoc]
      BY <2>1 DEF OpenFile, Truncate
    <3>2. DOMAIN origin = Files
      BY <1>2
    <3>3. FilesResolve'
      BY <1>1, <1>2, <1>3, <3>1, <3>2, OneFileWritten
    <3> QED
      BY <1>1, <1>2, <1>3, <2>1, <3>1, <3>3
  <2>2. CASE ~ writable
    <3>1. UNCHANGED disk_vars
      BY <2>2 DEF OpenFile
    <3> QED
      BY <1>1, <1>2, <2>2, <3>1, FilesKept DEF disk_vars
  <2> QED
    BY <2>1, <2>2
<1>5. /\ IsPartialFunction(stop_ids, Names, Nat) /\ CURRENT_ID \in Nat
      /\ OneToOne(stop_ids, CURRENT_ID)
      /\ proto \in Message /\ NumberedBy(proto, stop_ids, CURRENT_ID)
      /\ bus_ids \in Seq(Int)
  BY <1>1 DEF IInv, TypeOK, Numbering
<1> QED
  BY <1>1, <1>2, <1>4, <1>5, BuildStep DEF BuildingPcs, id_vars

(* What holds while the requests are read.                                 *)
LEMMA Building ==
  ASSUME IInv, pc \in BuildingPcs
  PROVE  /\ make_doc.file \in Files
         /\ is_open \in BOOLEAN /\ i \in Nat \ {0} /\ j \in Nat \ {0}
         /\ IsPartialFunction(stop_ids, Names, Nat) /\ CURRENT_ID \in Nat
         /\ OneToOne(stop_ids, CURRENT_ID)
         /\ proto \in Message /\ NumberedBy(proto, stop_ids, CURRENT_ID)
         /\ bus_ids \in Seq(Int)
BY DEF IInv, TypeOK, Numbering

(* BuildStep for the steps that leave the disk alone.                      *)
LEMMA RequestStep ==
  ASSUME IInv, pc \in BuildingPcs, pc' \in BuildingPcs,
         UNCHANGED <<disk_vars, writable, doc_vars, is_open, load_vars>>,
         i' \in Nat \ {0}, j' \in Nat \ {0},
         IsPartialFunction(stop_ids', Names, Nat), CURRENT_ID' \in Nat,
         OneToOne(stop_ids', CURRENT_ID'),
         proto' \in Message, NumberedBy(proto', stop_ids', CURRENT_ID'),
         bus_ids' \in Seq(Int),
         pc' = "bus" => \A n \in DOMAIN bus_ids' : bus_ids'[n] \in 1 .. CURRENT_ID',
         pc' \in {"bus", "distances"} => i' \in DOMAIN make_doc.base,
         pc' = "bus" => make_doc.base[i'].type = "Bus",
         pc' = "distances" => /\ make_doc.base[i'].type = "Stop"
                              /\ make_doc.base[i'].name \in DOMAIN stop_ids'
  PROVE  IInv'
<1>1. /\ make_doc.file \in Files /\ is_open' \in BOOLEAN
      /\ is_open' => origin'[make_doc.file] = NoDoc
  BY Building DEF IInv, Unfinished, disk_vars
<1>2. /\ disk' \in [Files -> Message \cup {Missing}]
      /\ origin' \in [Files -> MakeDocs \cup {NoDoc}]
      /\ FilesResolve'
  BY FilesKept DEF IInv, TypeOK, IdsResolve, disk_vars
<1> QED
  BY <1>1, <1>2, BuildStep

(* Steps to another request, or past the last.                             *)
LEMMA NextRequestActions ==
  ASSUME IInv, StopEnd \/ OtherRequest \/ RequestsDone
  PROVE  IInv'
<1>1. /\ pc \in BuildingPcs /\ pc' \in {"requests", "settings"}
      /\ UNCHANGED <<disk_vars, writable, doc_vars, is_open, load_vars>>
      /\ UNCHANGED <<id_vars, proto, bus_ids, j>>
      /\ i' = i \/ i' = i + 1
  BY DEF StopEnd, OtherRequest, RequestsDone, InRequests, BuildingPcs
<1>2. /\ i' \in Nat \ {0} /\ j' \in Nat \ {0}
      /\ IsPartialFunction(stop_ids', Names, Nat) /\ CURRENT_ID' \in Nat
      /\ OneToOne(stop_ids', CURRENT_ID')
      /\ proto' \in Message /\ NumberedBy(proto', stop_ids', CURRENT_ID')
      /\ bus_ids' \in Seq(Int)
  BY <1>1, Building DEF id_vars
<1> QED
  BY <1>1, <1>2, RequestStep DEF BuildingPcs

(* The settings go into the message.                                       *)
LEMMA SettingsStep ==
  ASSUME IInv, SettingsSerializer
  PROVE  IInv'
<1>1. /\ pc \in BuildingPcs /\ pc' = "write"
      /\ UNCHANGED <<disk_vars, writable, doc_vars, is_open, load_vars>>
      /\ UNCHANGED <<id_vars, bus_ids, i, j>>
  BY DEF SettingsSerializer, BuildingPcs
<1>2. /\ Stored(make_doc.render_settings) \in Settings \cup {DefaultSettings}
      /\ Stored(make_doc.routing_settings) \in Settings \cup {DefaultSettings}
  BY SerializationAssumption DEF IInv, TypeOK, NoDoc, SettingsSerializer, SettingsBad, Stored
<1>3. proto \in Message /\ NumberedBy(proto, stop_ids, CURRENT_ID)
  BY <1>1, Building
<1>4. /\ proto' \in Message
      /\ proto'.stops = proto.stops /\ proto'.distances = proto.distances
      /\ proto'.buses = proto.buses
  BY <1>2, <1>3 DEF SettingsSerializer, Message
<1>5. NumberedBy(proto', stop_ids, CURRENT_ID)
  BY <1>3, <1>4 DEF NumberedBy
<1> QED
  BY <1>1, <1>4, <1>5, Building, RequestStep DEF BuildingPcs, id_vars

(* A bus: its message is begun, gets the id of each stop, and is added.    *)
LEMMA BusRequestStep ==
  ASSUME IInv, BusRequest
  PROVE  IInv'
<1>1. /\ pc \in BuildingPcs /\ pc' = "bus" /\ j' = 1 /\ bus_ids' = <<>> /\ i' = i
      /\ UNCHANGED <<disk_vars, writable, doc_vars, is_open, load_vars>>
      /\ UNCHANGED <<id_vars, proto>>
      /\ i <= Len(make_doc.base) /\ make_doc.base[i].type = "Bus"
  BY DEF BusRequest, InRequests, request, BuildingPcs
<1>2. i \in DOMAIN make_doc.base
  BY <1>1, Building, BaseDomain DEF IInv
<1> QED
  BY <1>1, <1>2, Building, RequestStep DEF BuildingPcs, id_vars

(* The id of each stop goes into the message of the bus.                   *)
LEMMA BusStopStep ==
  ASSUME IInv, BusStop
  PROVE  IInv'
<1> DEFINE name == request.stops[j]
<1>1. /\ pc = "bus" /\ pc' = "bus" /\ i' = i /\ j' = j + 1
      /\ UNCHANGED <<disk_vars, writable, doc_vars, is_open, load_vars>>
      /\ proto' = proto
      /\ j <= Len(request.stops)
      /\ SetStopByName(name)
      /\ bus_ids' = Append(bus_ids, IdOf(name))
  BY DEF BusStop
<1>2. /\ i \in DOMAIN make_doc.base /\ make_doc.base[i].type = "Bus"
      /\ \A n \in DOMAIN bus_ids : bus_ids[n] \in 1 .. CURRENT_ID
  BY <1>1 DEF IInv, TypeOK, Numbering, request
<1>3. name \in Names
  BY <1>1, <1>2, Building, RequestType DEF IInv, request, BuildingPcs
<1>4. /\ IsPartialFunction(stop_ids', Names, Nat)
      /\ CURRENT_ID' \in Nat /\ CURRENT_ID <= CURRENT_ID'
      /\ OneToOne(stop_ids', CURRENT_ID')
      /\ DOMAIN stop_ids' = DOMAIN stop_ids \cup {name}
      /\ \A n \in DOMAIN stop_ids : stop_ids'[n] = stop_ids[n]
      /\ IdOf(name) \in 1 .. CURRENT_ID'
  <2> HIDE DEF name
  <2> QED
    BY <1>1, <1>3, Building, NameIsNumbered DEF BuildingPcs
<1> HIDE DEF name
<1>5. NumberedBy(proto', stop_ids', CURRENT_ID') /\ proto' \in Message
  BY <1>1, <1>4, Building, NumberedStays DEF BuildingPcs
<1>6. bus_ids' \in Seq(Int) /\ \A n \in DOMAIN bus_ids' : bus_ids'[n] \in 1 .. CURRENT_ID'
  <2>1. bus_ids \in Seq(Int) /\ IdOf(name) \in Nat
    BY <1>1, <1>4, Building DEF BuildingPcs
  <2>2. \A n \in DOMAIN bus_ids : bus_ids[n] \in 1 .. CURRENT_ID'
    BY <1>1, <1>2, <1>4, Building DEF BuildingPcs
  <2> QED
    BY <1>1, <1>4, <2>1, <2>2
<1>7. i' \in Nat \ {0} /\ j' \in Nat \ {0}
  BY <1>1, Building DEF BuildingPcs
<1> QED
  BY <1>1, <1>2, <1>4, <1>5, <1>6, <1>7, RequestStep DEF BuildingPcs

(* The message of the bus is complete: its ids are ids of names.           *)
LEMMA BusEndStep ==
  ASSUME IInv, BusEnd
  PROVE  IInv'
<1> DEFINE bus == [name |-> request.name, stop_ids |-> bus_ids,
                   is_roundtrip |-> request.is_roundtrip]
<1>1. /\ pc = "bus" /\ pc' = "requests" /\ i' = i + 1
      /\ UNCHANGED <<disk_vars, writable, doc_vars, is_open, load_vars>>
      /\ UNCHANGED <<id_vars, bus_ids, j>>
      /\ proto' = [proto EXCEPT !.buses = Append(@, bus)]
  BY DEF BusEnd
<1>2. /\ i \in DOMAIN make_doc.base /\ make_doc.base[i].type = "Bus"
      /\ \A n \in DOMAIN bus_ids : bus_ids[n] \in 1 .. CURRENT_ID
  BY <1>1 DEF IInv, TypeOK, Numbering, request
<1>3. /\ bus \in [name : Names, stop_ids : Seq(Int), is_roundtrip : BOOLEAN]
      /\ bus.stop_ids = bus_ids
  BY <1>1, <1>2, Building, RequestType DEF IInv, request, BuildingPcs
<1>4. proto \in Message /\ NumberedBy(proto, stop_ids, CURRENT_ID)
  BY <1>1, Building DEF BuildingPcs
<1> HIDE DEF bus
<1>5. /\ proto' \in Message
      /\ proto'.stops = proto.stops /\ proto'.distances = proto.distances
      /\ proto'.buses = Append(proto.buses, bus)
  <2> DEFINE buses == Append(proto.buses, bus)
  <2>1. proto' = [proto EXCEPT !.buses = buses]
    BY <1>1
  <2>2. buses \in Seq([name : Names, stop_ids : Seq(Int), is_roundtrip : BOOLEAN])
    BY <1>3, <1>4 DEF Message
  <2> HIDE DEF buses
  <2>3. /\ proto' \in Message
        /\ proto'.stops = proto.stops /\ proto'.distances = proto.distances
        /\ proto'.buses = buses
    BY <1>4, <2>1, <2>2 DEF Message
  <2> QED
    BY <2>3 DEF buses
<1>6. proto.buses \in Seq([name : Names, stop_ids : Seq(Int), is_roundtrip : BOOLEAN])
  BY <1>4 DEF Message
<1>7. \A k \in DOMAIN proto'.buses :
        \/ k \in DOMAIN proto.buses /\ proto'.buses[k] = proto.buses[k]
        \/ proto'.buses[k] = bus
  BY <1>3, <1>5, <1>6
<1>8. NumberedBy(proto', stop_ids, CURRENT_ID)
  BY <1>2, <1>3, <1>4, <1>5, <1>7 DEF NumberedBy
<1> QED
  BY <1>1, <1>5, <1>8, Building, RequestStep DEF BuildingPcs, id_vars

(* A stop: its message has its id; each road from it has the ids of both   *)
(* ends.                                                                   *)
LEMMA StopRequestStep ==
  ASSUME IInv, StopRequest
  PROVE  IInv'
<1> DEFINE name == request.name
           stop == [id |-> IdOf(name), name |-> name, coordinates |-> request.coordinates]
           stops == Append(proto.stops, stop)
<1>1. /\ pc \in BuildingPcs /\ pc' = "distances" /\ i' = i /\ j' = 1
      /\ UNCHANGED <<disk_vars, writable, doc_vars, is_open, load_vars>>
      /\ bus_ids' = bus_ids
      /\ SetStopByName(name)
      /\ proto' = [proto EXCEPT !.stops = stops]
      /\ i <= Len(make_doc.base) /\ make_doc.base[i].type = "Stop"
  BY DEF StopRequest, InRequests, request, BuildingPcs
<1>2. i \in DOMAIN make_doc.base
  BY <1>1, Building, BaseDomain DEF IInv
<1>3. name \in Names /\ request.coordinates \in Coordinates
  BY <1>1, <1>2, RequestType DEF IInv, request
<1>4. /\ IsPartialFunction(stop_ids', Names, Nat)
      /\ CURRENT_ID' \in Nat /\ CURRENT_ID <= CURRENT_ID'
      /\ OneToOne(stop_ids', CURRENT_ID')
      /\ DOMAIN stop_ids' = DOMAIN stop_ids \cup {name}
      /\ \A n \in DOMAIN stop_ids : stop_ids'[n] = stop_ids[n]
      /\ IdOf(name) = stop_ids'[name]
      /\ IdOf(name) \in 1 .. CURRENT_ID'
  <2> HIDE DEF name
  <2> QED
    BY <1>1, <1>3, Building, NameIsNumbered
<1>5. stop \in [id : Int, name : Names, coordinates : Coordinates]
      /\ stop.id = stop_ids'[stop.name] /\ stop.name = name
  BY <1>3, <1>4
<1>6. proto \in Message /\ NumberedBy(proto, stop_ids', CURRENT_ID')
  <2> HIDE DEF name
  <2> QED
    BY <1>1, <1>4, Building, NumberedStays
<1>7. proto.stops \in Seq([id : Int, name : Names, coordinates : Coordinates])
  BY <1>6 DEF Message
<1> HIDE DEF stop
<1>8. /\ stops \in Seq([id : Int, name : Names, coordinates : Coordinates])
      /\ \A k \in DOMAIN stops :
           \/ k \in DOMAIN proto.stops /\ stops[k] = proto.stops[k]
           \/ stops[k] = stop
  BY <1>5, <1>7
<1> HIDE DEF stops
<1>9. /\ proto' \in Message
      /\ proto'.stops = stops /\ proto'.distances = proto.distances
      /\ proto'.buses = proto.buses
  BY <1>1, <1>6, <1>8 DEF Message
<1>10. NumberedBy(proto', stop_ids', CURRENT_ID')
  BY <1>4, <1>5, <1>6, <1>8, <1>9 DEF NumberedBy
<1>11. make_doc.base[i].name \in DOMAIN stop_ids'
  BY <1>4 DEF request
<1> HIDE DEF name
<1> QED
  BY <1>1, <1>2, <1>4, <1>9, <1>10, <1>11, Building, RequestStep DEF BuildingPcs

(* A road gets the ids of both its ends; the far end may be new.           *)
LEMMA StopDistanceStep ==
  ASSUME IInv, StopDistance
  PROVE  IInv'
<1> DEFINE to == request.road_distances[j][1]
           length == request.road_distances[j][2]
           road == [from |-> stop_ids[request.name], to |-> IdOf(to), distance |-> length]
           distances == Append(proto.distances, road)
<1>1. /\ pc = "distances" /\ pc' = "distances" /\ i' = i /\ j' = j + 1
      /\ UNCHANGED <<disk_vars, writable, doc_vars, is_open, load_vars>>
      /\ bus_ids' = bus_ids
      /\ j <= Len(request.road_distances)
      /\ SetStopByName(to)
      /\ proto' = [proto EXCEPT !.distances = distances]
  BY DEF StopDistance
<1>2. /\ i \in DOMAIN make_doc.base /\ make_doc.base[i].type = "Stop"
      /\ make_doc.base[i].name \in DOMAIN stop_ids
  BY <1>1 DEF IInv, TypeOK, request
<1>3. to \in Names /\ length \in Int
  <2>1. request.road_distances \in Seq(Names \X Int)
    BY <1>2, RequestType DEF IInv, request
  <2>2. j \in 1 .. Len(request.road_distances)
    BY <1>1, <2>1, Building DEF BuildingPcs
  <2>3. request.road_distances[j] \in Names \X Int
    BY <2>1, <2>2
  <2> QED
    BY <2>3
<1>4. /\ IsPartialFunction(stop_ids', Names, Nat)
      /\ CURRENT_ID' \in Nat /\ CURRENT_ID <= CURRENT_ID'
      /\ OneToOne(stop_ids', CURRENT_ID')
      /\ DOMAIN stop_ids' = DOMAIN stop_ids \cup {to}
      /\ \A n \in DOMAIN stop_ids : stop_ids'[n] = stop_ids[n]
      /\ IdOf(to) \in 1 .. CURRENT_ID'
  <2> HIDE DEF to
  <2> QED
    BY <1>1, <1>3, Building, NameIsNumbered DEF BuildingPcs
<1>5. stop_ids[request.name] \in 1 .. CURRENT_ID'
  <2>1. stop_ids[request.name] \in 1 .. CURRENT_ID
    BY <1>1, <1>2, Building DEF OneToOne, request, BuildingPcs
  <2> QED
    BY <1>1, <1>4, <2>1, Building DEF BuildingPcs
<1>6. /\ road \in [from : Int, to : Int, distance : Int]
      /\ road.from \in 1 .. CURRENT_ID' /\ road.to \in 1 .. CURRENT_ID'
  BY <1>3, <1>4, <1>5
<1>7. proto \in Message /\ NumberedBy(proto, stop_ids', CURRENT_ID')
  <2> HIDE DEF to
  <2> QED
    BY <1>1, <1>4, Building, NumberedStays DEF BuildingPcs
<1>8. proto.distances \in Seq([from : Int, to : Int, distance : Int])
  BY <1>7 DEF Message
<1> HIDE DEF road
<1>9. /\ distances \in Seq([from : Int, to : Int, distance : Int])
      /\ \A k \in DOMAIN distances :
           \/ k \in DOMAIN proto.distances /\ distances[k] = proto.distances[k]
           \/ distances[k] = road
  BY <1>6, <1>8
<1> HIDE DEF distances
<1>10. /\ proto' \in Message
       /\ proto'.distances = distances /\ proto'.stops = proto.stops
       /\ proto'.buses = proto.buses
  BY <1>1, <1>7, <1>9 DEF Message
<1>11. NumberedBy(proto', stop_ids', CURRENT_ID')
  BY <1>4, <1>6, <1>7, <1>9, <1>10 DEF NumberedBy
<1>12. i' \in Nat \ {0} /\ j' \in Nat \ {0} /\ bus_ids' \in Seq(Int)
  BY <1>1, Building DEF BuildingPcs
<1> HIDE DEF to
<1> QED
  BY <1>1, <1>2, <1>4, <1>10, <1>11, <1>12, RequestStep DEF BuildingPcs

(* What holds while a database is loaded.                                  *)
LEMMA Loading ==
  ASSUME IInv, pc \in LoadingPcs
  PROVE  /\ process_doc.file \in Files
         /\ i \in Nat \ {0}
         /\ proto \in Message /\ proto = Contents(process_doc.file)
         /\ OneIdPerName(proto, WholeStops(proto, origin[process_doc.file]))
         /\ IsPartialFunction(id_stops, Int, Names)
         /\ StopsLoaded \subseteq DOMAIN proto.stops
         /\ DOMAIN id_stops = {proto.stops[k].id : k \in StopsLoaded}
         /\ \A k \in LoadedWhole : id_stops[proto.stops[k].id] = proto.stops[k].name
         /\ CatalogueType(catalogue) /\ IndexConsistent(catalogue)
         /\ \A name \in StopNames(catalogue) :
              catalogue.stops[name].coordinates \in Coordinates
         /\ \A id \in DOMAIN id_stops : id_stops[id] \in StopNames(catalogue)
BY DEF IInv, TypeOK, IdsResolve, FilesResolve, NoPhantomStop, StopsKnowTheirBuses

(* Loading begins with no ids, whatever the file holds.                    *)
LEMMA ParseFileStep ==
  ASSUME IInv, ParseFile
  PROVE  IInv'
<1>1. /\ pc = "process" /\ pc' = "set_stops" /\ i' = 1
      /\ process_doc.file \in Files
      /\ proto' = Contents(process_doc.file)
      /\ UNCHANGED <<disk_vars, writable, doc_vars, is_open, j, id_vars, bus_ids>>
      /\ UNCHANGED load_vars
  BY DEF ParseFile
<1>2. EmptyMessage \in Message
  BY EmptyResolves
<1>3. proto' \in Message
  BY <1>1, <1>2 DEF Contents, IInv, TypeOK
<1>4. DOMAIN id_stops = {} /\ IsPartialFunction(id_stops, Int, Names)
  BY <1>1 DEF IInv, IdsResolve, TypeOK
<1>5. StopsLoaded' = {} /\ LoadedWhole' = {}
  BY <1>1 DEF StopsLoaded, LoadedWhole
<1>6. /\ CatalogueType(catalogue) /\ IndexConsistent(catalogue)
      /\ \A name \in StopNames(catalogue) :
           catalogue.stops[name].coordinates \in Coordinates
  BY DEF IInv, TypeOK, NoPhantomStop, StopsKnowTheirBuses
<1> QED
  BY <1>1, <1>3, <1>4, <1>5, <1>6, LoadStep DEF LoadingPcs, load_vars

(* A stop gets its coordinates, and its id stands for its name.  The id    *)
(* may be there already; then it stood for the same name, unless the stop  *)
(* was cut, and a stop that was cut changes nothing.                       *)
LEMMA SetNextStopStep ==
  ASSUME IInv, SetNextStop
  PROVE  IInv'
<1> DEFINE stop == proto.stops[i]
<1>1. /\ pc = "set_stops" /\ pc' = "set_stops" /\ i' = i + 1
      /\ i <= Len(proto.stops)
      /\ catalogue' = SetStop(catalogue, stop.name, stop.coordinates)
      /\ id_stops' = Insert(id_stops, stop.id, stop.name)
      /\ proto' = proto
      /\ UNCHANGED <<disk_vars, writable, doc_vars, is_open, j, id_vars, bus_ids>>
  BY DEF SetNextStop, InsertStop
<1>2. /\ proto.stops \in Seq([id : Int, name : Names, coordinates : Coordinates])
      /\ i \in Nat \ {0}
  BY <1>1, Loading DEF LoadingPcs, Message
<1>3. /\ i \in DOMAIN proto.stops
      /\ stop \in [id : Int, name : Names, coordinates : Coordinates]
      /\ DOMAIN proto.stops = 1 .. Len(proto.stops)
  <2> DEFINE S == [id : Int, name : Names, coordinates : Coordinates]
  <2>1. proto.stops \in Seq(S) /\ i \in Nat \ {0}
    BY <1>2
  <2> HIDE DEF S
  <2>2. /\ i \in DOMAIN proto.stops /\ proto.stops[i] \in S
        /\ DOMAIN proto.stops = 1 .. Len(proto.stops)
    BY <1>1, <2>1
  <2> QED
    BY <2>2 DEF S
<1>4. StopsLoaded = 1 .. i - 1 /\ StopsLoaded' = 1 .. i
  BY <1>1, <1>2 DEF StopsLoaded
<1>5. StopsLoaded' = StopsLoaded \cup {i} /\ StopsLoaded' \subseteq DOMAIN proto.stops
  BY <1>1, <1>2, <1>3, <1>4
<1>6. /\ CatalogueType(catalogue') /\ IndexConsistent(catalogue')
      /\ StopNames(catalogue') = StopNames(catalogue) \cup {stop.name}
      /\ \A name \in StopNames(catalogue') :
           catalogue'.stops[name].coordinates \in Coordinates
  <2>1. CatalogueType(catalogue) /\ IndexConsistent(catalogue)
        /\ \A name \in StopNames(catalogue) :
             catalogue.stops[name].coordinates \in Coordinates
    BY <1>1, Loading DEF LoadingPcs
  <2>2. stop.name \in Names /\ stop.coordinates \in Coordinates
    BY <1>3
  <2> HIDE DEF stop
  <2>3. /\ CatalogueType(catalogue')
        /\ StopNames(catalogue') = StopNames(catalogue) \cup {stop.name}
        /\ catalogue'.stops[stop.name].coordinates = stop.coordinates
        /\ \A s \in StopNames(catalogue) : s # stop.name =>
             catalogue'.stops[s].coordinates = catalogue.stops[s].coordinates
    BY <1>1, <2>1, <2>2, SetStopFields
  <2>4. IndexConsistent(catalogue')
    BY <1>1, <2>1, <2>2, SetStopIndex
  <2> QED
    BY <2>1, <2>2, <2>3, <2>4
<1>7. /\ IsPartialFunction(id_stops', Int, Names)
      /\ DOMAIN id_stops' = DOMAIN id_stops \cup {stop.id}
      /\ stop.id \notin DOMAIN id_stops => id_stops'[stop.id] = stop.name
      /\ \A id \in DOMAIN id_stops : id_stops'[id] = id_stops[id]
  <2>1. IsPartialFunction(id_stops, Int, Names) /\ stop.id \in Int /\ stop.name \in Names
    BY <1>1, <1>3, Loading DEF LoadingPcs
  <2> HIDE DEF stop
  <2>2. CASE stop.id \in DOMAIN id_stops
    BY <1>1, <2>1, <2>2 DEF Insert
  <2>3. CASE stop.id \notin DOMAIN id_stops
    <3>1. id_stops' = [k \in DOMAIN id_stops \cup {stop.id} |->
                        IF k = stop.id THEN stop.name ELSE id_stops[k]]
      BY <1>1, <2>3 DEF Insert, Assign
    <3> QED
      BY <2>1, <2>3, <3>1 DEF IsPartialFunction
  <2> QED
    BY <2>2, <2>3
<1> DEFINE whole == WholeStops(proto, origin[process_doc.file])
<1>8. /\ OneIdPerName(proto, whole)
      /\ DOMAIN id_stops = {proto.stops[k].id : k \in StopsLoaded}
      /\ \A k \in LoadedWhole : id_stops[proto.stops[k].id] = proto.stops[k].name
      /\ \A id \in DOMAIN id_stops : id_stops[id] \in StopNames(catalogue)
      /\ StopsLoaded \subseteq DOMAIN proto.stops
  BY <1>1, Loading DEF LoadingPcs
<1>9. i \in whole => id_stops'[stop.id] = stop.name
  <2>1. ASSUME i \in whole, stop.id \in DOMAIN id_stops PROVE id_stops'[stop.id] = stop.name
    <3>1. PICK k \in StopsLoaded : proto.stops[k].id = stop.id
      BY <1>8, <2>1
    <3>2. k \in DOMAIN proto.stops /\ k \in 1 .. i - 1
      BY <1>4, <1>8, <3>1
    <3>3. k \in whole /\ k \in LoadedWhole
      <4>1. Len(proto.stops) \in Nat /\ i \in 1 .. Len(proto.stops) /\ k < i
        BY <1>2, <1>3, <3>2
      <4> QED
        BY <2>1, <3>1, <3>2, <4>1 DEF WholeStops, LoadedWhole
    <3>4. proto.stops[k].name = stop.name
      BY <1>8, <2>1, <3>1, <3>3 DEF OneIdPerName
    <3> QED
      BY <1>7, <1>8, <2>1, <3>1, <3>3, <3>4
  <2> QED
    BY <1>7, <2>1
<1>10. DOMAIN id_stops' = {proto.stops[k].id : k \in StopsLoaded'}
  BY <1>5, <1>7, <1>8
<1>11. \A k \in LoadedWhole' : id_stops'[proto.stops[k].id] = proto.stops[k].name
  <2>1. LoadedWhole' \subseteq LoadedWhole \cup {i} /\ LoadedWhole' \subseteq whole
    BY <1>1, <1>5 DEF LoadedWhole, disk_vars, doc_vars
  <2>2. \A k \in LoadedWhole : proto.stops[k].id \in DOMAIN id_stops
    BY <1>8 DEF LoadedWhole
  <2> QED
    BY <1>7, <1>8, <1>9, <2>1, <2>2
<1>12. \A id \in DOMAIN id_stops' : id_stops'[id] \in StopNames(catalogue')
  BY <1>6, <1>7, <1>8
<1>13. /\ proto' \in Message /\ proto' = Contents(process_doc.file)
       /\ process_doc.file \in Files
       /\ i' \in Nat \ {0}
  <2>1. pc \in LoadingPcs
    BY <1>1 DEF LoadingPcs
  <2>2. /\ proto \in Message /\ proto = Contents(process_doc.file)
        /\ process_doc.file \in Files /\ i \in Nat \ {0}
    BY <2>1, Loading
  <2>3. proto' = proto /\ i' = i + 1
    BY <1>1
  <2>4. i' \in Nat \ {0}
    BY <2>2, <2>3
  <2> QED
    BY <2>2, <2>3, <2>4
<1> HIDE DEF stop, whole
<1>14. /\ StopsLoaded' \subseteq DOMAIN proto'.stops
       /\ DOMAIN id_stops' = {proto'.stops[k].id : k \in StopsLoaded'}
       /\ \A k \in LoadedWhole' : id_stops'[proto'.stops[k].id] = proto'.stops[k].name
  BY <1>1, <1>5, <1>10, <1>11
<1>15. /\ pc' \in LoadingPcs
       /\ UNCHANGED <<disk_vars, writable, doc_vars, is_open, j, id_vars, bus_ids>>
  BY <1>1 DEF LoadingPcs
<1>16. IsPartialFunction(id_stops', Int, Names)
  BY <1>7
<1> QED
  BY <1>6, <1>12, <1>13, <1>14, <1>15, <1>16, LoadStep

(* From loop to loop: after the first one, all stops are loaded.           *)
LEMMA NextLoopActions ==
  ASSUME IInv, StopsSet \/ DistancesSet \/ BusesSet
  PROVE  IInv'
<1>1. /\ pc \in LoadingPcs /\ pc' \in LoadingPcs /\ pc' # "set_stops" /\ i' = 1
      /\ pc = "set_stops" => i > Len(proto.stops)
      /\ proto' = proto
      /\ UNCHANGED load_vars
      /\ UNCHANGED <<disk_vars, writable, doc_vars, is_open, j, id_vars, bus_ids>>
  BY DEF StopsSet, DistancesSet, BusesSet, NextLoop, LoadingPcs
<1>2. StopsLoaded' = DOMAIN proto.stops
  BY <1>1 DEF StopsLoaded
<1>3. StopsLoaded = DOMAIN proto.stops
  <2>1. CASE pc = "set_stops"
    <3>1. proto.stops \in Seq([id : Int, name : Names, coordinates : Coordinates])
          /\ i \in Nat
      BY <1>1, Loading DEF Message
    <3>2. DOMAIN proto.stops = 1 .. Len(proto.stops) /\ Len(proto.stops) \in Nat
      BY <3>1
    <3>3. StopsLoaded = 1 .. i - 1 /\ StopsLoaded \subseteq DOMAIN proto.stops
      BY <1>1, <2>1, Loading DEF StopsLoaded
    <3>4. i > Len(proto.stops)
      BY <1>1, <2>1
    <3>5. 1 .. Len(proto.stops) \subseteq 1 .. i - 1
      BY <3>1, <3>2, <3>4
    <3> QED
      BY <3>2, <3>3, <3>5
  <2>2. CASE pc # "set_stops"
    BY <2>2 DEF StopsLoaded
  <2> QED
    BY <2>1, <2>2
<1> QED
  <2>1. LoadedWhole' = LoadedWhole
    BY <1>1, <1>2, <1>3 DEF LoadedWhole, disk_vars, doc_vars
  <2> QED
    BY <1>1, <1>2, <1>3, <2>1, Loading, LoadStep, SMTT(30) DEF load_vars

(* A road between two stops that are loaded, or the end of the run.        *)
LEMMA SetNextDistanceStep ==
  ASSUME IInv, SetNextDistance
  PROVE  IInv'
<1> DEFINE d == proto.distances[i]
<1>1. /\ pc = "set_distances" /\ i <= Len(proto.distances)
      /\ proto' = proto /\ id_stops' = id_stops
      /\ UNCHANGED <<disk_vars, writable, doc_vars, is_open, j, id_vars, bus_ids>>
  BY DEF SetNextDistance
<1>2. CASE {d.from, d.to} \subseteq DOMAIN id_stops
  <2>1. /\ catalogue' = SetStopDistance(catalogue, id_stops[d.from], id_stops[d.to],
                                        d.distance)
        /\ i' = i + 1 /\ pc' = pc
    BY <1>2 DEF SetNextDistance
  <2>2. d \in [from : Int, to : Int, distance : Int]
    <3> DEFINE S == [from : Int, to : Int, distance : Int]
    <3>1. proto.distances \in Seq(S) /\ i \in Nat \ {0}
      BY <1>1, Loading DEF LoadingPcs, Message
    <3> HIDE DEF S
    <3>2. d \in S
      BY <1>1, <3>1
    <3> QED
      BY <3>2 DEF S
  <2>3. d.distance \in Int
    BY <2>2
  <2> HIDE DEF d
  <2>4. /\ id_stops[d.from] \in StopNames(catalogue)
        /\ id_stops[d.to] \in StopNames(catalogue)
        /\ CatalogueType(catalogue)
    BY <1>1, <1>2, Loading DEF LoadingPcs, d
  <2>5. /\ CatalogueType(catalogue')
        /\ catalogue'.stops = catalogue.stops /\ catalogue'.buses = catalogue.buses
    BY <2>1, <2>3, <2>4, KnownStopsDistance
  <2>6. /\ IndexConsistent(catalogue')
        /\ \A name \in StopNames(catalogue') :
             catalogue'.stops[name].coordinates \in Coordinates
        /\ \A id \in DOMAIN id_stops : id_stops[id] \in StopNames(catalogue')
    BY <1>1, <2>5, Loading DEF LoadingPcs, IndexConsistent, StopNames, BusNames
  <2>7. StopsLoaded' = StopsLoaded /\ LoadedWhole' = LoadedWhole /\ i' \in Nat \ {0}
    <3>1. i \in Nat \ {0}
      BY <1>1, Loading DEF LoadingPcs
    <3>2. StopsLoaded' = StopsLoaded
      BY <1>1, <2>1 DEF StopsLoaded
    <3>3. origin' = origin /\ process_doc' = process_doc
      BY <1>1 DEF disk_vars, doc_vars
    <3>4. LoadedWhole' = LoadedWhole
      BY <1>1, <3>2, <3>3 DEF LoadedWhole
    <3> QED
      BY <2>1, <3>1, <3>2, <3>4
  <2> QED
    BY <1>1, <2>1, <2>5, <2>6, <2>7, Loading, LoadStep DEF LoadingPcs
<1>3. CASE ~ ({d.from, d.to} \subseteq DOMAIN id_stops)
  <2>1. pc' = "idle" /\ UNCHANGED <<catalogue, i>>
    BY <1>3 DEF SetNextDistance, Throw
  <2> QED
    BY <1>1, <2>1, LoadStopped DEF load_vars
<1> QED
  BY <1>2, <1>3

(* A bus on stops that are loaded, or the end of the run.                  *)
LEMMA SetNextBusStep ==
  ASSUME IInv, SetNextBus
  PROVE  IInv'
<1> DEFINE bus == proto.buses[i]
           ids == bus.stop_ids
           names == [k \in DOMAIN ids |-> id_stops[ids[k]]]
<1>1. /\ pc = "set_buses" /\ i <= Len(proto.buses)
      /\ proto' = proto /\ id_stops' = id_stops
      /\ UNCHANGED <<disk_vars, writable, doc_vars, is_open, j, id_vars, bus_ids>>
  BY DEF SetNextBus
<1>2. CASE \A k \in DOMAIN ids : ids[k] \in DOMAIN id_stops
  <2>1. /\ catalogue' = SetBus(catalogue, bus.name, Reverse(names), ~ bus.is_roundtrip)
        /\ i' = i + 1 /\ pc' = pc
    BY <1>2 DEF SetNextBus, RouteFromIds
  <2>2. bus \in [name : Names, stop_ids : Seq(Int), is_roundtrip : BOOLEAN]
    <3> DEFINE S == [name : Names, stop_ids : Seq(Int), is_roundtrip : BOOLEAN]
    <3>1. proto.buses \in Seq(S) /\ i \in Nat \ {0}
      BY <1>1, Loading DEF LoadingPcs, Message
    <3> HIDE DEF S
    <3>2. bus \in S
      BY <1>1, <3>1
    <3> QED
      BY <3>2 DEF S
  <2>3. bus.name \in Names /\ ids \in Seq(Int) /\ (~ bus.is_roundtrip) \in BOOLEAN
    BY <2>2
  <2> HIDE DEF bus, ids
  <2>4. /\ CatalogueType(catalogue) /\ IndexConsistent(catalogue)
        /\ IsPartialFunction(id_stops, Int, Names)
        /\ \A id \in DOMAIN id_stops : id_stops[id] \in StopNames(catalogue)
        /\ \A name \in StopNames(catalogue) :
             catalogue.stops[name].coordinates \in Coordinates
    BY <1>1, Loading DEF LoadingPcs
  <2>5. \A k \in DOMAIN ids : ids[k] \in DOMAIN id_stops
    BY <1>2 DEF ids, bus
  <2>6. /\ names \in Seq(Names)
        /\ \A k \in DOMAIN names : names[k] \in StopNames(catalogue)
    BY <2>3, <2>4, <2>5 DEF IsPartialFunction
  <2> HIDE DEF names
  <2>7. /\ Reverse(names) \in Seq(Names)
        /\ StopsIndexed(Reverse(names)) \subseteq StopNames(catalogue)
    BY <2>6 DEF Reverse, StopsIndexed
  <2>8. BusAdded(catalogue, catalogue', bus.name, Reverse(names), ~ bus.is_roundtrip)
    BY <2>1, <2>3, <2>4, <2>7, SetBusFields
  <2>9. IndexConsistent(catalogue')
    BY <2>1, <2>3, <2>4, <2>7, SetBusIndex
  <2>10. /\ CatalogueType(catalogue')
         /\ \A name \in StopNames(catalogue') :
              catalogue'.stops[name].coordinates \in Coordinates
         /\ \A id \in DOMAIN id_stops : id_stops[id] \in StopNames(catalogue')
    BY <2>4, <2>7, <2>8 DEF BusAdded, StopOf
  <2>11. StopsLoaded' = StopsLoaded /\ LoadedWhole' = LoadedWhole /\ i' \in Nat \ {0}
    BY <1>1, <2>1, Loading DEF StopsLoaded, LoadedWhole, LoadingPcs, disk_vars, doc_vars
  <2> QED
    BY <1>1, <2>1, <2>9, <2>10, <2>11, Loading, LoadStep DEF LoadingPcs
<1>3. CASE ~ \A k \in DOMAIN ids : ids[k] \in DOMAIN id_stops
  <2>1. pc' = "idle" /\ UNCHANGED <<catalogue, i>>
    BY <1>3 DEF SetNextBus, Throw
  <2> QED
    BY <1>1, <2>1, LoadStopped DEF load_vars
<1> QED
  BY <1>2, <1>3

-----------------------------------------------------------------------------
(* The invariant.                                                          *)

(* At the start nothing is written, numbered or loaded.                    *)
LEMMA InitIInv == Init => IInv
<1> SUFFICES ASSUME Init PROVE IInv
  OBVIOUS
<1> USE DEF Init, BuildingPcs, LoadingPcs
<1>1. EmptyMessage \in Message
  BY DEF EmptyMessage, Message
<1>2. CatalogueType(EmptyCatalogue) /\ IndexConsistent(EmptyCatalogue)
  BY DEF CatalogueType, IsPartialFunction, EmptyCatalogue, EmptyMap, IndexConsistent,
         StopNames, BusNames
<1>3. /\ OneToOne(EmptyMap, 0) /\ IsPartialFunction(EmptyMap, Names, Nat)
      /\ IsPartialFunction(EmptyMap, Int, Names)
  BY DEF OneToOne, IsPartialFunction, EmptyMap
<1>4. TypeOK
  <2>1. /\ disk \in [Files -> Message \cup {Missing}]
        /\ origin \in [Files -> MakeDocs \cup {NoDoc}]
        /\ runs \in 0 .. MaxRuns
        /\ writable \in BOOLEAN /\ is_open = FALSE
        /\ pc = "idle"
        /\ make_doc \in MakeDocs \cup {NoDoc}
        /\ process_doc \in ProcessDocs \cup {[file |-> NoFile]}
        /\ i \in Nat \ {0} /\ j \in Nat \ {0}
    BY SerializationAssumption
  <2>2. /\ IsPartialFunction(stop_ids, Names, Nat) /\ CURRENT_ID \in Nat
        /\ proto \in Message
        /\ bus_ids \in Seq(Int)
        /\ IsPartialFunction(id_stops, Int, Names)
        /\ CatalogueType(catalogue)
    BY <1>1, <1>2, <1>3
  <2> QED
    BY <2>1, <2>2 DEF TypeOK
<1>5. Numbering /\ Unfinished
  BY <1>3 DEF Numbering, Unfinished
<1>6. IdsResolve
  <2>1. \A f \in Files : Contents(f) = EmptyMessage
    BY DEF Contents
  <2>2. FilesResolve
    BY <2>1, EmptyResolves DEF FilesResolve
  <2> QED
    BY <2>2 DEF IdsResolve
<1>7. NoPhantomStop
  BY DEF NoPhantomStop, EmptyCatalogue, EmptyMap, StopNames
<1>8. StopsKnowTheirBuses
  BY <1>2 DEF StopsKnowTheirBuses
<1> QED
  BY <1>4, <1>5, <1>6, <1>7, <1>8 DEF IInv

(* Every step keeps IInv.                                                  *)
LEMMA NextIInv == IInv /\ [Next]_vars => IInv'
<1> SUFFICES ASSUME IInv, [Next]_vars PROVE IInv'
  OBVIOUS
<1>1. CASE \E make \in MakeDocs, process \in ProcessDocs : Start(make, process)
  BY <1>1, StartStep
<1>2. CASE Make
  BY <1>2, QuietActions, OpenFileStep, BusRequestStep, BusStopStep, BusEndStep,
     StopRequestStep, StopDistanceStep, NextRequestActions, SettingsStep, WriteFileStep
     DEF Make
<1>3. CASE Process
  BY <1>3, QuietActions, ParseFileStep, SetNextStopStep, SetNextDistanceStep,
     SetNextBusStep, NextLoopActions DEF Process
<1>4. CASE Kill
  BY <1>4, KillStep
<1>5. CASE ChangeAccess
  BY <1>5, ChangeAccessStep
<1>6. CASE UNCHANGED vars
  <2>1. UNCHANGED <<disk_vars, writable, doc_vars, pc, is_open, i, j, id_vars, proto,
                    bus_ids, load_vars>>
    BY <1>6 DEF vars
  <2> USE <2>1 DEF IInv, disk_vars, doc_vars, id_vars, load_vars
  <2>2. TypeOK'
    BY DEF TypeOK, request
  <2>3. Numbering' /\ Unfinished'
    BY DEF Numbering, Unfinished
  <2>4. IdsResolve'
    BY FilesKept DEF IdsResolve, StopsLoaded, LoadedWhole, Contents
  <2>5. NoPhantomStop'
    BY DEF NoPhantomStop
  <2>6. StopsKnowTheirBuses'
    BY DEF StopsKnowTheirBuses
  <2> QED
    BY <2>2, <2>3, <2>4, <2>5, <2>6
<1> QED
  BY <1>1, <1>2, <1>3, <1>4, <1>5, <1>6 DEF Next

(* Whatever the documents, and however many runs end however they do,      *)
(* IInv holds: types, numbering, ids on the disk, stops and buses.         *)
THEOREM Invariance == Spec => []IInv
BY InitIInv, NextIInv, PTL DEF Spec

(* Types: loading always starts from a message.                            *)
THEOREM TypeCorrect == Spec => []TypeOK
<1>1. IInv => TypeOK
  BY DEF IInv
<1> QED
  BY <1>1, Invariance, PTL

(* Names are numbered one to one and every id in the message is taken.     *)
THEOREM NumberingHolds == Spec => []Numbering
<1>1. IInv => Numbering
  BY DEF IInv
<1> QED
  BY <1>1, Invariance, PTL

(* Ids resolve on any disk these runs can leave, wherever a write was cut. *)
THEOREM IdsResolveHolds == Spec => []IdsResolve
<1>1. IInv => IdsResolve
  BY DEF IInv
<1> QED
  BY <1>1, Invariance, PTL

(* No stop is ever left with uninitialised coordinates.                    *)
THEOREM NoPhantomStopHolds == Spec => []NoPhantomStop
<1>1. IInv => NoPhantomStop
  BY DEF IInv
<1> QED
  BY <1>1, Invariance, PTL

(* Both sides of the relation between stops and buses always agree.        *)
THEOREM StopsKnowTheirBusesHolds == Spec => []StopsKnowTheirBuses
<1>1. IInv => StopsKnowTheirBuses
  BY DEF IInv
<1> QED
  BY <1>1, Invariance, PTL

-----------------------------------------------------------------------------
(***************************************************************************)
(* What becomes of a base document on its way through the file: a request  *)
(* document is answered from the catalogue that DBBuilder would have built,*)
(* with the settings of the same document, or is refused exactly when it   *)
(* has to be.                                                              *)
(*                                                                         *)
(* A message with numbers in it says the same as a document with names in  *)
(* it (Says) when its stops, roads and buses, assigned to maps one after   *)
(* the other under the names behind the numbers, make the maps that        *)
(* DBBuilder makes of the document.  While the message is built it says    *)
(* what the requests read so far say (Telling); while it is loaded the     *)
(* catalogue holds what its first elements say (Loaded).  The order of     *)
(* requests is not the order of loading, so the two ends are compared as   *)
(* maps, not step by step.                                                 *)
(***************************************************************************)

-----------------------------------------------------------------------------
(* Maps, messages and documents.                                           *)

(* What assigning to a map, one after the other, pairs of a key and a      *)
(* value leaves in it: for each key the value that came last.              *)
LastPlace(pairs, key) ==
  CHOOSE n \in DOMAIN pairs :
    pairs[n][1] = key /\ \A m \in DOMAIN pairs : pairs[m][1] = key => m <= n

Assigned(pairs) ==
  [key \in {pairs[n][1] : n \in DOMAIN pairs} |-> pairs[LastPlace(pairs, key)][2]]

(* The names behind ids.                                                   *)
NamesOf(ids) ==
  [id \in {ids[name] : name \in DOMAIN ids} |->
    CHOOSE name \in DOMAIN ids : ids[name] = id]

(* What a message holds, with names for the ids, up to some place: the     *)
(* stops with their coordinates, the roads with their lengths, and its     *)
(* buses as requests.                                                      *)
StopPairs(m, last) ==
  [n \in 1 .. last |-> <<m.stops[n].name, m.stops[n].coordinates>>]

RoadPairs(m, names, last) ==
  [n \in 1 .. last |->
    << <<names[m.distances[n].from], names[m.distances[n].to]>>, m.distances[n].distance>>]

BusRequests(m, names, last) ==
  [n \in 1 .. last |->
    [type |-> "Bus", name |-> m.buses[n].name,
     stops |-> [k \in DOMAIN m.buses[n].stop_ids |-> names[m.buses[n].stop_ids[k]]],
     is_roundtrip |-> m.buses[n].is_roundtrip]]

StopIds(m) == {m.stops[n].id : n \in DOMAIN m.stops}

MentionedIds(m) ==
  {m.distances[n].to : n \in DOMAIN m.distances}
  \cup UNION {{m.buses[n].stop_ids[k] : k \in DOMAIN m.buses[n].stop_ids} :
              n \in DOMAIN m.buses}

CoordinatesIn(cat, S) == [s \in S |-> cat.stops[s].coordinates]

(* With the stops numbered by ids, the message says what the requests say. *)
Numbers(ids, S) ==
  /\ DOMAIN ids \subseteq Names
  /\ \A a, b \in DOMAIN ids : ids[a] = ids[b] => a = b
  /\ S \subseteq DOMAIN ids

SaysStops(m, base, ids) ==
  /\ \A n \in DOMAIN m.stops :
       m.stops[n].name \in DOMAIN ids /\ m.stops[n].id = ids[m.stops[n].name]
  /\ Assigned(StopPairs(m, Len(m.stops))) = CoordinatesIn(BuiltFrom(base), DeclaredStops(base))

SaysRoads(m, base, ids) ==
  /\ \A n \in DOMAIN m.distances :
       m.distances[n].from \in {ids[s] : s \in DeclaredStops(base)}
  /\ Assigned(RoadPairs(m, NamesOf(ids), Len(m.distances))) = BuiltFrom(base).distances

SaysBuses(m, base, ids) ==
  BuiltFrom(BusRequests(m, NamesOf(ids), Len(m.buses))).buses = BuiltFrom(base).buses

Readable(base) == \A k \in DOMAIN base : base[k].type # "Malformed"

Says(m, base, ids) ==
  /\ Readable(base)
  /\ Numbers(ids, DeclaredStops(base) \cup MentionedStops(base))
  /\ MentionedIds(m) = {ids[s] : s \in MentionedStops(base)}
  /\ SaysStops(m, base, ids)
  /\ SaysRoads(m, base, ids)
  /\ SaysBuses(m, base, ids)

(* The requests a document is read as.                                     *)
Effective(doc) == IF HasNull(doc.base) THEN <<>> ELSE doc.base

SettingsOf(m) == <<m.render_set, m.routing_set>>

NoSettings == SettingsOf(EmptyMessage)

StoredSettings(doc) == <<Stored(doc.render_settings), Stored(doc.routing_settings)>>

(* A run that has begun has no outcome yet.                                *)
Running == pc # "idle" => outcome = "running"

(* Before the database is read there is nothing in the catalogue.          *)
Untouched ==
  /\ pc \in BuildingPcs \cup {"make", "process"} => catalogue = EmptyCatalogue
  /\ pc = "make" => proto = EmptyMessage /\ i = 1 /\ ~ is_open

(* The requests of which the message under construction already tells.     *)
Told ==
  CASE pc = "distances" ->
         Append(SubSeq(make_doc.base, 1, i - 1),
                [request EXCEPT !.road_distances = SubSeq(@, 1, j - 1)])
    [] pc \in {"settings", "write"} -> Effective(make_doc)
    [] OTHER -> SubSeq(make_doc.base, 1, i - 1)

Telling ==
  /\ pc \in BuildingPcs => Says(proto, Told, stop_ids)
  /\ pc \in BuildingPcs \ {"write"} => SettingsOf(proto) = NoSettings
  /\ pc = "write" => SettingsOf(proto) = StoredSettings(make_doc)
  /\ pc \in {"requests", "bus", "distances"} =>
       ~ HasNull(make_doc.base) /\ i <= Len(make_doc.base) + 1
  /\ pc = "distances" => j <= Len(request.road_distances) + 1
  /\ pc = "bus" =>
       /\ j <= Len(request.stops) + 1
       /\ \A k \in 1 .. j - 1 : request.stops[k] \in DOMAIN stop_ids
       /\ bus_ids = [k \in 1 .. j - 1 |-> stop_ids[request.stops[k]]]

(* A file that was written completely says what its document says.         *)
FilesTell ==
  \A f \in Files : origin[f] # NoDoc =>
    /\ disk[f] # Missing
    /\ SettingsOf(disk[f]) = StoredSettings(origin[f])
    /\ \E ids : Says(disk[f], Effective(origin[f]), ids)

(* The file a run has opened is its own.                                   *)
OwnFile ==
  is_open =>
    /\ pc # "make"
    /\ pc \in BuildingPcs =>
         disk[make_doc.file] = EmptyMessage /\ origin[make_doc.file] = NoDoc
    /\ pc \in LoadingPcs \cup {"process", "output"} => origin[make_doc.file] = make_doc
    /\ pc = "idle" => NoStaleDatabase

(* How far the message is loaded.                                          *)
RoadsResolve(m, last) ==
  \A n \in 1 .. last : {m.distances[n].from, m.distances[n].to} \subseteq DOMAIN id_stops

BusesResolve(m, last) ==
  \A n \in 1 .. last : \A k \in DOMAIN m.buses[n].stop_ids :
    m.buses[n].stop_ids[k] \in DOMAIN id_stops

LoadedTo(m, cat, stops, roads, buses) ==
  /\ CoordinatesIn(cat, StopNames(cat)) = Assigned(StopPairs(m, stops))
  /\ RoadsResolve(m, roads)
  /\ cat.distances = Assigned(RoadPairs(m, id_stops, roads))
  /\ BusesResolve(m, buses)
  /\ cat.buses = BuiltFrom(BusRequests(m, id_stops, buses)).buses

Loaded ==
  /\ pc \in LoadingPcs =>
       /\ proto = Contents(process_doc.file)
       /\ i <= CASE pc = "set_stops" -> Len(proto.stops) + 1
                 [] pc = "set_distances" -> Len(proto.distances) + 1
                 [] pc = "set_buses" -> Len(proto.buses) + 1
                 [] OTHER -> 1
       /\ LoadedTo(proto, catalogue,
                   IF pc = "set_stops" THEN i - 1 ELSE Len(proto.stops),
                   IF pc = "set_stops" THEN 0
                   ELSE IF pc = "set_distances" THEN i - 1 ELSE Len(proto.distances),
                   IF pc \in {"set_stops", "set_distances"} THEN 0
                   ELSE IF pc = "set_buses" THEN i - 1 ELSE Len(proto.buses))

(* What is answered from, once the database is loaded.                     *)
Answering ==
  /\ pc = "output" /\ process_doc.file \in Files =>
       LET doc == origin[process_doc.file]
       IN  doc # NoDoc => catalogue = DBBuilder(doc.base)
  /\ pc = "output" => process_doc.file \in Files \cup {NoFile}

(* What the last run came to.                                              *)
Refused ==
  outcome = "load_threw" =>
    LET doc == origin[process_doc.file]
    IN  doc # NoDoc => ~ AllDeclared(doc.base)

RInv ==
  /\ IInv /\ Running /\ Untouched /\ Telling /\ FilesTell /\ OwnFile
  /\ Loaded /\ Answering /\ Refused /\ FreshResult

(* The last place of a key that occurs.                                    *)
LEMMA LastPlaceFacts ==
  ASSUME NEW N \in Nat, NEW pairs, DOMAIN pairs = 1 .. N, NEW n \in 1 .. N
  PROVE  LET last == LastPlace(pairs, pairs[n][1])
         IN  /\ last \in 1 .. N /\ pairs[last][1] = pairs[n][1]
             /\ \A m \in 1 .. N : pairs[m][1] = pairs[n][1] => m <= last
<1> DEFINE key == pairs[n][1]
           A == {m \in 1 .. N : pairs[m][1] = key}
<1>1. A \in SUBSET (1 .. N) /\ A # {}
  OBVIOUS
<1>2. Max(A) \in A /\ \A y \in A : y <= Max(A)
  BY <1>1, MaxInside
<1> HIDE DEF key
<1>3. \E l \in 1 .. N :
        pairs[l][1] = key /\ \A m \in 1 .. N : pairs[m][1] = key => m <= l
  BY <1>2
<1> QED
  BY <1>3 DEF LastPlace, key

(* A last pair is assigned last.                                           *)
LEMMA AssignedNext ==
  ASSUME NEW N \in Nat, NEW pairs, DOMAIN pairs = 1 .. N,
         NEW more, DOMAIN more = 1 .. N + 1, \A n \in 1 .. N : more[n] = pairs[n],
         NEW new, NEW value, more[N + 1] = <<new, value>>
  PROVE  Assigned(more) = Assign(Assigned(pairs), new, value)
<1> DEFINE keys == {pairs[n][1] : n \in 1 .. N}
<1>1. N + 1 \in Nat /\ N + 1 \in 1 .. N + 1 /\ 1 .. N \subseteq 1 .. N + 1
  OBVIOUS
<1>2. more[N + 1][1] = new /\ more[N + 1][2] = value
  OBVIOUS
<1>3. {more[n][1] : n \in DOMAIN more} = keys \cup {new}
  <2>1. DOMAIN more = DOMAIN pairs \cup {N + 1}
    OBVIOUS
  <2>2. \A n \in DOMAIN pairs : more[n][1] = pairs[n][1]
    OBVIOUS
  <2> QED
    BY <1>2, <2>1, <2>2
<1>4. LastPlace(more, new) = N + 1
  <2> DEFINE last == LastPlace(more, more[N + 1][1])
  <2>1. /\ last \in 1 .. N + 1
        /\ \A m \in 1 .. N + 1 : more[m][1] = more[N + 1][1] => m <= last
    BY <1>1, LastPlaceFacts
  <2> HIDE DEF last
  <2>2. last = N + 1
    BY <1>1, <2>1
  <2> QED
    BY <1>2, <2>2 DEF last
<1>5. ASSUME NEW key \in keys, key # new
      PROVE  more[LastPlace(more, key)] = pairs[LastPlace(pairs, key)]
  <2> DEFINE last == LastPlace(more, key)
             before == LastPlace(pairs, key)
  <2>1. PICK n \in 1 .. N : pairs[n][1] = key
    OBVIOUS
  <2>2. n \in 1 .. N + 1 /\ more[n][1] = key
    BY <1>1, <2>1
  <2>3. /\ last \in 1 .. N + 1 /\ more[last][1] = key
        /\ \A m \in 1 .. N + 1 : more[m][1] = key => m <= last
    <3> DEFINE l == LastPlace(more, more[n][1])
    <3>1. /\ l \in 1 .. N + 1 /\ more[l][1] = more[n][1]
          /\ \A m \in 1 .. N + 1 : more[m][1] = more[n][1] => m <= l
      BY <1>1, <2>2, LastPlaceFacts
    <3> QED
      BY <2>2, <3>1
  <2>4. /\ before \in 1 .. N /\ pairs[before][1] = key
        /\ \A m \in 1 .. N : pairs[m][1] = key => m <= before
    <3> DEFINE l == LastPlace(pairs, pairs[n][1])
    <3>1. /\ l \in 1 .. N /\ pairs[l][1] = pairs[n][1]
          /\ \A m \in 1 .. N : pairs[m][1] = pairs[n][1] => m <= l
      BY <2>1, LastPlaceFacts
    <3> QED
      BY <2>1, <3>1
  <2> HIDE DEF last, before, keys
  <2>5. last # N + 1
    BY <1>2, <1>5, <2>3
  <2>6. last \in 1 .. N
    BY <2>3, <2>5
  <2>7. more[last][1] = pairs[last][1] /\ more[before][1] = pairs[before][1]
    BY <2>4, <2>6
  <2>8. before <= last /\ last <= before
    BY <1>1, <2>3, <2>4, <2>6, <2>7
  <2>9. last = before
    BY <2>4, <2>6, <2>8
  <2> QED
    BY <2>4, <2>9 DEF last, before
<1>6. \A key \in keys \cup {new} :
        more[LastPlace(more, key)][2]
          = IF key = new THEN value ELSE pairs[LastPlace(pairs, key)][2]
  BY <1>2, <1>4, <1>5
<1>7. Assigned(more)
        = [key \in keys \cup {new} |->
            IF key = new THEN value ELSE pairs[LastPlace(pairs, key)][2]]
  BY <1>3, <1>6 DEF Assigned
<1>8. Assigned(pairs) = [key \in keys |-> pairs[LastPlace(pairs, key)][2]]
  BY DEF Assigned
<1> HIDE DEF keys
<1> QED
  BY <1>7, <1>8 DEF Assign

(* Nothing assigned, an empty map.                                         *)
LEMMA AssignedNothing ==
  ASSUME NEW pairs, DOMAIN pairs = {}
  PROVE  Assigned(pairs) = EmptyMap
BY DEF Assigned, EmptyMap

(* An id that is given to one name leads back to it.                       *)
LEMMA NamesOfFacts ==
  ASSUME NEW ids, \A a, b \in DOMAIN ids : ids[a] = ids[b] => a = b
  PROVE  \A s \in DOMAIN ids : ids[s] \in DOMAIN NamesOf(ids) /\ NamesOf(ids)[ids[s]] = s
<1> TAKE s \in DOMAIN ids
<1> DEFINE name == CHOOSE n \in DOMAIN ids : ids[n] = ids[s]
<1>1. name \in DOMAIN ids /\ ids[name] = ids[s]
  OBVIOUS
<1>2. NamesOf(ids)[ids[s]] = name /\ ids[s] \in DOMAIN NamesOf(ids)
  BY DEF NamesOf
<1> HIDE DEF name
<1> QED
  BY <1>1, <1>2

(* The parts of a message.                                                 *)
LEMMA MessageFields ==
  ASSUME NEW m \in Message
  PROVE  /\ m.buses \in Seq([name : Names, stop_ids : Seq(Int), is_roundtrip : BOOLEAN])
         /\ m.stops \in Seq([id : Int, name : Names, coordinates : Coordinates])
         /\ m.distances \in Seq([from : Int, to : Int, distance : Int])
BY DEF Message

(* The names behind the ids of a message do not change while more names    *)
(* are numbered, and neither does what the message says.                   *)
LEMMA SaysStill ==
  ASSUME NEW m \in Message, NEW base \in Seq(Request), NEW ids, NEW more, Says(m, base, ids),
         \A a, b \in DOMAIN more : more[a] = more[b] => a = b,
         DOMAIN more \subseteq Names, DOMAIN ids \subseteq DOMAIN more,
         \A s \in DOMAIN ids : more[s] = ids[s]
  PROVE  Says(m, base, more)
<1> DEFINE D == DeclaredStops(base)
           M == MentionedStops(base)
<1>1. /\ D \cup M \subseteq DOMAIN ids
      /\ \A a, b \in DOMAIN ids : ids[a] = ids[b] => a = b
  BY DEF Says, Numbers
<1> HIDE DEF D, M
<1>2. {ids[s] : s \in M} = {more[s] : s \in M} /\ {ids[s] : s \in D} = {more[s] : s \in D}
  BY <1>1
<1>3. \A s \in DOMAIN ids : NamesOf(more)[ids[s]] = NamesOf(ids)[ids[s]]
  BY <1>1, NamesOfFacts
<1>4. \A n \in DOMAIN m.distances :
        /\ NamesOf(more)[m.distances[n].from] = NamesOf(ids)[m.distances[n].from]
        /\ NamesOf(more)[m.distances[n].to] = NamesOf(ids)[m.distances[n].to]
  <2> TAKE n \in DOMAIN m.distances
  <2>1. m.distances[n].from \in {ids[s] : s \in D}
    BY DEF Says, SaysRoads, D
  <2>2. m.distances[n].to \in {ids[s] : s \in M}
    BY DEF Says, MentionedIds, M
  <2> QED
    BY <1>1, <1>3, <2>1, <2>2
<1>5. \A n \in DOMAIN m.buses : \A k \in DOMAIN m.buses[n].stop_ids :
        NamesOf(more)[m.buses[n].stop_ids[k]] = NamesOf(ids)[m.buses[n].stop_ids[k]]
  <2> TAKE n \in DOMAIN m.buses
  <2> TAKE k \in DOMAIN m.buses[n].stop_ids
  <2>1. m.buses[n].stop_ids[k] \in MentionedIds(m)
    BY DEF MentionedIds
  <2>2. m.buses[n].stop_ids[k] \in {ids[s] : s \in M}
    BY <2>1 DEF Says, M
  <2> QED
    BY <1>1, <1>3, <2>2
<1>6. /\ DOMAIN m.distances = 1 .. Len(m.distances)
      /\ DOMAIN m.buses = 1 .. Len(m.buses)
  BY MessageFields
<1>7. RoadPairs(m, NamesOf(more), Len(m.distances)) = RoadPairs(m, NamesOf(ids), Len(m.distances))
  BY <1>4, <1>6 DEF RoadPairs
<1>8. BusRequests(m, NamesOf(more), Len(m.buses)) = BusRequests(m, NamesOf(ids), Len(m.buses))
  <2>1. \A n \in 1 .. Len(m.buses) :
          [k \in DOMAIN m.buses[n].stop_ids |-> NamesOf(more)[m.buses[n].stop_ids[k]]]
            = [k \in DOMAIN m.buses[n].stop_ids |-> NamesOf(ids)[m.buses[n].stop_ids[k]]]
    BY <1>5, <1>6
  <2> QED
    BY <2>1 DEF BusRequests
<1>9. Numbers(more, DeclaredStops(base) \cup MentionedStops(base))
  BY <1>1 DEF Numbers, D, M
<1>10. SaysStops(m, base, more)
  BY DEF Says, SaysStops
<1>11. SaysRoads(m, base, more)
  BY <1>2, <1>7 DEF Says, SaysRoads, D
<1>12. SaysBuses(m, base, more)
  BY <1>8 DEF Says, SaysBuses
<1>13. MentionedIds(m) = {more[s] : s \in MentionedStops(base)}
  BY <1>2 DEF Says, M
<1> QED
  BY <1>9, <1>10, <1>11, <1>12, <1>13 DEF Says


(* The empty message says nothing.                                         *)
LEMMA SaysNothing ==
  ASSUME NEW ids, DOMAIN ids \subseteq Names,
         \A a, b \in DOMAIN ids : ids[a] = ids[b] => a = b
  PROVE  EmptyMessage \in Message /\ Says(EmptyMessage, <<>>, ids)
<1> DEFINE m == EmptyMessage
<1>1. /\ m.stops = <<>> /\ m.distances = <<>> /\ m.buses = <<>>
      /\ m \in Message
  BY DEF EmptyMessage, Message
<1>2. DeclaredStops(<<>>) = {} /\ MentionedStops(<<>>) = {}
  BY DEF DeclaredStops, MentionedStops
<1>3. BuiltFrom(<<>>) = EmptyCatalogue
  <2>1. <<>> \in Seq(Request) /\ [type |-> "Null"] \in Request
    BY DEF Request
  <2> QED
    BY <2>1, BuiltFromUnfold
<1> HIDE DEF m
<1>4. MentionedIds(m) = {}
  BY <1>1 DEF MentionedIds
<1>5. SaysStops(m, <<>>, ids)
  <2>1. DOMAIN StopPairs(m, Len(m.stops)) = {}
    BY <1>1 DEF StopPairs
  <2>2. CoordinatesIn(BuiltFrom(<<>>), DeclaredStops(<<>>)) = EmptyMap
    BY <1>2 DEF CoordinatesIn, EmptyMap
  <2> QED
    BY <1>1, <2>1, <2>2, AssignedNothing DEF SaysStops
<1>6. SaysRoads(m, <<>>, ids)
  <2>1. DOMAIN RoadPairs(m, NamesOf(ids), Len(m.distances)) = {}
    BY <1>1 DEF RoadPairs
  <2>2. BuiltFrom(<<>>).distances = EmptyMap
    BY <1>3, EmptyCatalogueFacts
  <2> QED
    BY <1>1, <2>1, <2>2, AssignedNothing DEF SaysRoads
<1>7. SaysBuses(m, <<>>, ids)
  <2>1. BusRequests(m, NamesOf(ids), Len(m.buses)) = <<>>
    BY <1>1 DEF BusRequests
  <2> QED
    BY <2>1 DEF SaysBuses
<1> QED
  BY <1>1, <1>2, <1>4, <1>5, <1>6, <1>7 DEF Says, Numbers, Readable, m

(* One request more, and none is malformed.                                *)
LEMMA ReadableMore ==
  ASSUME NEW base \in Seq(Request), NEW r \in Request
  PROVE  Readable(Append(base, r)) <=> Readable(base) /\ r.type # "Malformed"
<1>1. /\ DOMAIN base = 1 .. Len(base) /\ Len(base) \in Nat
      /\ DOMAIN Append(base, r) = 1 .. Len(base) + 1
      /\ \A k \in 1 .. Len(base) : Append(base, r)[k] = base[k]
      /\ Append(base, r)[Len(base) + 1] = r
  OBVIOUS
<1>2. \A k \in 1 .. Len(base) + 1 : k \in 1 .. Len(base) \/ k = Len(base) + 1
  BY <1>1
<1>3. Len(base) + 1 \in 1 .. Len(base) + 1 /\ 1 .. Len(base) \subseteq 1 .. Len(base) + 1
  BY <1>1
<1> QED
  BY <1>1, <1>2, <1>3 DEF Readable

(* A message whose stops grew by one names it last.                        *)
LEMMA StopPairsNext ==
  ASSUME NEW m, NEW last \in Nat
  PROVE  Assigned(StopPairs(m, last + 1))
           = Assign(Assigned(StopPairs(m, last)), m.stops[last + 1].name,
                    m.stops[last + 1].coordinates)
<1>1. DOMAIN StopPairs(m, last) = 1 .. last /\ DOMAIN StopPairs(m, last + 1) = 1 .. last + 1
  BY DEF StopPairs
<1>2. \A n \in 1 .. last : StopPairs(m, last + 1)[n] = StopPairs(m, last)[n]
  BY DEF StopPairs
<1>3. StopPairs(m, last + 1)[last + 1]
        = <<m.stops[last + 1].name, m.stops[last + 1].coordinates>>
  BY DEF StopPairs
<1> QED
  BY <1>1, <1>2, <1>3, AssignedNext

(* One road more of a message assigns one pair more.                       *)
LEMMA RoadPairsNext ==
  ASSUME NEW m, NEW names, NEW last \in Nat
  PROVE  Assigned(RoadPairs(m, names, last + 1))
           = Assign(Assigned(RoadPairs(m, names, last)),
                    <<names[m.distances[last + 1].from], names[m.distances[last + 1].to]>>,
                    m.distances[last + 1].distance)
<1>1. /\ DOMAIN RoadPairs(m, names, last) = 1 .. last
      /\ DOMAIN RoadPairs(m, names, last + 1) = 1 .. last + 1
  BY DEF RoadPairs
<1>2. \A n \in 1 .. last : RoadPairs(m, names, last + 1)[n] = RoadPairs(m, names, last)[n]
  BY DEF RoadPairs
<1>3. RoadPairs(m, names, last + 1)[last + 1]
        = << <<names[m.distances[last + 1].from], names[m.distances[last + 1].to]>>,
             m.distances[last + 1].distance>>
  BY DEF RoadPairs
<1> QED
  BY <1>1, <1>2, <1>3, AssignedNext

(* Setting a stop assigns its coordinates.                                 *)
LEMMA SetStopCoordinates ==
  ASSUME NEW cat \in Catalogues, NEW name \in Names, NEW c \in Coordinates,
         NEW S, S \subseteq StopNames(cat)
  PROVE  CoordinatesIn(SetStop(cat, name, c), S \cup {name})
           = Assign(CoordinatesIn(cat, S), name, c)
<1> DEFINE new == SetStop(cat, name, c)
<1>1. CatalogueType(cat)
  BY CataloguesFacts
<1>2. /\ new.stops[name].coordinates = c
      /\ \A s \in StopNames(cat) : s # name =>
           new.stops[s].coordinates = cat.stops[s].coordinates
  BY <1>1, SetStopFields
<1> HIDE DEF new
<1> QED
  BY <1>2 DEF CoordinatesIn, Assign, new

(* A message that gets one stop more says one stop request more.           *)
LEMMA SaysStop ==
  ASSUME NEW m \in Message, NEW base \in Seq(Request), NEW ids, Says(m, base, ids),
         NEW r \in Request, r.type = "Stop", r.road_distances = <<>>,
         r.name \in DOMAIN ids,
         NEW new \in Message, new.buses = m.buses, new.distances = m.distances,
         new.stops = Append(m.stops, [id |-> ids[r.name], name |-> r.name,
                                      coordinates |-> r.coordinates])
  PROVE  Says(new, Append(base, r), ids)
<1> DEFINE cat == BuiltFrom(base)
           more == Append(base, r)
           set == SetStop(cat, r.name, r.coordinates)
           N == Len(m.stops)
           stop == [id |-> ids[r.name], name |-> r.name, coordinates |-> r.coordinates]
<1>1. r.name \in Names /\ r.coordinates \in Coordinates
  BY RequestFields
<1>2. cat \in Catalogues /\ BuiltCatalogue(cat, base)
  BY BuiltFromUnfold, BuiltFromFacts
<1>3. BuiltFrom(more) = set
  <2>1. BuiltFrom(more) = ApplyRequest(cat, r)
    BY BuiltFromUnfold
  <2>2. /\ ApplyRequest(cat, r) = SetRoadDistances(set, r.name, r.road_distances)
        /\ set \in Catalogues
    BY <1>2, ApplyStop
  <2>3. \A road \in Names \X Int : SetRoadDistances(set, r.name, <<>>) = set
    <3>1. <<>> \in Seq(Names \X Int)
      OBVIOUS
    <3> HIDE DEF set
    <3> QED
      BY <1>1, <2>2, <3>1, RoadDistancesUnfold
  <2>4. <<r.name, 0>> \in Names \X Int
    BY <1>1
  <2> QED
    BY <2>1, <2>2, <2>3, <2>4
<1>4. /\ DeclaredStops(more) = DeclaredStops(base) \cup {r.name}
      /\ MentionedStops(more) = MentionedStops(base)
  <2>1. Declares(r) = {r.name} /\ Mentions(r) = {}
    BY DEF Declares, Mentions, RoadEnds
  <2> QED
    BY <2>1, AppendedRequest
<1>5. /\ N \in Nat /\ Len(new.stops) = N + 1 /\ DOMAIN m.stops = 1 .. N
      /\ new.stops[N + 1] = stop /\ \A n \in 1 .. N : new.stops[n] = m.stops[n]
      /\ DOMAIN new.stops = 1 .. N + 1
  BY MessageFields
<1>6. set.buses = cat.buses /\ set.distances = cat.distances
  BY <1>1, <1>2, CataloguesFacts, SetStopFields
<1>7. CoordinatesIn(set, DeclaredStops(base) \cup {r.name})
        = Assign(CoordinatesIn(cat, DeclaredStops(base)), r.name, r.coordinates)
  <2>1. DeclaredStops(base) \subseteq StopNames(cat)
    BY <1>2 DEF BuiltCatalogue
  <2> QED
    BY <1>1, <1>2, <2>1, SetStopCoordinates
<1> HIDE DEF cat, set, N, more
<1>8. SaysStops(new, more, ids)
  <2>1. StopPairs(new, N) = StopPairs(m, N)
    BY <1>5 DEF StopPairs
  <2>2. Assigned(StopPairs(new, N + 1))
          = Assign(Assigned(StopPairs(m, N)), r.name, r.coordinates)
    <3>1. new.stops[N + 1].name = r.name /\ new.stops[N + 1].coordinates = r.coordinates
      BY <1>5
    <3> QED
      BY <1>5, <2>1, <3>1, StopPairsNext
  <2>3. Assigned(StopPairs(m, N)) = CoordinatesIn(cat, DeclaredStops(base))
    BY DEF Says, SaysStops, N, cat
  <2>4. ASSUME NEW n \in DOMAIN new.stops
        PROVE  new.stops[n].name \in DOMAIN ids /\ new.stops[n].id = ids[new.stops[n].name]
    <3>1. CASE n = N + 1
      BY <1>5, <3>1
    <3>2. CASE n # N + 1
      <4>1. n \in DOMAIN m.stops /\ new.stops[n] = m.stops[n]
        BY <1>5, <3>2
      <4> QED
        BY <4>1 DEF Says, SaysStops
    <3> QED
      BY <3>1, <3>2
  <2> QED
    BY <1>3, <1>4, <1>5, <1>7, <2>2, <2>3, <2>4 DEF SaysStops
<1>9. SaysRoads(new, more, ids)
  <2>1. RoadPairs(new, NamesOf(ids), Len(new.distances))
          = RoadPairs(m, NamesOf(ids), Len(m.distances))
    BY DEF RoadPairs
  <2>2. SaysRoads(m, base, ids)
    BY DEF Says
  <2> QED
    BY <1>3, <1>4, <1>6, <2>1, <2>2 DEF SaysRoads, cat
<1>10. SaysBuses(new, more, ids)
  <2>1. BusRequests(new, NamesOf(ids), Len(new.buses))
          = BusRequests(m, NamesOf(ids), Len(m.buses))
    BY DEF BusRequests
  <2>2. SaysBuses(m, base, ids)
    BY DEF Says
  <2> QED
    BY <1>3, <1>6, <2>1, <2>2 DEF SaysBuses, cat
<1>11. MentionedIds(new) = {ids[s] : s \in MentionedStops(more)}
  <2>1. MentionedIds(new) = MentionedIds(m)
    BY DEF MentionedIds
  <2> QED
    BY <1>4, <2>1 DEF Says
<1>12. Numbers(ids, DeclaredStops(more) \cup MentionedStops(more))
  BY <1>4 DEF Says, Numbers
<1>13. Readable(more)
  <2>1. Readable(base)
    BY DEF Says
  <2>2. Readable(Append(base, r)) <=> Readable(base) /\ r.type # "Malformed"
    BY ReadableMore
  <2>3. r.type # "Malformed"
    OBVIOUS
  <2> QED
    BY <2>1, <2>2, <2>3 DEF more
<1> QED
  BY <1>8, <1>9, <1>10, <1>11, <1>12, <1>13 DEF Says, more


(* One distance more in the message, one road more in the last request.    *)
LEMMA SaysRoad ==
  ASSUME NEW m \in Message, NEW base \in Seq(Request), NEW ids,
         NEW r \in Request, r.type = "Stop", Says(m, Append(base, r), ids),
         NEW to \in DOMAIN ids, NEW length \in Int,
         NEW longer \in Request, longer.type = "Stop",
         longer.name = r.name, longer.coordinates = r.coordinates,
         longer.road_distances = Append(r.road_distances, <<to, length>>),
         NEW new \in Message, new.buses = m.buses, new.stops = m.stops,
         new.distances = Append(m.distances, [from |-> ids[r.name], to |-> ids[to],
                                              distance |-> length])
  PROVE  Says(new, Append(base, longer), ids)
<1> DEFINE before == Append(base, r)
           after == Append(base, longer)
           cat == BuiltFrom(before)
           next == BuiltFrom(after)
           N == Len(m.distances)
           names == NamesOf(ids)
<1>1. /\ r.name \in Names /\ r.coordinates \in Coordinates
      /\ r.road_distances \in Seq(Names \X Int)
  BY RequestFields
<1>2. to \in Names /\ <<to, length>> \in Names \X Int
  BY DEF Says, Numbers
<1>3. before \in Seq(Request) /\ after \in Seq(Request)
  OBVIOUS
<1>4. /\ cat \in Catalogues /\ BuiltCatalogue(cat, before)
      /\ next \in Catalogues /\ BuiltCatalogue(next, after)
  BY <1>3, BuiltFromFacts DEF BuiltCatalogue
<1>5. next = SetStopDistance(cat, r.name, to, length)
  <2> DEFINE set == SetStop(BuiltFrom(base), r.name, r.coordinates)
  <2>1. cat = ApplyRequest(BuiltFrom(base), r) /\ next = ApplyRequest(BuiltFrom(base), longer)
    BY BuiltFromUnfold
  <2>2. BuiltFrom(base) \in Catalogues
    BY BuiltFromUnfold
  <2>3. set \in Catalogues /\ cat = SetRoadDistances(set, r.name, r.road_distances)
    BY <2>1, <2>2, ApplyStop
  <2>4. next = SetRoadDistances(set, r.name, Append(r.road_distances, <<to, length>>))
    BY <2>1, <2>2, ApplyStop
  <2> HIDE DEF set, cat, next
  <2>5. SetRoadDistances(set, r.name, Append(r.road_distances, <<to, length>>))
          = SetStopDistance(SetRoadDistances(set, r.name, r.road_distances), r.name,
                            <<to, length>>[1], <<to, length>>[2])
    BY <1>1, <1>2, <2>3, RoadDistancesUnfold, ZenonT(30)
  <2> QED
    BY <2>3, <2>4, <2>5
<1>6. /\ DeclaredStops(after) = DeclaredStops(before)
      /\ MentionedStops(after) = MentionedStops(before) \cup {to}
      /\ r.name \in DeclaredStops(before)
  <2>1. Declares(r) = {r.name} /\ Declares(longer) = {r.name}
    BY DEF Declares
  <2>2. Mentions(longer) = Mentions(r) \cup {to}
    <3>1. /\ DOMAIN longer.road_distances = DOMAIN r.road_distances \cup {Len(r.road_distances) + 1}
          /\ longer.road_distances[Len(r.road_distances) + 1] = <<to, length>>
          /\ \A k \in DOMAIN r.road_distances :
               longer.road_distances[k] = r.road_distances[k]
      BY <1>1
    <3>2. RoadEnds(longer.road_distances) = RoadEnds(r.road_distances) \cup {to}
      <4> DEFINE f == longer.road_distances
                 g == r.road_distances
                 last == Len(r.road_distances) + 1
      <4>1. DOMAIN f = DOMAIN g \cup {last} /\ f[last][1] = to
        BY <3>1
      <4>2. \A k \in DOMAIN g : f[k][1] = g[k][1]
        BY <3>1
      <4> HIDE DEF f, g, last
      <4>3. {f[k][1] : k \in DOMAIN f} = {g[k][1] : k \in DOMAIN g} \cup {to}
        BY <4>1, <4>2, SMTT(30)
      <4> QED
        BY <4>3 DEF RoadEnds, f, g
    <3> QED
      BY <3>2 DEF Mentions
  <2> QED
    BY <2>1, <2>2, AppendedRequest, ZenonT(30)
<1>7. /\ next.buses = cat.buses
      /\ next.distances = Assign(cat.distances, <<r.name, to>>, length)
      /\ StopNames(next) = StopNames(cat) \cup {r.name, to}
      /\ \A s \in StopNames(next) : next.stops[s] = StopOf(cat, s)
  <2> HIDE DEF cat, next
  <2>1. CatalogueType(cat)
    BY <1>4, CataloguesFacts
  <2> QED
    BY <1>1, <1>2, <1>5, <2>1, SetStopDistanceFields
<1>8. /\ N \in Nat /\ Len(new.distances) = N + 1 /\ DOMAIN m.distances = 1 .. N
      /\ new.distances[N + 1] = [from |-> ids[r.name], to |-> ids[to], distance |-> length]
      /\ \A n \in 1 .. N : new.distances[n] = m.distances[n]
      /\ DOMAIN new.distances = 1 .. N + 1
  <2> DEFINE S == [from : Int, to : Int, distance : Int]
             road == [from |-> ids[r.name], to |-> ids[to], distance |-> length]
  <2>1. new.distances = Append(m.distances, road)
    OBVIOUS
  <2>2. m.distances \in Seq(S) /\ new.distances \in Seq(S)
    BY MessageFields
  <2> HIDE DEF S, road
  <2>3. N \in Nat /\ Len(new.distances) = N + 1 /\ DOMAIN m.distances = 1 .. N
    BY <2>1, <2>2
  <2>4. new.distances[N + 1] = road /\ \A n \in 1 .. N : new.distances[n] = m.distances[n]
    BY <2>1, <2>2
  <2>5. DOMAIN new.distances = 1 .. N + 1
    BY <2>2, <2>3
  <2> QED
    BY <2>3, <2>4, <2>5 DEF road
<1>9. /\ r.name \in DOMAIN ids
      /\ names[ids[r.name]] = r.name /\ names[ids[to]] = to
  <2>1. /\ \A a, b \in DOMAIN ids : ids[a] = ids[b] => a = b
        /\ r.name \in DOMAIN ids
    BY <1>6 DEF Says, Numbers
  <2> QED
    BY <2>1, NamesOfFacts
<1> HIDE DEF cat, next, N, names, before, after
<1>10. SaysStops(new, after, ids)
  <2>1. StopPairs(new, Len(new.stops)) = StopPairs(m, Len(m.stops))
    BY DEF StopPairs
  <2>2. SaysStops(m, before, ids)
    BY DEF Says, before
  <2>3. DeclaredStops(before) \subseteq StopNames(cat)
    BY <1>4 DEF BuiltCatalogue
  <2>4. CoordinatesIn(next, DeclaredStops(after)) = CoordinatesIn(cat, DeclaredStops(before))
    BY <1>6, <1>7, <2>3 DEF CoordinatesIn, StopOf
  <2> QED
    BY <2>1, <2>2, <2>4 DEF SaysStops, cat, next
<1>11. SaysRoads(new, after, ids)
  <2>1. SaysRoads(m, before, ids)
    BY DEF Says, before
  <2>2. RoadPairs(new, names, N) = RoadPairs(m, names, N)
    BY <1>8 DEF RoadPairs
  <2>3. Assigned(RoadPairs(new, names, N + 1))
          = Assign(Assigned(RoadPairs(m, names, N)), <<r.name, to>>, length)
    <3>1. /\ new.distances[N + 1].from = ids[r.name] /\ new.distances[N + 1].to = ids[to]
          /\ new.distances[N + 1].distance = length
      BY <1>8
    <3> QED
      BY <1>8, <1>9, <2>2, <3>1, RoadPairsNext
  <2>4. Assigned(RoadPairs(m, names, N)) = cat.distances
    BY <2>1 DEF SaysRoads, names, N, cat
  <2>5. ASSUME NEW n \in DOMAIN new.distances
        PROVE  new.distances[n].from \in {ids[s] : s \in DeclaredStops(after)}
    <3>1. CASE n = N + 1
      BY <1>6, <1>8, <3>1
    <3>2. CASE n # N + 1
      <4>1. n \in DOMAIN m.distances /\ new.distances[n] = m.distances[n]
        BY <1>8, <3>2
      <4> QED
        BY <1>6, <2>1, <4>1 DEF SaysRoads
    <3> QED
      BY <3>1, <3>2
  <2> QED
    BY <1>7, <1>8, <2>3, <2>4, <2>5 DEF SaysRoads, names, next
<1>12. SaysBuses(new, after, ids)
  <2>1. BusRequests(new, NamesOf(ids), Len(new.buses))
          = BusRequests(m, NamesOf(ids), Len(m.buses))
    BY DEF BusRequests
  <2>2. SaysBuses(m, before, ids)
    BY DEF Says, before
  <2> QED
    BY <1>7, <2>1, <2>2 DEF SaysBuses, cat, next
<1>13. MentionedIds(new) = {ids[s] : s \in MentionedStops(after)}
  <2> DEFINE B == UNION {{m.buses[n].stop_ids[k] : k \in DOMAIN m.buses[n].stop_ids} :
                         n \in DOMAIN m.buses}
             D(msg) == {msg.distances[n].to : n \in DOMAIN msg.distances}
  <2>1. MentionedIds(m) = D(m) \cup B /\ MentionedIds(new) = D(new) \cup B
    BY DEF MentionedIds
  <2> HIDE DEF B
  <2>2. D(new) = D(m) \cup {ids[to]}
    <3>1. new.distances[N + 1].to = ids[to]
      BY <1>8
    <3>2. DOMAIN new.distances = DOMAIN m.distances \cup {N + 1}
      BY <1>8
    <3> QED
      BY <1>8, <3>1, <3>2
  <2>3. MentionedIds(m) = {ids[s] : s \in MentionedStops(before)}
    BY DEF Says, before
  <2> HIDE DEF D
  <2> QED
    BY <1>6, <2>1, <2>2, <2>3
<1>14. Numbers(ids, DeclaredStops(after) \cup MentionedStops(after))
  BY <1>6 DEF Says, Numbers, before
<1>15. Readable(after)
  <2>1. Readable(base)
    <3>1. Readable(Append(base, r))
      BY DEF Says, before
    <3> QED
      BY <3>1, ReadableMore
  <2>2. Readable(Append(base, longer)) <=> Readable(base) /\ longer.type # "Malformed"
    BY ReadableMore
  <2>3. longer.type # "Malformed"
    OBVIOUS
  <2> QED
    BY <2>1, <2>2, <2>3 DEF after
<1> QED
  BY <1>10, <1>11, <1>12, <1>13, <1>14, <1>15 DEF Says, after

(* What a bus request does to the buses depends on nothing else.           *)
LEMMA SameBuses ==
  ASSUME NEW one \in Seq(Request), NEW two \in Seq(Request),
         BuiltFrom(one).buses = BuiltFrom(two).buses,
         NEW r \in Request, r.type = "Bus"
  PROVE  BuiltFrom(Append(one, r)).buses = BuiltFrom(Append(two, r)).buses
<1>1. ASSUME NEW base \in Seq(Request)
      PROVE  BuiltFrom(Append(base, r)).buses
               = Assign(BuiltFrom(base).buses, r.name,
                        [is_chain |-> ~ r.is_roundtrip,
                         route |-> RouteOf(BuiltFrom(base), r.name) \o Reverse(r.stops)])
  <2>1. BuiltFrom(base) \in Catalogues
    BY BuiltFromUnfold
  <2>2. BuiltFrom(Append(base, r)) = ApplyRequest(BuiltFrom(base), r)
    BY BuiltFromUnfold
  <2>3. BusAdded(BuiltFrom(base), ApplyRequest(BuiltFrom(base), r), r.name,
                 Reverse(r.stops), ~ r.is_roundtrip)
    BY <2>1, ApplyBus
  <2> QED
    BY <2>2, <2>3 DEF BusAdded
<1>2. RouteOf(BuiltFrom(one), r.name) = RouteOf(BuiltFrom(two), r.name)
  BY DEF RouteOf, BusNames
<1> QED
  BY <1>1, <1>2

(* The bus requests of a message are requests as long as its ids resolve,  *)
(* and the last of them comes last.                                        *)
LEMMA BusRequestsNext ==
  ASSUME NEW m \in Message, NEW names, NEW last \in Nat, last <= Len(m.buses),
         \A n \in 1 .. last : \A k \in DOMAIN m.buses[n].stop_ids :
           names[m.buses[n].stop_ids[k]] \in Names
  PROVE  /\ BusRequests(m, names, last) \in Seq(Request)
         /\ \A n \in 1 .. last : BusRequests(m, names, last)[n].type = "Bus"
         /\ last # 0 => BusRequests(m, names, last)
              = Append(BusRequests(m, names, last - 1), BusRequests(m, names, last)[last])
<1> DEFINE q == BusRequests(m, names, last)
           S == [name : Names, stop_ids : Seq(Int), is_roundtrip : BOOLEAN]
           stops(n) == [k \in DOMAIN m.buses[n].stop_ids |-> names[m.buses[n].stop_ids[k]]]
<1>1. ASSUME NEW n \in 1 .. last
      PROVE  /\ q[n] = [type |-> "Bus", name |-> m.buses[n].name, stops |-> stops(n),
                        is_roundtrip |-> m.buses[n].is_roundtrip]
             /\ q[n] \in Request
  <2>1. m.buses \in Seq(S)
    BY MessageFields
  <2>2. m.buses[n] \in S
    <3> HIDE DEF S
    <3> QED
      BY <2>1
  <2>3. stops(n) \in Seq(Names)
    <3>1. m.buses[n].stop_ids \in Seq(Int)
      BY <2>2
    <3>2. DOMAIN m.buses[n].stop_ids = 1 .. Len(m.buses[n].stop_ids)
          /\ Len(m.buses[n].stop_ids) \in Nat
      BY <3>1
    <3> QED
      BY <3>2
  <2>4. q[n] = [type |-> "Bus", name |-> m.buses[n].name, stops |-> stops(n),
                is_roundtrip |-> m.buses[n].is_roundtrip]
    BY DEF BusRequests
  <2>5. m.buses[n].name \in Names /\ m.buses[n].is_roundtrip \in BOOLEAN
    BY <2>2
  <2> HIDE DEF stops, q
  <2>6. q[n] \in [type : {"Bus"}, name : Names, stops : Seq(Names), is_roundtrip : BOOLEAN]
    BY <2>3, <2>4, <2>5
  <2> QED
    BY <2>4, <2>6 DEF Request
<1>2. q = [n \in 1 .. last |-> q[n]]
  BY DEF BusRequests
<1>3. \A n \in 1 .. last - 1 : BusRequests(m, names, last - 1)[n] = q[n]
  BY DEF BusRequests
<1>4. last # 0 => BusRequests(m, names, last - 1) = [n \in 1 .. last - 1 |-> q[n]]
  BY DEF BusRequests
<1> HIDE DEF q, stops
<1>5. q \in Seq(Request) /\ \A n \in 1 .. last : q[n].type = "Bus"
  BY <1>1, <1>2
<1>6. last # 0 => q = Append(BusRequests(m, names, last - 1), q[last])
  <2> SUFFICES ASSUME last # 0 PROVE q = Append(BusRequests(m, names, last - 1), q[last])
    OBVIOUS
  <2> DEFINE front == [n \in 1 .. last - 1 |-> q[n]]
  <2>1. front \in Seq(Request) /\ Len(front) = last - 1 /\ last - 1 \in Nat
    <3>1. last - 1 \in Nat /\ \A n \in 1 .. last - 1 : n \in 1 .. last
      OBVIOUS
    <3>2. \A n \in 1 .. last - 1 : q[n] \in Request
      BY <1>1, <3>1
    <3> QED
      BY <3>1, <3>2
  <2>2. Append(front, q[last]) = [n \in 1 .. last |-> IF n = last THEN q[last] ELSE front[n]]
    BY <2>1
  <2>3. \A n \in 1 .. last : q[n] = IF n = last THEN q[last] ELSE front[n]
    OBVIOUS
  <2> HIDE DEF front
  <2>4. Append(front, q[last]) = q
    BY <1>2, <2>2, <2>3
  <2> QED
    BY <1>4, <2>4 DEF front
<1> QED
  BY <1>5, <1>6 DEF q

(* One bus more in the message, one bus request more in the document.      *)
LEMMA SaysBus ==
  ASSUME NEW m \in Message, NEW base \in Seq(Request), NEW ids, Says(m, base, ids),
         NEW r \in Request, r.type = "Bus",
         \A k \in DOMAIN r.stops : r.stops[k] \in DOMAIN ids,
         NEW new \in Message, new.stops = m.stops, new.distances = m.distances,
         new.buses = Append(m.buses, [name |-> r.name,
                                      stop_ids |-> [k \in 1 .. Len(r.stops) |-> ids[r.stops[k]]],
                                      is_roundtrip |-> r.is_roundtrip])
  PROVE  Says(new, Append(base, r), ids)
<1> DEFINE after == Append(base, r)
           cat == BuiltFrom(base)
           next == BuiltFrom(after)
           N == Len(m.buses)
           names == NamesOf(ids)
           bus == [name |-> r.name, stop_ids |-> [k \in 1 .. Len(r.stops) |-> ids[r.stops[k]]],
                   is_roundtrip |-> r.is_roundtrip]
<1>1. r.name \in Names /\ r.stops \in Seq(Names) /\ r.is_roundtrip \in BOOLEAN
  BY RequestFields
<1>2. after \in Seq(Request)
  OBVIOUS
<1>3. /\ cat \in Catalogues /\ BuiltCatalogue(cat, base)
      /\ next \in Catalogues /\ BuiltCatalogue(next, after)
  BY <1>2, BuiltFromFacts DEF BuiltCatalogue
<1>4. BusAdded(cat, next, r.name, Reverse(r.stops), ~ r.is_roundtrip)
  <2>1. next = ApplyRequest(cat, r)
    BY BuiltFromUnfold
  <2> HIDE DEF next, cat
  <2> QED
    BY <1>3, <2>1, ApplyBus
<1>5. /\ DeclaredStops(after) = DeclaredStops(base)
      /\ MentionedStops(after) = MentionedStops(base) \cup {r.stops[k] : k \in DOMAIN r.stops}
  <2>1. Declares(r) = {} /\ Mentions(r) = {r.stops[k] : k \in DOMAIN r.stops}
    BY DEF Declares, Mentions
  <2> QED
    BY <2>1, AppendedRequest
<1>6. /\ N \in Nat /\ Len(new.buses) = N + 1 /\ DOMAIN m.buses = 1 .. N
      /\ new.buses[N + 1] = bus /\ \A n \in 1 .. N : new.buses[n] = m.buses[n]
      /\ DOMAIN new.buses = 1 .. N + 1
  <2> DEFINE S == [name : Names, stop_ids : Seq(Int), is_roundtrip : BOOLEAN]
  <2>1. new.buses = Append(m.buses, bus)
    OBVIOUS
  <2>2. m.buses \in Seq(S) /\ new.buses \in Seq(S)
    BY MessageFields
  <2> HIDE DEF bus, S
  <2>3. N \in Nat /\ Len(new.buses) = N + 1 /\ DOMAIN m.buses = 1 .. N
    BY <2>1, <2>2
  <2>4. new.buses[N + 1] = bus /\ \A n \in 1 .. N : new.buses[n] = m.buses[n]
    BY <2>1, <2>2
  <2>5. DOMAIN new.buses = 1 .. N + 1
    BY <2>2, <2>3
  <2> QED
    BY <2>3, <2>4, <2>5
<1>7. \A s \in DOMAIN ids : names[ids[s]] = s /\ s \in Names
  BY NamesOfFacts DEF Says, Numbers
<1>8. /\ bus.name = r.name /\ bus.is_roundtrip = r.is_roundtrip
      /\ DOMAIN bus.stop_ids = DOMAIN r.stops
      /\ \A k \in DOMAIN r.stops : bus.stop_ids[k] = ids[r.stops[k]]
  BY <1>1
<1>9. MentionedIds(m) = {ids[s] : s \in MentionedStops(base)}
  BY DEF Says
<1>10. \A n \in 1 .. N : \A k \in DOMAIN m.buses[n].stop_ids :
         names[m.buses[n].stop_ids[k]] \in Names
  <2> TAKE n \in 1 .. N
  <2> TAKE k \in DOMAIN m.buses[n].stop_ids
  <2>1. m.buses[n].stop_ids[k] \in MentionedIds(m)
    <3> DEFINE B(b) == {m.buses[b].stop_ids[p] : p \in DOMAIN m.buses[b].stop_ids}
    <3>1. m.buses[n].stop_ids[k] \in B(n)
      OBVIOUS
    <3>2. n \in DOMAIN m.buses
      BY <1>6
    <3>3. UNION {B(b) : b \in DOMAIN m.buses} \subseteq MentionedIds(m)
      BY DEF MentionedIds
    <3> HIDE DEF B
    <3> QED
      BY <3>1, <3>2, <3>3
  <2> QED
    BY <1>7, <1>9, <2>1 DEF Says, Numbers
<1> HIDE DEF cat, next, N, names, after, bus
<1>11. SaysStops(new, after, ids)
  <2>1. StopPairs(new, Len(new.stops)) = StopPairs(m, Len(m.stops))
    BY DEF StopPairs
  <2>2. SaysStops(m, base, ids)
    BY DEF Says
  <2>3. DeclaredStops(base) \subseteq StopNames(cat)
    BY <1>3 DEF BuiltCatalogue
  <2>4. CoordinatesIn(next, DeclaredStops(after)) = CoordinatesIn(cat, DeclaredStops(base))
    BY <1>4, <1>5, <2>3 DEF CoordinatesIn, StopOf, BusAdded
  <2> QED
    BY <2>1, <2>2, <2>4 DEF SaysStops, cat, next
<1>12. SaysRoads(new, after, ids)
  <2>1. RoadPairs(new, NamesOf(ids), Len(new.distances))
          = RoadPairs(m, NamesOf(ids), Len(m.distances))
    BY DEF RoadPairs
  <2>2. SaysRoads(m, base, ids)
    BY DEF Says
  <2>3. next.distances = cat.distances
    BY <1>4 DEF BusAdded
  <2> QED
    BY <1>5, <2>1, <2>2, <2>3 DEF SaysRoads, cat, next
<1>13. SaysBuses(new, after, ids)
  <2>1. BusRequests(new, names, N) = BusRequests(m, names, N)
    BY <1>6 DEF BusRequests
  <2>2. \A k \in DOMAIN bus.stop_ids : names[bus.stop_ids[k]] = r.stops[k]
    BY <1>7, <1>8
  <2>3. BusRequests(new, names, N + 1)[N + 1] = r
    <3>1. [k \in DOMAIN bus.stop_ids |-> names[bus.stop_ids[k]]] = r.stops
      <4>1. r.stops = [k \in DOMAIN r.stops |-> r.stops[k]]
        BY <1>1
      <4>2. DOMAIN bus.stop_ids = DOMAIN r.stops
        BY <1>8
      <4> QED
        BY <2>2, <4>1, <4>2
    <3>2. r = [type |-> "Bus", name |-> r.name, stops |-> r.stops,
               is_roundtrip |-> r.is_roundtrip]
      BY DEF Request
    <3>3. N + 1 \in 1 .. N + 1
      BY <1>6
    <3>4. BusRequests(new, names, N + 1)[N + 1]
            = [type |-> "Bus", name |-> bus.name,
               stops |-> [k \in DOMAIN bus.stop_ids |-> names[bus.stop_ids[k]]],
               is_roundtrip |-> bus.is_roundtrip]
      BY <1>6, <3>3 DEF BusRequests
    <3> QED
      BY <1>8, <3>1, <3>2, <3>4
  <2>4. \A n \in 1 .. N + 1 : \A k \in DOMAIN new.buses[n].stop_ids :
          names[new.buses[n].stop_ids[k]] \in Names
    <3> TAKE n \in 1 .. N + 1
    <3>1. CASE n = N + 1
      BY <1>1, <1>6, <1>8, <2>2, <3>1
    <3>2. CASE n # N + 1
      <4>1. n \in 1 .. N /\ new.buses[n] = m.buses[n]
        BY <1>6, <3>2
      <4> QED
        BY <1>10, <4>1
    <3> QED
      BY <3>1, <3>2
  <2>5. BusRequests(new, names, N + 1) = Append(BusRequests(m, names, N), r)
    <3>1. N + 1 \in Nat /\ N + 1 <= Len(new.buses) /\ N + 1 # 0 /\ (N + 1) - 1 = N
      BY <1>6
    <3>2. BusRequests(new, names, N + 1)
            = Append(BusRequests(new, names, (N + 1) - 1), BusRequests(new, names, N + 1)[N + 1])
      BY <2>4, <3>1, BusRequestsNext
    <3> QED
      BY <2>1, <2>3, <3>1, <3>2
  <2>6. BusRequests(m, names, N) \in Seq(Request)
    <3>1. N <= Len(m.buses)
      BY <1>6 DEF N
    <3> QED
      BY <1>6, <1>10, <3>1, BusRequestsNext
  <2>7. BuiltFrom(BusRequests(m, names, N)).buses = BuiltFrom(base).buses
    BY DEF Says, SaysBuses, names, N
  <2>8. BuiltFrom(Append(BusRequests(m, names, N), r)).buses = BuiltFrom(Append(base, r)).buses
    BY <2>6, <2>7, SameBuses
  <2> QED
    BY <1>6, <2>5, <2>8 DEF SaysBuses, names, after
<1>14. MentionedIds(new) = {ids[s] : s \in MentionedStops(after)}
  <2> DEFINE D == {m.distances[n].to : n \in DOMAIN m.distances}
             B(q, n) == {q.buses[n].stop_ids[k] : k \in DOMAIN q.buses[n].stop_ids}
             All(q) == UNION {B(q, n) : n \in DOMAIN q.buses}
  <2>1. MentionedIds(m) = D \cup All(m) /\ MentionedIds(new) = D \cup All(new)
    BY DEF MentionedIds
  <2>2. B(new, N + 1) = {ids[r.stops[k]] : k \in DOMAIN r.stops}
    <3>1. B(new, N + 1) = {bus.stop_ids[k] : k \in DOMAIN bus.stop_ids}
      BY <1>6
    <3> QED
      BY <1>8, <3>1
  <2>3. \A n \in 1 .. N : B(new, n) = B(m, n)
    BY <1>6
  <2>4. ASSUME NEW q PROVE \A e : e \in All(q) <=> \E n \in DOMAIN q.buses : e \in B(q, n)
    <3> HIDE DEF B
    <3> QED
      OBVIOUS
  <2> HIDE DEF D, B, All
  <2>5. All(new) = All(m) \cup {ids[r.stops[k]] : k \in DOMAIN r.stops}
    <3>1. DOMAIN new.buses = DOMAIN m.buses \cup {N + 1} /\ DOMAIN m.buses = 1 .. N
      BY <1>6
    <3>2. \A e : e \in All(new) <=> \E n \in DOMAIN new.buses : e \in B(new, n)
      BY <2>4
    <3>3. \A e : e \in All(m) <=> \E n \in DOMAIN m.buses : e \in B(m, n)
      BY <2>4
    <3>4. \A e : e \in All(new) <=> e \in All(m) \/ e \in B(new, N + 1)
      BY <2>3, <3>1, <3>2, <3>3
    <3> QED
      BY <2>2, <3>4
  <2>6. {ids[s] : s \in MentionedStops(after)}
          = {ids[s] : s \in MentionedStops(base)} \cup {ids[r.stops[k]] : k \in DOMAIN r.stops}
    BY <1>5
  <2> QED
    BY <1>9, <2>1, <2>5, <2>6
<1>15. Numbers(ids, DeclaredStops(after) \cup MentionedStops(after))
  BY <1>5 DEF Says, Numbers
<1>16. Readable(after)
  <2>1. Readable(base)
    BY DEF Says
  <2>2. Readable(Append(base, r)) <=> Readable(base) /\ r.type # "Malformed"
    BY ReadableMore
  <2>3. r.type # "Malformed"
    OBVIOUS
  <2> QED
    BY <2>1, <2>2, <2>3 DEF after
<1> QED
  BY <1>11, <1>12, <1>13, <1>14, <1>15, <1>16 DEF Says, after

(* A request of another type says nothing.                                 *)
LEMMA SaysNoMore ==
  ASSUME NEW m, NEW base \in Seq(Request), NEW ids, Says(m, base, ids),
         NEW r \in Request, r.type \notin {"Stop", "Bus", "Malformed"}
  PROVE  Says(m, Append(base, r), ids)
<1>1. BuiltFrom(Append(base, r)) = BuiltFrom(base)
  BY BuiltFromUnfold DEF ApplyRequest
<1>2. /\ DeclaredStops(Append(base, r)) = DeclaredStops(base)
      /\ MentionedStops(Append(base, r)) = MentionedStops(base)
  <2>1. Declares(r) = {} /\ Mentions(r) = {}
    BY DEF Declares, Mentions
  <2>2. /\ DeclaredStops(Append(base, r)) = DeclaredStops(base) \cup Declares(r)
        /\ MentionedStops(Append(base, r)) = MentionedStops(base) \cup Mentions(r)
    BY AppendedRequest
  <2> QED
    BY <2>1, <2>2
<1> QED
  BY <1>1, <1>2, ReadableMore DEF Says, SaysStops, SaysRoads, SaysBuses

(* The ids of the stops of a message are those of the stops declared.      *)
LEMMA DeclaredIds ==
  ASSUME NEW m \in Message, NEW base \in Seq(Request), NEW ids, Says(m, base, ids)
  PROVE  /\ {m.stops[n].name : n \in DOMAIN m.stops} = DeclaredStops(base)
         /\ StopIds(m) = {ids[s] : s \in DeclaredStops(base)}
<1>1. DOMAIN m.stops = 1 .. Len(m.stops)
  BY MessageFields
<1>2. /\ \A n \in DOMAIN m.stops :
           m.stops[n].name \in DOMAIN ids /\ m.stops[n].id = ids[m.stops[n].name]
      /\ Assigned(StopPairs(m, Len(m.stops)))
           = CoordinatesIn(BuiltFrom(base), DeclaredStops(base))
  BY DEF Says, SaysStops
<1>3. DOMAIN Assigned(StopPairs(m, Len(m.stops))) = {m.stops[n].name : n \in DOMAIN m.stops}
  <2>1. /\ DOMAIN StopPairs(m, Len(m.stops)) = DOMAIN m.stops
        /\ \A n \in DOMAIN m.stops : StopPairs(m, Len(m.stops))[n][1] = m.stops[n].name
    BY <1>1 DEF StopPairs
  <2> QED
    BY <2>1 DEF Assigned
<1>4. DOMAIN CoordinatesIn(BuiltFrom(base), DeclaredStops(base)) = DeclaredStops(base)
  BY DEF CoordinatesIn
<1>5. {m.stops[n].name : n \in DOMAIN m.stops} = DeclaredStops(base)
  BY <1>2, <1>3, <1>4
<1>6. StopIds(m) = {ids[s] : s \in {m.stops[n].name : n \in DOMAIN m.stops}}
  BY <1>2 DEF StopIds
<1> QED
  BY <1>5, <1>6

(* An id that is mentioned and that no stop has: a stop nobody declares.   *)
LEMMA UnresolvedId ==
  ASSUME NEW m \in Message, NEW base \in Seq(Request), NEW ids, Says(m, base, ids),
         NEW id \in MentionedIds(m), id \notin StopIds(m)
  PROVE  ~ (MentionedStops(base) \subseteq DeclaredStops(base))
<1>1. PICK s \in MentionedStops(base) : id = ids[s]
  BY DEF Says
<1> QED
  BY <1>1, DeclaredIds

(* While the stops that were loaded keep their names, their ids lead back  *)
(* to these names.                                                         *)
LEMMA SameNames ==
  ASSUME NEW m \in Message, NEW base \in Seq(Request), NEW ids, Says(m, base, ids),
         NEW names, DOMAIN names = StopIds(m),
         \A n \in DOMAIN m.stops : names[m.stops[n].id] = m.stops[n].name
  PROVE  \A id \in DOMAIN names : names[id] = NamesOf(ids)[id]
<1>1. /\ \A n \in DOMAIN m.stops :
           m.stops[n].name \in DOMAIN ids /\ m.stops[n].id = ids[m.stops[n].name]
      /\ \A a, b \in DOMAIN ids : ids[a] = ids[b] => a = b
  BY DEF Says, SaysStops, Numbers
<1>2. \A s \in DOMAIN ids : NamesOf(ids)[ids[s]] = s
  BY <1>1, NamesOfFacts
<1> QED
  BY <1>1, <1>2 DEF StopIds

(* Stops with the same coordinates and buses make the same map of stops.   *)
LEMMA SameStops ==
  ASSUME NEW one \in Catalogues, NEW two \in Catalogues,
         IndexConsistent(one), IndexConsistent(two),
         CoordinatesIn(one, StopNames(one)) = CoordinatesIn(two, StopNames(two)),
         one.buses = two.buses, one.distances = two.distances
  PROVE  one = two
<1> DEFINE Stop == [coordinates : Coordinates \cup {Uninitialised}, buses : SUBSET Names]
<1>1. CatalogueType(one) /\ CatalogueType(two)
  BY CataloguesFacts
<1>2. StopNames(one) = StopNames(two)
  <2>1. \A cat : DOMAIN CoordinatesIn(cat, StopNames(cat)) = StopNames(cat)
    BY DEF CoordinatesIn
  <2> QED
    BY <2>1
<1>3. /\ one.stops = [s \in StopNames(one) |-> one.stops[s]]
      /\ two.stops = [s \in StopNames(two) |-> two.stops[s]]
      /\ \A s \in StopNames(one) : one.stops[s] \in Stop
      /\ \A s \in StopNames(two) : two.stops[s] \in Stop
  <2> HIDE DEF Stop
  <2> QED
    BY <1>1 DEF CatalogueType, IsPartialFunction, StopNames, Stop
<1>4. ASSUME NEW s \in StopNames(one) PROVE one.stops[s] = two.stops[s]
  <2>1. one.stops[s].coordinates = two.stops[s].coordinates
    <3>1. /\ CoordinatesIn(one, StopNames(one))[s] = one.stops[s].coordinates
          /\ CoordinatesIn(two, StopNames(two))[s] = two.stops[s].coordinates
      BY <1>2 DEF CoordinatesIn
    <3> QED
      BY <3>1
  <2>2. one.stops[s].buses = two.stops[s].buses
    <3>1. one.stops[s].buses
            = {b \in BusNames(one) : \E k \in DOMAIN one.buses[b].route :
                                       one.buses[b].route[k] = s}
      BY DEF IndexConsistent
    <3>2. two.stops[s].buses
            = {b \in BusNames(two) : \E k \in DOMAIN two.buses[b].route :
                                       two.buses[b].route[k] = s}
      BY <1>2 DEF IndexConsistent
    <3> QED
      BY <3>1, <3>2 DEF BusNames
  <2> QED
    BY <1>2, <1>3, <2>1, <2>2
<1>5. one.stops = two.stops
  <2> HIDE DEF Stop
  <2> QED
    BY <1>2, <1>3, <1>4
<1> QED
  BY <1>1, <1>5 DEF CatalogueType

(* A message all of whose ids resolve and that is loaded completely makes  *)
(* the catalogue of the requests it says.                                  *)
LEMMA LoadedIsBuilt ==
  ASSUME NEW m \in Message, NEW base \in Seq(Request), NEW ids, Says(m, base, ids),
         NEW names, DOMAIN names = StopIds(m),
         \A n \in DOMAIN m.stops : names[m.stops[n].id] = m.stops[n].name,
         NEW cat \in Catalogues, IndexConsistent(cat),
         CoordinatesIn(cat, StopNames(cat)) = Assigned(StopPairs(m, Len(m.stops))),
         \A n \in DOMAIN m.distances :
           {m.distances[n].from, m.distances[n].to} \subseteq DOMAIN names,
         cat.distances = Assigned(RoadPairs(m, names, Len(m.distances))),
         \A n \in DOMAIN m.buses : \A k \in DOMAIN m.buses[n].stop_ids :
           m.buses[n].stop_ids[k] \in DOMAIN names,
         cat.buses = BuiltFrom(BusRequests(m, names, Len(m.buses))).buses
  PROVE  MentionedStops(base) \subseteq DeclaredStops(base) /\ cat = BuiltFrom(base)
<1> DEFINE built == BuiltFrom(base)
<1>1. \A id \in DOMAIN names : names[id] = NamesOf(ids)[id]
  BY SameNames
<1>2. MentionedIds(m) \subseteq StopIds(m)
  <2>1. {m.distances[n].to : n \in DOMAIN m.distances} \subseteq StopIds(m)
    OBVIOUS
  <2>2. \A n \in DOMAIN m.buses :
          {m.buses[n].stop_ids[k] : k \in DOMAIN m.buses[n].stop_ids} \subseteq StopIds(m)
    OBVIOUS
  <2> QED
    BY <2>1, <2>2 DEF MentionedIds
<1>3. MentionedStops(base) \subseteq DeclaredStops(base)
  <2> SUFFICES ASSUME NEW s \in MentionedStops(base) PROVE s \in DeclaredStops(base)
    OBVIOUS
  <2>1. ids[s] \in StopIds(m)
    BY <1>2 DEF Says
  <2>2. PICK d \in DeclaredStops(base) : ids[d] = ids[s]
    <3>1. StopIds(m) = {ids[d] : d \in DeclaredStops(base)}
      BY DeclaredIds
    <3> QED
      BY <2>1, <3>1
  <2>3. d = s
    BY <2>2 DEF Says, Numbers
  <2> QED
    BY <2>3
<1>4. /\ DOMAIN m.distances = 1 .. Len(m.distances)
      /\ DOMAIN m.buses = 1 .. Len(m.buses)
  BY MessageFields
<1>5. cat.distances = built.distances
  <2>1. RoadPairs(m, names, Len(m.distances)) = RoadPairs(m, NamesOf(ids), Len(m.distances))
    BY <1>1, <1>4 DEF RoadPairs
  <2> QED
    BY <2>1 DEF Says, SaysRoads
<1>6. cat.buses = built.buses
  <2>1. \A n \in DOMAIN m.buses :
          [k \in DOMAIN m.buses[n].stop_ids |-> names[m.buses[n].stop_ids[k]]]
            = [k \in DOMAIN m.buses[n].stop_ids |-> NamesOf(ids)[m.buses[n].stop_ids[k]]]
    BY <1>1
  <2>2. BusRequests(m, names, Len(m.buses)) = BusRequests(m, NamesOf(ids), Len(m.buses))
    BY <1>4, <2>1 DEF BusRequests
  <2> QED
    BY <2>2 DEF Says, SaysBuses
<1>7. BuiltCatalogue(built, base)
  BY BuiltFromFacts
<1>8. CoordinatesIn(built, StopNames(built)) = CoordinatesIn(cat, StopNames(cat))
  <2>1. StopNames(built) = DeclaredStops(base)
    BY <1>3, <1>7 DEF BuiltCatalogue
  <2> QED
    BY <2>1 DEF Says, SaysStops
<1>9. cat = built
  <2> HIDE DEF built
  <2> QED
    BY <1>5, <1>6, <1>7, <1>8, SameStops DEF BuiltCatalogue
<1> QED
  BY <1>3, <1>9

(* A last bus request adds its bus.                                        *)
LEMMA BuiltBuses ==
  ASSUME NEW base \in Seq(Request), NEW r \in Request, r.type = "Bus"
  PROVE  BuiltFrom(Append(base, r)).buses
           = Assign(BuiltFrom(base).buses, r.name,
                    [is_chain |-> ~ r.is_roundtrip,
                     route |-> RouteOf(BuiltFrom(base), r.name) \o Reverse(r.stops)])
<1>1. BuiltFrom(base) \in Catalogues
  BY BuiltFromUnfold
<1>2. BuiltFrom(Append(base, r)) = ApplyRequest(BuiltFrom(base), r)
  BY BuiltFromUnfold
<1>3. BusAdded(BuiltFrom(base), ApplyRequest(BuiltFrom(base), r), r.name,
               Reverse(r.stops), ~ r.is_roundtrip)
  BY <1>1, ApplyBus
<1> QED
  BY <1>2, <1>3 DEF BusAdded

(* Setting the next bus of a message in a catalogue.                       *)
LEMMA NextBusSet ==
  ASSUME NEW m \in Message, NEW names, NEW n \in 1 .. Len(m.buses),
         \A b \in 1 .. n : \A k \in DOMAIN m.buses[b].stop_ids :
           names[m.buses[b].stop_ids[k]] \in Names,
         NEW cat \in Catalogues,
         cat.buses = BuiltFrom(BusRequests(m, names, n - 1)).buses,
         NEW bus, bus = m.buses[n],
         NEW route \in Seq(Names), DOMAIN route = DOMAIN bus.stop_ids,
         \A k \in DOMAIN route : route[k] = names[bus.stop_ids[k]],
         NEW new, new = SetBus(cat, bus.name, Reverse(route), ~ bus.is_roundtrip)
  PROVE  /\ new.buses = BuiltFrom(BusRequests(m, names, n)).buses
         /\ new.distances = cat.distances
         /\ \A s \in StopNames(cat) :
              s \in StopNames(new) /\ new.stops[s].coordinates = cat.stops[s].coordinates
         /\ StopNames(new) = StopNames(cat) \cup StopsIndexed(Reverse(route))
<1> DEFINE before == BusRequests(m, names, n - 1)
           r == BusRequests(m, names, n)[n]
<1>1. n \in Nat /\ n # 0 /\ n - 1 \in Nat /\ n <= Len(m.buses) /\ n - 1 <= Len(m.buses)
      /\ n \in 1 .. n /\ 1 .. n - 1 \subseteq 1 .. n
  BY MessageFields
<1>2. r = [type |-> "Bus", name |-> bus.name, stops |-> route,
           is_roundtrip |-> bus.is_roundtrip]
  <2>1. route = [k \in DOMAIN bus.stop_ids |-> names[bus.stop_ids[k]]]
    OBVIOUS
  <2> QED
    BY <1>1, <2>1 DEF BusRequests
<1>3. before \in Seq(Request)
  BY <1>1, BusRequestsNext
<1>4. BusRequests(m, names, n) \in Seq(Request)
      /\ BusRequests(m, names, n) = Append(before, r)
  BY <1>1, BusRequestsNext, SMTT(30)
<1>5. r \in Request
  <2>1. DOMAIN BusRequests(m, names, n) = 1 .. n
    BY DEF BusRequests
  <2> QED
    BY <1>1, <1>4, <2>1
<1>6. /\ r.type = "Bus" /\ r.name = bus.name /\ r.stops = route
      /\ r.is_roundtrip = bus.is_roundtrip
  BY <1>2
<1> HIDE DEF r, before
<1>7. BuiltFrom(BusRequests(m, names, n)).buses
        = Assign(BuiltFrom(before).buses, bus.name,
                 [is_chain |-> ~ bus.is_roundtrip,
                  route |-> RouteOf(BuiltFrom(before), bus.name) \o Reverse(route)])
  <2>1. BuiltFrom(Append(before, r)).buses
          = Assign(BuiltFrom(before).buses, r.name,
                   [is_chain |-> ~ r.is_roundtrip,
                    route |-> RouteOf(BuiltFrom(before), r.name) \o Reverse(r.stops)])
    BY <1>3, <1>5, <1>6, BuiltBuses
  <2> QED
    BY <1>4, <1>6, <2>1
<1>8. RouteOf(BuiltFrom(before), bus.name) = RouteOf(cat, bus.name)
  BY DEF RouteOf, BusNames, before
<1>9. BusAdded(cat, new, bus.name, Reverse(route), ~ bus.is_roundtrip)
  <2>1. /\ bus.name \in Names /\ route \in Seq(Names) /\ bus.is_roundtrip \in BOOLEAN
    BY <1>5, <1>6, RequestFields
  <2>2. Reverse(route) \in Seq(Names) /\ (~ bus.is_roundtrip) \in BOOLEAN
    BY <2>1, ReverseFacts
  <2> QED
    BY <2>1, <2>2, CataloguesFacts, SetBusFields
<1>10. new.buses = BuiltFrom(BusRequests(m, names, n)).buses
  <2>1. new.buses = Assign(cat.buses, bus.name,
                           [is_chain |-> ~ bus.is_roundtrip,
                            route |-> RouteOf(cat, bus.name) \o Reverse(route)])
    BY <1>9 DEF BusAdded
  <2>2. cat.buses = BuiltFrom(before).buses
    BY DEF before
  <2> QED
    BY <1>7, <1>8, <2>1, <2>2
<1>11. new.distances = cat.distances
       /\ StopNames(new) = StopNames(cat) \cup StopsIndexed(Reverse(route))
       /\ \A s \in StopNames(cat) :
            s \in StopNames(new) /\ new.stops[s].coordinates = cat.stops[s].coordinates
  BY <1>9 DEF BusAdded, StopOf
<1> QED
  BY <1>10, <1>11

(* Nothing loaded yet.                                                     *)
LEMMA NothingLoaded ==
  ASSUME NEW m, NEW names
  PROVE  /\ Assigned(StopPairs(m, 0)) = EmptyMap
         /\ Assigned(RoadPairs(m, names, 0)) = EmptyMap
         /\ BuiltFrom(BusRequests(m, names, 0)).buses = EmptyMap
<1>1. 1 .. 0 = {}
  OBVIOUS
<1>2. DOMAIN StopPairs(m, 0) = {} /\ DOMAIN RoadPairs(m, names, 0) = {}
  BY <1>1 DEF StopPairs, RoadPairs
<1>3. BusRequests(m, names, 0) = <<>>
  BY <1>1 DEF BusRequests
<1>4. BuiltFrom(<<>>) = EmptyCatalogue
  <2>1. <<>> \in Seq(Request) /\ [type |-> "Null"] \in Request
    BY DEF Request
  <2> QED
    BY <2>1, BuiltFromUnfold
<1> QED
  BY <1>2, <1>3, <1>4, AssignedNothing, EmptyCatalogueFacts

-----------------------------------------------------------------------------
(* Writing.                                                                *)

(* The first places of a sequence.                                         *)
LEMMA FirstOnes ==
  ASSUME NEW S, NEW s \in Seq(S)
  PROVE  /\ SubSeq(s, 1, 0) = <<>> /\ SubSeq(s, 1, Len(s)) = s
         /\ \A n \in 1 .. Len(s) :
              /\ SubSeq(s, 1, n) \in Seq(S) /\ SubSeq(s, 1, n - 1) \in Seq(S)
              /\ SubSeq(s, 1, n) = Append(SubSeq(s, 1, n - 1), s[n])
<1>1. SubSeq(s, 1, 0) = <<>> /\ SubSeq(s, 1, Len(s)) = s
  OBVIOUS
<1>2. ASSUME NEW n \in 1 .. Len(s)
      PROVE  /\ SubSeq(s, 1, n) \in Seq(S) /\ SubSeq(s, 1, n - 1) \in Seq(S)
             /\ SubSeq(s, 1, n) = Append(SubSeq(s, 1, n - 1), s[n])
  OBVIOUS
<1> QED
  BY <1>1, <1>2

(* A stop request with only its first roads.                               *)
LEMMA CutStop ==
  ASSUME NEW r \in Request, r.type = "Stop", NEW n \in 0 .. Len(r.road_distances),
         NEW c, c = [r EXCEPT !.road_distances = SubSeq(@, 1, n)]
  PROVE  /\ c \in Request /\ c.type = "Stop"
         /\ c.name = r.name /\ c.coordinates = r.coordinates
         /\ c.road_distances = SubSeq(r.road_distances, 1, n)
         /\ n = Len(r.road_distances) => c = r
<1> DEFINE Stop == [type : {"Stop"}, name : Names, coordinates : Coordinates,
                    road_distances : Seq(Names \X Int)]
           roads == SubSeq(r.road_distances, 1, n)
<1>1. r \in Stop
  BY DEF Request
<1>2. r.road_distances \in Seq(Names \X Int) /\ n \in Nat
  BY <1>1
<1>3. roads \in Seq(Names \X Int) /\ (n = Len(r.road_distances) => roads = r.road_distances)
  BY <1>2
<1>4. c = [r EXCEPT !.road_distances = roads]
  OBVIOUS
<1> HIDE DEF roads
<1>5. /\ c \in Stop /\ c.name = r.name /\ c.coordinates = r.coordinates
      /\ c.road_distances = roads /\ (roads = r.road_distances => c = r)
  BY <1>1, <1>3, <1>4
<1>6. c.type = "Stop" /\ c \in Request
  BY <1>5 DEF Request
<1> QED
  BY <1>3, <1>5, <1>6 DEF roads

(* The requests of the document that is read.                              *)
LEMMA MakeBase ==
  ASSUME TypeOK
  PROVE  /\ make_doc \in MakeDocs \cup {NoDoc}
         /\ make_doc.base \in Seq(Request)
         /\ make_doc.render_settings \in Settings \cup {Absent, Bad}
         /\ make_doc.routing_settings \in Settings \cup {Absent, Bad}
<1>1. make_doc \in MakeDocs \cup {NoDoc}
  BY DEF TypeOK
<1>2. make_doc.base \in Seq(Request)
  <2>1. CASE make_doc \in MakeDocs
    BY <2>1, SerializationAssumption
  <2>2. CASE make_doc = NoDoc
    BY <2>2 DEF NoDoc
  <2> QED
    BY <1>1, <2>1, <2>2
<1>3. /\ make_doc.render_settings \in Settings \cup {Absent, Bad}
      /\ make_doc.routing_settings \in Settings \cup {Absent, Bad}
  BY <1>1, SerializationAssumption DEF NoDoc
<1> QED
  BY <1>1, <1>2, <1>3

(* What a message says does not depend on its settings.                    *)
LEMMA SaysSettings ==
  ASSUME NEW m, NEW base, NEW ids, Says(m, base, ids),
         NEW new, new.stops = m.stops, new.distances = m.distances, new.buses = m.buses
  PROVE  Says(new, base, ids)
<1>1. /\ StopPairs(new, Len(new.stops)) = StopPairs(m, Len(m.stops))
      /\ RoadPairs(new, NamesOf(ids), Len(new.distances))
           = RoadPairs(m, NamesOf(ids), Len(m.distances))
      /\ BusRequests(new, NamesOf(ids), Len(new.buses))
           = BusRequests(m, NamesOf(ids), Len(m.buses))
      /\ MentionedIds(new) = MentionedIds(m)
  BY DEF StopPairs, RoadPairs, BusRequests, MentionedIds
<1> QED
  BY <1>1 DEF Says, SaysStops, SaysRoads, SaysBuses

(* Steps among those that build the message disturb only what it tells.    *)
LEMMA BuildKeeps ==
  ASSUME RInv, IInv', Telling', pc \in BuildingPcs, pc' \in BuildingPcs,
         UNCHANGED <<disk_vars, result, doc_vars, is_open, load_vars, outcome>>
  PROVE  RInv'
<1> USE DEF BuildingPcs, LoadingPcs, disk_vars, doc_vars, load_vars
<1>1. outcome = "running" /\ outcome' = "running"
  BY DEF RInv, Running
<1>2. Running' /\ Refused' /\ FreshResult'
  BY <1>1 DEF Running, Refused, FreshResult
<1>3. Untouched'
  BY DEF RInv, Untouched
<1>4. FilesTell'
  BY DEF RInv, FilesTell
<1>5. OwnFile'
  BY DEF RInv, OwnFile
<1>6. Loaded' /\ Answering'
  BY DEF Loaded, Answering
<1> QED
  BY <1>2, <1>3, <1>4, <1>5, <1>6 DEF RInv

(* The file is opened: the message is empty and tells of nothing.          *)
LEMMA OpenFileKeeps ==
  ASSUME RInv, IInv', OpenFile
  PROVE  RInv'
<1> USE DEF BuildingPcs, LoadingPcs, doc_vars, load_vars, id_vars
<1>1. /\ pc = "make" /\ make_doc.file \in Files
      /\ is_open' = writable
      /\ IF writable THEN Truncate(make_doc.file) ELSE UNCHANGED disk_vars
      /\ pc' = IF HasNull(make_doc.base) THEN "settings" ELSE "requests"
      /\ UNCHANGED <<result, doc_vars, i, j, id_vars, proto, bus_ids, load_vars, outcome>>
  BY DEF OpenFile
<1>2. /\ i = 1 /\ proto = EmptyMessage /\ catalogue = EmptyCatalogue
      /\ outcome = "running"
  BY <1>1 DEF RInv, Untouched, Running
<1>3. make_doc.base \in Seq(Request)
  BY MakeBase DEF RInv, IInv
<1>4. Told' = <<>>
  <2>1. SubSeq(make_doc.base, 1, 0) = <<>>
    BY <1>3, FirstOnes
  <2> QED
    BY <1>1, <1>2, <2>1 DEF Told, Effective
<1>5. Says(proto', Told', stop_ids')
  <2>1. /\ DOMAIN stop_ids \subseteq Names
        /\ \A a, b \in DOMAIN stop_ids : stop_ids[a] = stop_ids[b] => a = b
    BY DEF RInv, IInv, TypeOK, IsPartialFunction, Numbering, OneToOne
  <2> QED
    BY <1>1, <1>2, <1>4, <2>1, SaysNothing
<1>6. Telling'
  <2>1. SettingsOf(proto') = NoSettings
    BY <1>1, <1>2 DEF NoSettings
  <2>2. i' <= Len(make_doc.base) + 1
    BY <1>1, <1>2, <1>3
  <2> QED
    BY <1>1, <1>5, <2>1, <2>2 DEF Telling
<1>7. /\ disk \in [Files -> Message \cup {Missing}]
      /\ origin \in [Files -> MakeDocs \cup {NoDoc}]
  BY DEF RInv, IInv, TypeOK
<1>8. FilesTell'
  <2>1. FilesTell
    BY DEF RInv
  <2>2. CASE writable
    BY <1>1, <1>7, <2>1, <2>2 DEF FilesTell, Truncate
  <2>3. CASE ~ writable
    BY <1>1, <2>1, <2>3 DEF FilesTell, disk_vars
  <2> QED
    BY <2>2, <2>3
<1>9. OwnFile'
  <2>1. CASE writable
    BY <1>1, <1>7, <2>1 DEF OwnFile, Truncate
  <2>2. CASE ~ writable
    BY <1>1, <2>2 DEF OwnFile
  <2> QED
    BY <2>1, <2>2
<1>10. Running' /\ Refused' /\ FreshResult'
  BY <1>1, <1>2 DEF Running, Refused, FreshResult
<1>11. Untouched' /\ Loaded' /\ Answering'
  BY <1>1, <1>2 DEF Untouched, Loaded, Answering
<1> QED
  BY <1>6, <1>8, <1>9, <1>10, <1>11 DEF RInv

(* What is told while a request is read.                                   *)
LEMMA Reading ==
  ASSUME RInv, pc \in {"requests", "bus", "distances"}
  PROVE  /\ ~ HasNull(make_doc.base) /\ make_doc.base \in Seq(Request)
         /\ i \in Nat \ {0} /\ j \in Nat \ {0} /\ i <= Len(make_doc.base) + 1
         /\ proto \in Message /\ SettingsOf(proto) = NoSettings
         /\ Says(proto, Told, stop_ids)
         /\ pc # "requests" => i <= Len(make_doc.base)
         /\ pc # "distances" => Told = SubSeq(make_doc.base, 1, i - 1)
         /\ i <= Len(make_doc.base) =>
              /\ request \in Request
              /\ SubSeq(make_doc.base, 1, i - 1) \in Seq(Request)
              /\ SubSeq(make_doc.base, 1, i) = Append(SubSeq(make_doc.base, 1, i - 1), request)
<1>1. /\ ~ HasNull(make_doc.base) /\ i <= Len(make_doc.base) + 1
      /\ SettingsOf(proto) = NoSettings /\ Says(proto, Told, stop_ids)
  BY DEF RInv, Telling, BuildingPcs
<1>2. make_doc.base \in Seq(Request)
  BY MakeBase DEF RInv, IInv
<1>3. i \in Nat \ {0} /\ j \in Nat \ {0} /\ proto \in Message
  BY DEF RInv, IInv, TypeOK
<1>4. pc # "requests" => i \in DOMAIN make_doc.base
  BY DEF RInv, IInv, TypeOK
<1>5. pc # "distances" => Told = SubSeq(make_doc.base, 1, i - 1)
  BY DEF Told
<1>6. ASSUME i <= Len(make_doc.base)
      PROVE  /\ request \in Request
             /\ SubSeq(make_doc.base, 1, i - 1) \in Seq(Request)
             /\ SubSeq(make_doc.base, 1, i) = Append(SubSeq(make_doc.base, 1, i - 1), request)
  <2>1. i \in 1 .. Len(make_doc.base)
    BY <1>2, <1>3, <1>6
  <2>2. make_doc.base[i] \in Request
    BY <1>2, <2>1
  <2>3. /\ SubSeq(make_doc.base, 1, i - 1) \in Seq(Request)
        /\ SubSeq(make_doc.base, 1, i)
             = Append(SubSeq(make_doc.base, 1, i - 1), make_doc.base[i])
    BY <1>2, <2>1, FirstOnes
  <2> QED
    BY <2>2, <2>3 DEF request
<1>7. pc # "requests" => i <= Len(make_doc.base)
  BY <1>2, <1>4
<1> QED
  BY <1>1, <1>2, <1>3, <1>5, <1>6, <1>7

(* Steps that leave the message alone, or end it.                          *)
LEMMA BusRequestKeeps ==
  ASSUME RInv, IInv', BusRequest
  PROVE  RInv'
<1>1. /\ pc = "requests" /\ pc' = "bus" /\ j' = 1 /\ bus_ids' = <<>> /\ i' = i
      /\ i <= Len(make_doc.base)
      /\ UNCHANGED <<disk_vars, result, doc_vars, is_open, load_vars, outcome>>
      /\ UNCHANGED <<id_vars, proto>>
  BY DEF BusRequest, InRequests
<1>2. RInv /\ pc \in {"requests", "bus", "distances"}
  BY <1>1
<1>3. Told' = Told
  BY <1>1 DEF Told, doc_vars
<1>4. /\ request' = request /\ request.type = "Bus" /\ request \in Request
  BY <1>1, <1>2, Reading DEF request, doc_vars, BusRequest, InRequests
<1>5. /\ j' <= Len(request'.stops) + 1
      /\ 1 .. j' - 1 = {} /\ bus_ids' = [k \in 1 .. j' - 1 |-> stop_ids'[request'.stops[k]]]
  <2>1. request.stops \in Seq(Names)
    BY <1>4, RequestFields
  <2>2. 1 .. j' - 1 = {}
    BY <1>1
  <2> QED
    BY <1>1, <1>4, <2>1, <2>2
<1>6. Telling'
  <2>1. Says(proto', Told', stop_ids')
    BY <1>1, <1>2, <1>3, Reading DEF id_vars
  <2> QED
    BY <1>1, <1>2, <1>4, <1>5, <2>1, Reading DEF Telling, BuildingPcs, doc_vars
<1> QED
  BY <1>1, <1>6, BuildKeeps DEF BuildingPcs

(* The roads of a stop are done, so the whole request has been told.       *)
LEMMA StopEndKeeps ==
  ASSUME RInv, IInv', StopEnd
  PROVE  RInv'
<1>1. /\ pc = "distances" /\ pc' = "requests" /\ i' = i + 1
      /\ j > Len(request.road_distances)
      /\ UNCHANGED <<disk_vars, result, doc_vars, is_open, load_vars, outcome>>
      /\ UNCHANGED <<id_vars, proto>>
  BY DEF StopEnd
<1>2. RInv /\ pc \in {"requests", "bus", "distances"}
  BY <1>1
<1>3. request \in Request /\ request.type = "Stop" /\ i <= Len(make_doc.base)
  BY <1>1, <1>2, Reading DEF RInv, IInv, TypeOK
<1>4. j - 1 = Len(request.road_distances) /\ j - 1 \in 0 .. Len(request.road_distances)
  <2>1. request.road_distances \in Seq(Names \X Int)
    BY <1>3, RequestFields
  <2>2. j <= Len(request.road_distances) + 1 /\ j \in Nat
    BY <1>1, <1>2, Reading DEF RInv, Telling
  <2> QED
    BY <1>1, <2>1, <2>2
<1>5. Told' = Told
  <2>1. [request EXCEPT !.road_distances = SubSeq(@, 1, j - 1)] = request
    BY <1>3, <1>4, CutStop
  <2>2. Told = Append(SubSeq(make_doc.base, 1, i - 1), request)
    BY <1>1, <2>1 DEF Told
  <2>3. Told' = SubSeq(make_doc.base, 1, i)
    <3>1. (i + 1) - 1 = i
      BY <1>2, Reading
    <3> QED
      BY <1>1, <3>1 DEF Told, doc_vars
  <2> QED
    BY <1>2, <1>3, <2>2, <2>3, Reading
<1>6. Telling'
  <2>1. Says(proto', Told', stop_ids')
    BY <1>1, <1>2, <1>5, Reading DEF id_vars
  <2>2. i' <= Len(make_doc.base) + 1
    BY <1>1, <1>2, <1>3, Reading
  <2> QED
    BY <1>1, <1>2, <2>1, <2>2, Reading DEF Telling, BuildingPcs, doc_vars
<1> QED
  BY <1>1, <1>6, BuildKeeps DEF BuildingPcs

(* A request of another type leaves the catalogue alone.                   *)
LEMMA OtherRequestKeeps ==
  ASSUME RInv, IInv', OtherRequest
  PROVE  RInv'
<1>1. /\ pc = "requests" /\ pc' = "requests" /\ i' = i + 1
      /\ i <= Len(make_doc.base) /\ request.type = "Other"
      /\ UNCHANGED <<disk_vars, result, doc_vars, is_open, load_vars, outcome>>
      /\ UNCHANGED <<id_vars, proto>>
  BY DEF OtherRequest, InRequests
<1>2. RInv /\ pc \in {"requests", "bus", "distances"}
  BY <1>1
<1> DEFINE before == SubSeq(make_doc.base, 1, i - 1)
<1>3. /\ request \in Request /\ before \in Seq(Request)
      /\ SubSeq(make_doc.base, 1, i) = Append(before, request)
      /\ Says(proto, before, stop_ids)
  BY <1>1, <1>2, Reading
<1>4. Told' = Append(before, request)
  <2>1. (i + 1) - 1 = i
    BY <1>2, Reading
  <2> QED
    BY <1>1, <1>3, <2>1 DEF Told, doc_vars
<1> HIDE DEF before
<1>5. Says(proto', Told', stop_ids')
  BY <1>1, <1>3, <1>4, SaysNoMore DEF id_vars
<1>6. Telling'
  <2>1. i' <= Len(make_doc.base) + 1
    BY <1>1, <1>2, Reading
  <2> QED
    BY <1>1, <1>2, <1>5, <2>1, Reading DEF Telling, BuildingPcs, doc_vars
<1> QED
  BY <1>1, <1>6, BuildKeeps DEF BuildingPcs

(* All requests are told: the message tells the document.                  *)
LEMMA RequestsDoneKeeps ==
  ASSUME RInv, IInv', RequestsDone
  PROVE  RInv'
<1>1. /\ pc = "requests" /\ pc' = "settings" /\ i > Len(make_doc.base)
      /\ UNCHANGED <<disk_vars, result, doc_vars, is_open, load_vars, outcome>>
      /\ UNCHANGED <<id_vars, proto>>
  BY DEF RequestsDone
<1>2. RInv /\ pc \in {"requests", "bus", "distances"}
  BY <1>1
<1>3. Told' = Told
  <2>1. i - 1 = Len(make_doc.base)
    BY <1>1, <1>2, Reading
  <2>2. SubSeq(make_doc.base, 1, Len(make_doc.base)) = make_doc.base
    BY <1>2, Reading, FirstOnes
  <2> QED
    BY <1>1, <1>2, <2>1, <2>2, Reading DEF Told, Effective, doc_vars
<1>4. Telling'
  BY <1>1, <1>2, <1>3, Reading DEF Telling, BuildingPcs, doc_vars, id_vars
<1> QED
  BY <1>1, <1>4, BuildKeeps DEF BuildingPcs

(* The settings of the document become those of the message.               *)
LEMMA SettingsKeeps ==
  ASSUME RInv, IInv', SettingsSerializer
  PROVE  RInv'
<1>1. /\ pc = "settings" /\ pc' = "write" /\ ~ SettingsBad
      /\ proto' = [proto EXCEPT !.render_set = Stored(make_doc.render_settings),
                                !.routing_set = Stored(make_doc.routing_settings)]
      /\ UNCHANGED <<disk_vars, result, doc_vars, is_open, load_vars, outcome>>
      /\ UNCHANGED id_vars
  BY DEF SettingsSerializer
<1>2. /\ Says(proto, Told, stop_ids) /\ SettingsOf(proto) = NoSettings
      /\ proto \in Message
  BY <1>1 DEF RInv, Telling, BuildingPcs, IInv, TypeOK
<1>3. /\ proto'.stops = proto.stops /\ proto'.distances = proto.distances
      /\ proto'.buses = proto.buses /\ SettingsOf(proto') = StoredSettings(make_doc)
  BY <1>1, <1>2 DEF Message, SettingsOf, StoredSettings
<1>4. Told' = Told
  BY <1>1 DEF Told, doc_vars
<1>5. Says(proto', Told', stop_ids')
  BY <1>1, <1>2, <1>3, <1>4, SaysSettings DEF id_vars
<1>6. Telling'
  BY <1>1, <1>3, <1>5 DEF Telling, doc_vars
<1> QED
  BY <1>1, <1>6, BuildKeeps DEF BuildingPcs

(* A name is numbered: everything told stays told.                         *)
LEMMA NumberedStill ==
  ASSUME RInv, pc \in BuildingPcs, NEW base \in Seq(Request), Says(proto, base, stop_ids),
         NEW name \in Names, SetStopByName(name)
  PROVE  /\ Says(proto, base, stop_ids')
         /\ DOMAIN stop_ids' = DOMAIN stop_ids \cup {name}
         /\ \A n \in DOMAIN stop_ids : stop_ids'[n] = stop_ids[n]
         /\ IdOf(name) = stop_ids'[name]
<1>1. /\ IsPartialFunction(stop_ids, Names, Nat) /\ CURRENT_ID \in Nat
      /\ OneToOne(stop_ids, CURRENT_ID) /\ proto \in Message
  BY Building DEF RInv
<1>2. /\ IsPartialFunction(stop_ids', Names, Nat)
      /\ OneToOne(stop_ids', CURRENT_ID')
      /\ DOMAIN stop_ids' = DOMAIN stop_ids \cup {name}
      /\ \A n \in DOMAIN stop_ids : stop_ids'[n] = stop_ids[n]
      /\ IdOf(name) = stop_ids'[name]
  BY <1>1, NameIsNumbered
<1>3. /\ \A a, b \in DOMAIN stop_ids' : stop_ids'[a] = stop_ids'[b] => a = b
      /\ DOMAIN stop_ids' \subseteq Names
  BY <1>2 DEF OneToOne, IsPartialFunction
<1>4. Says(proto, base, stop_ids')
  BY <1>1, <1>2, <1>3, SaysStill
<1> QED
  BY <1>2, <1>4

(* A stop of a bus gets its number, which no other number disturbs.        *)
LEMMA BusStopKeeps ==
  ASSUME RInv, IInv', BusStop
  PROVE  RInv'
<1> DEFINE name == request.stops[j]
           before == SubSeq(make_doc.base, 1, i - 1)
<1>1. /\ pc = "bus" /\ pc' = "bus" /\ i' = i /\ j' = j + 1
      /\ UNCHANGED <<disk_vars, result, doc_vars, is_open, load_vars, outcome>>
      /\ proto' = proto
      /\ j <= Len(request.stops)
      /\ SetStopByName(name)
      /\ bus_ids' = Append(bus_ids, IdOf(name))
  BY DEF BusStop
<1>2. RInv /\ pc \in {"requests", "bus", "distances"}
  BY <1>1
<1>3. /\ request \in Request /\ request.type = "Bus" /\ request' = request
      /\ j \in Nat \ {0}
  BY <1>1, <1>2, Reading DEF RInv, IInv, TypeOK, request, doc_vars
<1>4. request.stops \in Seq(Names) /\ j \in 1 .. Len(request.stops)
  BY <1>1, <1>3, RequestFields
<1>5. name \in Names
  BY <1>4
<1>6. Says(proto, before, stop_ids) /\ before \in Seq(Request)
  BY <1>1, <1>2, Reading
<1> HIDE DEF name, before
<1>7. /\ Says(proto, before, stop_ids')
      /\ DOMAIN stop_ids' = DOMAIN stop_ids \cup {name}
      /\ \A n \in DOMAIN stop_ids : stop_ids'[n] = stop_ids[n]
      /\ IdOf(name) = stop_ids'[name]
  <2>1. pc \in BuildingPcs
    BY <1>1 DEF BuildingPcs
  <2> QED
    BY <1>1, <1>5, <1>6, <2>1, NumberedStill
<1>8. Told' = before
  BY <1>1 DEF Told, doc_vars, before
<1>9. /\ \A k \in 1 .. j - 1 : request.stops[k] \in DOMAIN stop_ids
      /\ bus_ids = [k \in 1 .. j - 1 |-> stop_ids[request.stops[k]]]
  BY <1>1 DEF RInv, Telling
<1>10. /\ \A k \in 1 .. j' - 1 : request.stops[k] \in DOMAIN stop_ids'
       /\ bus_ids' = [k \in 1 .. j' - 1 |-> stop_ids'[request.stops[k]]]
  <2>1. bus_ids \in Seq(Int) /\ Len(bus_ids) = j - 1 /\ j' - 1 = j
    <3>1. bus_ids \in Seq(Int) /\ j \in Nat /\ j' - 1 = j
      BY <1>1, <1>3 DEF RInv, IInv, TypeOK
    <3>2. DOMAIN bus_ids = 1 .. j - 1
      BY <1>9
    <3> QED
      BY <1>3, <3>1, <3>2
  <2>2. bus_ids' = [k \in 1 .. j |-> IF k = j THEN IdOf(name) ELSE bus_ids[k]]
    <3>1. bus_ids' \in Seq(Int)
      BY DEF IInv, TypeOK
    <3>2. Len(bus_ids') = j /\ j \in Nat
      BY <1>1, <1>3, <2>1
    <3>3. \A k \in 1 .. j : bus_ids'[k] = IF k = j THEN IdOf(name) ELSE bus_ids[k]
      BY <1>1, <1>3, <2>1
    <3>4. bus_ids' = [k \in 1 .. j |-> bus_ids'[k]]
      BY <3>1, <3>2
    <3> QED
      BY <3>3, <3>4
  <2>3. \A k \in 1 .. j - 1 : bus_ids[k] = stop_ids'[request.stops[k]]
    BY <1>7, <1>9
  <2>4. request.stops[j] = name
    BY DEF name
  <2>5. \A k \in 1 .. j : k = j \/ k \in 1 .. j - 1
    BY <1>3
  <2> QED
    BY <1>7, <1>9, <2>1, <2>2, <2>3, <2>4, <2>5
<1>11. Telling'
  <2>1. j' <= Len(request.stops) + 1
    BY <1>1, <1>4
  <2> QED
    BY <1>1, <1>2, <1>3, <1>7, <1>8, <1>10, <2>1, Reading
       DEF Telling, BuildingPcs, doc_vars
<1> QED
  BY <1>1, <1>11, BuildKeeps DEF BuildingPcs

(* The bus goes into the message with all its numbers.                     *)
LEMMA BusEndKeeps ==
  ASSUME RInv, IInv', BusEnd
  PROVE  RInv'
<1> DEFINE before == SubSeq(make_doc.base, 1, i - 1)
           bus == [name |-> request.name, stop_ids |-> bus_ids,
                   is_roundtrip |-> request.is_roundtrip]
           r == request
<1>1. /\ pc = "bus" /\ pc' = "requests" /\ i' = i + 1 /\ j > Len(request.stops)
      /\ UNCHANGED <<disk_vars, result, doc_vars, is_open, load_vars, outcome>>
      /\ UNCHANGED id_vars
      /\ proto' = [proto EXCEPT !.buses = Append(@, bus)]
  BY DEF BusEnd
<1>2. RInv /\ pc \in {"requests", "bus", "distances"}
  BY <1>1
<1>3. /\ r \in Request /\ r.type = "Bus"
      /\ before \in Seq(Request) /\ SubSeq(make_doc.base, 1, i) = Append(before, r)
      /\ Says(proto, before, stop_ids)
      /\ proto \in Message /\ SettingsOf(proto) = NoSettings
      /\ i <= Len(make_doc.base)
  BY <1>1, <1>2, Reading DEF RInv, IInv, TypeOK
<1>4. j - 1 = Len(r.stops)
  <2>1. r.stops \in Seq(Names)
    BY <1>3, RequestFields
  <2>2. j <= Len(r.stops) + 1 /\ j \in Nat
    BY <1>1, <1>2, Reading DEF RInv, Telling
  <2> QED
    BY <1>1, <2>1, <2>2
<1>5. /\ \A k \in DOMAIN r.stops : r.stops[k] \in DOMAIN stop_ids
      /\ bus_ids = [k \in 1 .. Len(r.stops) |-> stop_ids[r.stops[k]]]
  <2>1. r.stops \in Seq(Names)
    BY <1>3, RequestFields
  <2>2. /\ \A k \in 1 .. j - 1 : request.stops[k] \in DOMAIN stop_ids
        /\ bus_ids = [k \in 1 .. j - 1 |-> stop_ids[request.stops[k]]]
    BY <1>1 DEF RInv, Telling
  <2>3. DOMAIN r.stops = 1 .. j - 1
    BY <1>4, <2>1
  <2> QED
    BY <1>4, <2>2, <2>3
<1>6. /\ proto' \in Message
      /\ proto'.stops = proto.stops /\ proto'.distances = proto.distances
      /\ proto'.buses = Append(proto.buses, bus) /\ SettingsOf(proto') = SettingsOf(proto)
  <2>1. proto' \in Message
    BY DEF IInv, TypeOK
  <2> HIDE DEF bus
  <2> QED
    BY <1>1, <1>3, <2>1 DEF Message, SettingsOf
<1>7. proto'.buses = Append(proto.buses, [name |-> r.name,
                              stop_ids |-> [k \in 1 .. Len(r.stops) |-> stop_ids[r.stops[k]]],
                              is_roundtrip |-> r.is_roundtrip])
  BY <1>5, <1>6
<1> HIDE DEF before, bus, r
<1>8. Says(proto', Append(before, r), stop_ids)
  BY <1>3, <1>5, <1>6, <1>7, SaysBus
<1>9. Told' = Append(before, r)
  <2>1. (i + 1) - 1 = i
    BY <1>2, Reading
  <2> QED
    BY <1>1, <1>3, <2>1 DEF Told, doc_vars
<1>10. Telling'
  <2>1. i' <= Len(make_doc.base) + 1
    BY <1>1, <1>2, <1>3, Reading
  <2> QED
    BY <1>1, <1>2, <1>3, <1>6, <1>8, <1>9, <2>1, Reading
       DEF Telling, BuildingPcs, doc_vars, id_vars
<1> QED
  BY <1>1, <1>10, BuildKeeps DEF BuildingPcs

(* A stop goes into the message, as yet without its roads.                 *)
LEMMA StopRequestKeeps ==
  ASSUME RInv, IInv', StopRequest
  PROVE  RInv'
<1> DEFINE before == SubSeq(make_doc.base, 1, i - 1)
           r == request
           cut == [request EXCEPT !.road_distances = SubSeq(@, 1, 0)]
           stop == [id |-> IdOf(r.name), name |-> r.name, coordinates |-> r.coordinates]
<1>1. /\ pc = "requests" /\ pc' = "distances" /\ i' = i /\ j' = 1
      /\ i <= Len(make_doc.base) /\ r.type = "Stop"
      /\ UNCHANGED <<disk_vars, result, doc_vars, is_open, load_vars, outcome>>
      /\ SetStopByName(r.name)
      /\ proto' = [proto EXCEPT !.stops = Append(@, stop)]
  BY DEF StopRequest, InRequests
<1>2. RInv /\ pc \in {"requests", "bus", "distances"}
  BY <1>1
<1>3. /\ r \in Request /\ before \in Seq(Request)
      /\ Says(proto, before, stop_ids)
      /\ proto \in Message /\ SettingsOf(proto) = NoSettings
      /\ request' = request
  BY <1>1, <1>2, Reading DEF request, doc_vars
<1>4. r.name \in Names /\ r.road_distances \in Seq(Names \X Int)
      /\ Len(r.road_distances) \in Nat
  BY <1>1, <1>3, RequestFields
<1>5. /\ cut \in Request /\ cut.type = "Stop" /\ cut.name = r.name
      /\ cut.coordinates = r.coordinates /\ cut.road_distances = <<>>
  <2>1. 0 \in 0 .. Len(r.road_distances) /\ SubSeq(r.road_distances, 1, 0) = <<>>
    BY <1>4, FirstOnes
  <2> QED
    BY <1>1, <1>3, <2>1, CutStop
<1> HIDE DEF before, r
<1>6. /\ Says(proto, before, stop_ids')
      /\ DOMAIN stop_ids' = DOMAIN stop_ids \cup {r.name}
      /\ IdOf(r.name) = stop_ids'[r.name]
  <2>1. pc \in BuildingPcs
    BY <1>1 DEF BuildingPcs
  <2> QED
    BY <1>1, <1>3, <1>4, <2>1, NumberedStill
<1>7. /\ proto' \in Message
      /\ proto'.buses = proto.buses /\ proto'.distances = proto.distances
      /\ proto'.stops = Append(proto.stops, stop) /\ SettingsOf(proto') = SettingsOf(proto)
  <2>1. proto' \in Message
    BY DEF IInv, TypeOK
  <2> HIDE DEF stop
  <2> QED
    BY <1>1, <1>3, <2>1 DEF Message, SettingsOf
<1>8. stop = [id |-> stop_ids'[cut.name], name |-> cut.name, coordinates |-> cut.coordinates]
  BY <1>5, <1>6
<1>9. Told' = Append(before, cut)
  BY <1>1, <1>3 DEF Told, doc_vars, before
<1> HIDE DEF cut, stop
<1>10. Says(proto', Append(before, cut), stop_ids')
  <2>1. cut.name \in DOMAIN stop_ids'
    BY <1>5, <1>6
  <2>2. proto'.stops = Append(proto.stops, [id |-> stop_ids'[cut.name], name |-> cut.name,
                                            coordinates |-> cut.coordinates])
    BY <1>7, <1>8
  <2> QED
    BY <1>3, <1>5, <1>6, <1>7, <2>1, <2>2, SaysStop
<1>11. Telling'
  <2>1. j' <= Len(request'.road_distances) + 1
    BY <1>1, <1>3, <1>4 DEF r
  <2> QED
    BY <1>1, <1>2, <1>3, <1>7, <1>9, <1>10, <2>1, Reading
       DEF Telling, BuildingPcs, doc_vars
<1> QED
  BY <1>1, <1>11, BuildKeeps DEF BuildingPcs

(* One road more of the stop at hand.                                      *)
LEMMA StopDistanceKeeps ==
  ASSUME RInv, IInv', StopDistance
  PROVE  RInv'
<1> DEFINE before == SubSeq(make_doc.base, 1, i - 1)
           r == request
           to == r.road_distances[j][1]
           length == r.road_distances[j][2]
           cut == [request EXCEPT !.road_distances = SubSeq(@, 1, j - 1)]
           longer == [request EXCEPT !.road_distances = SubSeq(@, 1, j)]
           road == [from |-> stop_ids[r.name], to |-> IdOf(to), distance |-> length]
<1>1. /\ pc = "distances" /\ pc' = "distances" /\ i' = i /\ j' = j + 1
      /\ j <= Len(r.road_distances)
      /\ UNCHANGED <<disk_vars, result, doc_vars, is_open, load_vars, outcome>>
      /\ SetStopByName(to)
      /\ proto' = [proto EXCEPT !.distances = Append(@, road)]
  BY DEF StopDistance
<1>2. RInv /\ pc \in {"requests", "bus", "distances"}
  BY <1>1
<1>3. /\ r \in Request /\ r.type = "Stop" /\ before \in Seq(Request)
      /\ proto \in Message /\ SettingsOf(proto) = NoSettings
      /\ request' = request /\ r.name \in DOMAIN stop_ids
      /\ j \in Nat \ {0}
  BY <1>1, <1>2, Reading DEF RInv, IInv, TypeOK, request, doc_vars
<1>4. Says(proto, Append(before, cut), stop_ids)
  BY <1>1, <1>2, Reading DEF Told
<1>5. r.road_distances \in Seq(Names \X Int) /\ j \in 1 .. Len(r.road_distances)
      /\ Len(r.road_distances) \in Nat
  BY <1>1, <1>3, RequestFields
<1>6. to \in Names /\ length \in Int /\ r.road_distances[j] = <<to, length>>
  <2>1. r.road_distances[j] \in Names \X Int
    BY <1>5
  <2> QED
    BY <2>1
<1>7. /\ cut \in Request /\ cut.type = "Stop" /\ cut.name = r.name
      /\ cut.coordinates = r.coordinates
      /\ cut.road_distances = SubSeq(r.road_distances, 1, j - 1)
  <2>1. j - 1 \in 0 .. Len(r.road_distances)
    BY <1>5
  <2>2. cut = [r EXCEPT !.road_distances = SubSeq(@, 1, j - 1)]
    OBVIOUS
  <2> HIDE DEF cut, r
  <2> QED
    BY <1>3, <2>1, <2>2, CutStop
<1>8. /\ longer \in Request /\ longer.type = "Stop" /\ longer.name = r.name
      /\ longer.coordinates = r.coordinates
      /\ longer.road_distances = SubSeq(r.road_distances, 1, j)
  <2>1. j \in 0 .. Len(r.road_distances)
    BY <1>5
  <2>2. longer = [r EXCEPT !.road_distances = SubSeq(@, 1, j)]
    OBVIOUS
  <2> HIDE DEF longer, r
  <2> QED
    BY <1>3, <2>1, <2>2, CutStop
<1>9. longer.road_distances = Append(cut.road_distances, <<to, length>>)
  <2>1. SubSeq(r.road_distances, 1, j)
          = Append(SubSeq(r.road_distances, 1, j - 1), r.road_distances[j])
    BY <1>5, FirstOnes
  <2> HIDE DEF to, length, cut, longer
  <2> QED
    BY <1>6, <1>7, <1>8, <2>1
<1> HIDE DEF before, r, to, length, cut
<1>10. Append(before, cut) \in Seq(Request)
  BY <1>3, <1>7
<1>11. /\ Says(proto, Append(before, cut), stop_ids')
       /\ DOMAIN stop_ids' = DOMAIN stop_ids \cup {to}
       /\ \A n \in DOMAIN stop_ids : stop_ids'[n] = stop_ids[n]
       /\ IdOf(to) = stop_ids'[to]
  <2>1. pc \in BuildingPcs
    BY <1>1 DEF BuildingPcs
  <2> QED
    BY <1>1, <1>2, <1>4, <1>6, <1>10, <2>1, NumberedStill
<1>12. /\ proto' \in Message
       /\ proto'.buses = proto.buses /\ proto'.stops = proto.stops
       /\ proto'.distances = Append(proto.distances, road)
       /\ SettingsOf(proto') = SettingsOf(proto)
  <2>1. proto' \in Message
    BY DEF IInv, TypeOK
  <2> HIDE DEF road
  <2> QED
    BY <1>1, <1>3, <2>1 DEF Message, SettingsOf
<1>13. road = [from |-> stop_ids'[cut.name], to |-> stop_ids'[to], distance |-> length]
  BY <1>3, <1>7, <1>11
<1>14. Told' = Append(before, longer)
  <2>1. (j + 1) - 1 = j
    BY <1>3
  <2> QED
    BY <1>1, <1>3, <2>1 DEF Told, doc_vars, before
<1> HIDE DEF longer, road
<1>15. Says(proto', Append(before, longer), stop_ids')
  <2>1. to \in DOMAIN stop_ids'
    BY <1>11
  <2>2. proto'.distances = Append(proto.distances, [from |-> stop_ids'[cut.name],
                                                    to |-> stop_ids'[to],
                                                    distance |-> length])
    BY <1>12, <1>13
  <2>3. longer.name = cut.name /\ longer.coordinates = cut.coordinates
    BY <1>7, <1>8
  <2> QED
    BY <1>3, <1>6, <1>7, <1>8, <1>9, <1>11, <1>12, <2>1, <2>2, <2>3, SaysRoad
<1>16. Telling'
  <2>1. j' <= Len(request'.road_distances) + 1
    BY <1>1, <1>3, <1>5 DEF r
  <2> QED
    BY <1>1, <1>2, <1>3, <1>12, <1>14, <1>15, <2>1, Reading
       DEF Telling, BuildingPcs, doc_vars
<1> QED
  BY <1>1, <1>16, BuildKeeps DEF BuildingPcs

(* The message is written: the file says what the document says.           *)
LEMMA WriteFileKeeps ==
  ASSUME RInv, IInv', WriteFile
  PROVE  RInv'
<1> USE DEF BuildingPcs, LoadingPcs, doc_vars, load_vars
<1>1. /\ pc = "write" /\ pc' = "process"
      /\ IF is_open THEN SerializeToOstream(make_doc.file) ELSE UNCHANGED disk_vars
      /\ UNCHANGED <<result, doc_vars, is_open, proto, load_vars, outcome>>
  BY DEF WriteFile
<1>2. /\ make_doc.file \in Files /\ outcome = "running" /\ catalogue = EmptyCatalogue
      /\ proto \in Message
      /\ disk \in [Files -> Message \cup {Missing}]
      /\ origin \in [Files -> MakeDocs \cup {NoDoc}]
  BY <1>1 DEF RInv, IInv, TypeOK, Running, Untouched
<1>3. /\ proto # Missing /\ SettingsOf(proto) = StoredSettings(make_doc)
      /\ Says(proto, Effective(make_doc), stop_ids)
  BY <1>1, <1>2, MissingAssumption DEF RInv, Telling, Told
<1>4. FilesTell'
  <2>1. FilesTell
    BY DEF RInv
  <2>2. CASE is_open
    <3>1. /\ disk' = [disk EXCEPT ![make_doc.file] = proto]
          /\ origin' = [origin EXCEPT ![make_doc.file] = make_doc]
      BY <1>1, <2>2 DEF SerializeToOstream
    <3> SUFFICES ASSUME NEW f \in Files, origin'[f] # NoDoc
                 PROVE  /\ disk'[f] # Missing
                        /\ SettingsOf(disk'[f]) = StoredSettings(origin'[f])
                        /\ \E ids : Says(disk'[f], Effective(origin'[f]), ids)
      BY DEF FilesTell
    <3>2. CASE f = make_doc.file
      <4>1. disk'[f] = proto /\ origin'[f] = make_doc
        BY <1>2, <3>1, <3>2
      <4> QED
        BY <1>3, <4>1
    <3>3. CASE f # make_doc.file
      <4>1. disk'[f] = disk[f] /\ origin'[f] = origin[f]
        BY <1>2, <3>1, <3>3
      <4> QED
        BY <2>1, <4>1 DEF FilesTell
    <3> QED
      BY <3>2, <3>3
  <2>3. CASE ~ is_open
    BY <1>1, <2>1, <2>3 DEF FilesTell, disk_vars
  <2> QED
    BY <2>2, <2>3
<1>5. OwnFile'
  <2>1. CASE is_open
    BY <1>1, <1>2, <2>1 DEF OwnFile, SerializeToOstream
  <2>2. CASE ~ is_open
    BY <1>1, <2>2 DEF OwnFile
  <2> QED
    BY <2>1, <2>2
<1>6. Running' /\ Refused' /\ FreshResult'
  BY <1>1, <1>2 DEF Running, Refused, FreshResult
<1>7. Untouched' /\ Telling' /\ Loaded' /\ Answering'
  BY <1>1, <1>2 DEF Untouched, Telling, Loaded, Answering
<1> QED
  BY <1>4, <1>5, <1>6, <1>7 DEF RInv

-----------------------------------------------------------------------------
(* The end of a run.                                                       *)

(* NoStaleDatabase is what OwnFile says when the run is over; before that  *)
(* OwnFile says more.                                                      *)
LEMMA OwnFileIsFresh ==
  ASSUME RInv
  PROVE  /\ NoStaleDatabase
         /\ pc # "idle" /\ is_open => \/ origin[make_doc.file] = make_doc
                                      \/ disk[make_doc.file] = EmptyMessage
<1>1. pc \in {"idle", "make", "process", "output"} \cup BuildingPcs \cup LoadingPcs
  BY DEF RInv, IInv, TypeOK
<1>2. OwnFile
  BY DEF RInv
<1> QED
  BY <1>1, <1>2 DEF OwnFile, NoStaleDatabase

(* A run that ends without an answer.                                      *)
LEMMA EndKeeps ==
  ASSUME RInv, IInv', pc' = "idle", outcome' # "done", FilesTell', NoStaleDatabase',
         Refused',
         UNCHANGED <<doc_vars, is_open>>
  PROVE  RInv'
<1> USE DEF BuildingPcs, LoadingPcs, doc_vars
<1>1. Running' /\ Untouched' /\ Telling' /\ Loaded' /\ Answering' /\ FreshResult'
  BY DEF Running, Untouched, Telling, Loaded, Answering, FreshResult
<1>2. OwnFile'
  BY DEF OwnFile
<1> QED
  BY <1>1, <1>2 DEF RInv

(* ... because of an exception before or after loading ...                 *)
LEMMA ThrowKeeps ==
  ASSUME RInv, IInv', MakeThrow \/ MalformedRequest \/ SettingsThrow \/ ProcessThrow
  PROVE  RInv'
<1>1. /\ pc # "idle" /\ pc' = "idle" /\ outcome' \notin {"done", "load_threw"}
      /\ UNCHANGED <<disk_vars, doc_vars, is_open>>
  BY DEF MakeThrow, MalformedRequest, SettingsThrow, ProcessThrow, InRequests, Throw
<1>2. FilesTell' /\ Refused'
  BY <1>1 DEF RInv, FilesTell, Refused, disk_vars
<1>3. NoStaleDatabase'
  BY <1>1, OwnFileIsFresh DEF NoStaleDatabase, disk_vars, doc_vars
<1> QED
  BY <1>1, <1>2, <1>3, EndKeeps

(* ... or because it is killed: in the middle of the write its file is cut *)
(* short, and no document is said to be there.                             *)
LEMMA KillKeeps ==
  ASSUME RInv, IInv', Kill
  PROVE  RInv'
<1>1. /\ pc # "idle" /\ pc' = "idle" /\ outcome' = "killed" /\ origin' = origin
      /\ UNCHANGED <<doc_vars, is_open>>
  BY DEF Kill
<1>2. Refused'
  BY <1>1 DEF Refused
<1>3. CASE pc = "write" /\ is_open
  <2>1. PICK cut \in Cuts(proto) : disk' = [disk EXCEPT ![make_doc.file] = cut]
    BY <1>3 DEF Kill
  <2>2. origin[make_doc.file] = NoDoc
    BY <1>3 DEF RInv, OwnFile, BuildingPcs
  <2>3. disk \in [Files -> Message \cup {Missing}]
    BY DEF RInv, IInv, TypeOK
  <2>4. FilesTell'
    <3> SUFFICES ASSUME NEW f \in Files, origin[f] # NoDoc
                 PROVE  /\ disk'[f] # Missing
                        /\ SettingsOf(disk'[f]) = StoredSettings(origin[f])
                        /\ \E ids : Says(disk'[f], Effective(origin[f]), ids)
      BY <1>1 DEF FilesTell
    <3>1. disk'[f] = disk[f]
      BY <2>1, <2>2, <2>3
    <3> QED
      BY <3>1 DEF RInv, FilesTell
  <2>5. NoStaleDatabase'
    BY <1>1, <2>2 DEF NoStaleDatabase, doc_vars
  <2> QED
    BY <1>1, <1>2, <2>4, <2>5, EndKeeps
<1>4. CASE ~ (pc = "write" /\ is_open)
  <2>1. disk' = disk
    BY <1>4 DEF Kill
  <2>2. FilesTell'
    BY <1>1, <2>1 DEF RInv, FilesTell
  <2>3. NoStaleDatabase'
    BY <1>1, <2>1, OwnFileIsFresh DEF NoStaleDatabase, doc_vars
  <2> QED
    BY <1>1, <1>2, <2>2, <2>3, EndKeeps
<1> QED
  BY <1>3, <1>4

(* Without a document to write, or to read, nothing is touched.            *)
LEMMA SkippedKeeps ==
  ASSUME RInv, IInv', MakeSkipped \/ ProcessSkipped
  PROVE  RInv'
<1> USE DEF BuildingPcs, LoadingPcs, doc_vars, load_vars, disk_vars
<1>1. /\ (pc = "make" /\ pc' = "process") \/ (pc = "process" /\ pc' = "output")
      /\ UNCHANGED <<disk_vars, result, doc_vars, is_open, load_vars, outcome>>
  BY DEF MakeSkipped, ProcessSkipped
<1>2. pc' = "output" => process_doc.file = NoFile
  BY <1>1 DEF ProcessSkipped, MakeSkipped
<1>3. Running' /\ Refused' /\ FreshResult'
  BY <1>1 DEF RInv, Running, Refused, FreshResult
<1>4. Untouched' /\ Telling' /\ Loaded'
  BY <1>1 DEF RInv, Untouched, Telling, Loaded
<1>5. FilesTell'
  BY <1>1 DEF RInv, FilesTell
<1>6. OwnFile'
  BY <1>1 DEF RInv, OwnFile
<1>7. Answering'
  BY <1>1, <1>2, SerializationAssumption DEF Answering
<1> QED
  BY <1>3, <1>4, <1>5, <1>6, <1>7 DEF RInv

-----------------------------------------------------------------------------
(* Loading.                                                                *)

(* How far each loop has come.                                             *)
StopsDone == IF pc = "set_stops" THEN i - 1 ELSE Len(proto.stops)

RoadsDone ==
  CASE pc = "set_stops" -> 0
    [] pc = "set_distances" -> i - 1
    [] OTHER -> Len(proto.distances)

BusesDone ==
  CASE pc \in {"set_stops", "set_distances"} -> 0
    [] pc = "set_buses" -> i - 1
    [] OTHER -> Len(proto.buses)

(* The same of a state in which a database is being loaded.                *)
LEMMA Progress ==
  ASSUME Loaded, pc \in LoadingPcs
  PROVE  /\ proto = Contents(process_doc.file)
         /\ pc = "set_stops" => i <= Len(proto.stops) + 1
         /\ pc = "set_distances" => i <= Len(proto.distances) + 1
         /\ pc = "set_buses" => i <= Len(proto.buses) + 1
         /\ LoadedTo(proto, catalogue, StopsDone, RoadsDone, BusesDone)
BY DEF Loaded, StopsDone, RoadsDone, BusesDone

(* Steps among those that load disturb only what is loaded.                *)
LEMMA LoadKeeps ==
  ASSUME RInv, IInv', pc \in LoadingPcs, pc' \in LoadingPcs,
         UNCHANGED <<disk_vars, result, doc_vars, is_open, proto, outcome>>,
         pc' = "set_stops" => i' <= Len(proto.stops) + 1,
         pc' = "set_distances" => i' <= Len(proto.distances) + 1,
         pc' = "set_buses" => i' <= Len(proto.buses) + 1,
         pc' = "respond" => i' <= 1,
         LoadedTo(proto, catalogue, StopsDone, RoadsDone, BusesDone)'
  PROVE  RInv'
<1> USE DEF BuildingPcs, LoadingPcs, disk_vars, doc_vars
<1>1. outcome = "running" /\ outcome' = "running"
  BY DEF RInv, Running
<1>2. Running' /\ Refused' /\ FreshResult'
  BY <1>1 DEF Running, Refused, FreshResult
<1>3. Untouched' /\ Telling' /\ Answering'
  BY <1>1 DEF Untouched, Telling, Answering
<1>4. FilesTell'
  BY DEF RInv, FilesTell
<1>5. OwnFile'
  BY DEF RInv, OwnFile
<1>6. Loaded'
  <2>1. proto = Contents(process_doc.file) /\ proto' = Contents(process_doc.file)'
    BY DEF RInv, Loaded, Contents
  <2> QED
    BY <2>1 DEF Loaded, StopsDone, RoadsDone, BusesDone
<1> QED
  BY <1>2, <1>3, <1>4, <1>5, <1>6 DEF RInv

(* The database is read.                                                   *)
LEMMA ParseFileKeeps ==
  ASSUME RInv, IInv', ParseFile
  PROVE  RInv'
<1> USE DEF BuildingPcs, LoadingPcs, doc_vars
<1>1. /\ pc = "process" /\ pc' = "set_stops" /\ i' = 1
      /\ process_doc.file \in Files
      /\ proto' = Contents(process_doc.file)
      /\ UNCHANGED <<disk_vars, result, doc_vars, is_open, outcome>>
      /\ UNCHANGED load_vars
  BY DEF ParseFile
<1>2. outcome = "running" /\ catalogue' = EmptyCatalogue /\ proto' \in Message
  BY <1>1 DEF RInv, Running, Untouched, load_vars, IInv, TypeOK
<1>3. Running' /\ Refused' /\ FreshResult'
  BY <1>1, <1>2 DEF Running, Refused, FreshResult
<1>4. Untouched' /\ Telling' /\ Answering'
  BY <1>1, <1>2 DEF Untouched, Telling, Answering
<1>5. FilesTell'
  BY <1>1 DEF RInv, FilesTell, disk_vars
<1>6. OwnFile'
  BY <1>1 DEF RInv, OwnFile, disk_vars
<1>7. LoadedTo(proto, catalogue, 0, 0, 0)'
  <2>1. 1 .. 0 = {}
    OBVIOUS
  <2>2. CoordinatesIn(EmptyCatalogue, StopNames(EmptyCatalogue)) = EmptyMap
    BY EmptyCatalogueFacts DEF CoordinatesIn, EmptyMap
  <2>3. RoadsResolve(proto, 0)' /\ BusesResolve(proto, 0)'
    BY <2>1 DEF RoadsResolve, BusesResolve
  <2>4. /\ EmptyCatalogue.distances = EmptyMap /\ EmptyCatalogue.buses = EmptyMap
    BY EmptyCatalogueFacts
  <2>5. /\ Assigned(StopPairs(proto', 0)) = EmptyMap
        /\ Assigned(RoadPairs(proto', id_stops', 0)) = EmptyMap
        /\ BuiltFrom(BusRequests(proto', id_stops', 0)).buses = EmptyMap
    BY NothingLoaded
  <2> QED
    BY <1>2, <2>2, <2>3, <2>4, <2>5 DEF LoadedTo
<1>8. Loaded'
  <2>1. Len(proto'.stops) \in Nat
    BY <1>2, MessageFields
  <2>2. 1 <= Len(proto'.stops) + 1 /\ i' - 1 = 0
    BY <1>1, <2>1
  <2>3. Contents(process_doc.file)' = proto'
    BY <1>1 DEF Contents, disk_vars
  <2> QED
    BY <1>1, <1>7, <2>2, <2>3 DEF Loaded
<1> QED
  BY <1>3, <1>4, <1>5, <1>6, <1>8 DEF RInv

(* Another stop is set.                                                    *)
LEMMA SetNextStopKeeps ==
  ASSUME RInv, IInv', SetNextStop
  PROVE  RInv'
<1> DEFINE stop == proto.stops[i]
<1>1. /\ pc = "set_stops" /\ pc' = "set_stops" /\ i' = i + 1
      /\ i <= Len(proto.stops)
      /\ catalogue' = SetStop(catalogue, stop.name, stop.coordinates)
      /\ UNCHANGED <<disk_vars, result, doc_vars, is_open, proto, outcome>>
  BY DEF SetNextStop
<1>2. pc \in LoadingPcs /\ pc' \in LoadingPcs /\ Loaded /\ IInv
  BY <1>1 DEF LoadingPcs, RInv
<1>3. /\ i \in Nat \ {0} /\ proto \in Message /\ catalogue \in Catalogues
      /\ CatalogueType(catalogue)
  BY <1>2, Loading, CataloguesFacts
<1>4. /\ i \in DOMAIN proto.stops
      /\ stop.name \in Names /\ stop.coordinates \in Coordinates
  <2> DEFINE S == [id : Int, name : Names, coordinates : Coordinates]
  <2>1. proto.stops \in Seq(S)
    BY <1>3, MessageFields
  <2> HIDE DEF S
  <2>2. i \in DOMAIN proto.stops /\ proto.stops[i] \in S
    BY <1>1, <1>3, <2>1
  <2> QED
    BY <2>2 DEF S
<1>5. LoadedTo(proto, catalogue, i - 1, 0, 0)
  BY <1>1, <1>2, Progress DEF StopsDone, RoadsDone, BusesDone
<1> HIDE DEF stop
<1>6. CoordinatesIn(catalogue', StopNames(catalogue')) = Assigned(StopPairs(proto, i))
  <2>1. StopNames(catalogue') = StopNames(catalogue) \cup {stop.name}
    BY <1>1, <1>3, <1>4, SetStopFields
  <2>2. CoordinatesIn(catalogue', StopNames(catalogue) \cup {stop.name})
          = Assign(CoordinatesIn(catalogue, StopNames(catalogue)), stop.name,
                   stop.coordinates)
    BY <1>1, <1>3, <1>4, SetStopCoordinates
  <2>3. Assigned(StopPairs(proto, (i - 1) + 1))
          = Assign(Assigned(StopPairs(proto, i - 1)), proto.stops[(i - 1) + 1].name,
                   proto.stops[(i - 1) + 1].coordinates)
    <3>1. i - 1 \in Nat
      BY <1>3
    <3> QED
      BY <3>1, StopPairsNext
  <2>4. (i - 1) + 1 = i
    BY <1>3
  <2> QED
    BY <1>5, <2>1, <2>2, <2>3, <2>4 DEF LoadedTo, stop
<1>7. catalogue'.buses = catalogue.buses /\ catalogue'.distances = catalogue.distances
  BY <1>1, <1>3, <1>4, SetStopFields
<1>8. LoadedTo(proto, catalogue, i - 1, 0, 0)'
  <2>1. 1 .. 0 = {}
    OBVIOUS
  <2>2. RoadsResolve(proto, 0)' /\ BusesResolve(proto, 0)'
    BY <2>1 DEF RoadsResolve, BusesResolve
  <2>3. /\ catalogue.distances = EmptyMap /\ catalogue.buses = EmptyMap
    BY <1>5, NothingLoaded DEF LoadedTo
  <2>4. /\ Assigned(RoadPairs(proto', id_stops', 0)) = EmptyMap
        /\ BuiltFrom(BusRequests(proto', id_stops', 0)).buses = EmptyMap
    BY NothingLoaded
  <2>5. CoordinatesIn(catalogue', StopNames(catalogue')) = Assigned(StopPairs(proto', i' - 1))
    <3>1. (i + 1) - 1 = i
      BY <1>3
    <3> QED
      BY <1>1, <1>6, <3>1
  <2> QED
    BY <1>7, <2>2, <2>3, <2>4, <2>5 DEF LoadedTo
<1>9. i' <= Len(proto.stops) + 1
  BY <1>1, <1>3, MessageFields
<1> QED
  BY <1>1, <1>2, <1>8, <1>9, LoadKeeps DEF StopsDone, RoadsDone, BusesDone

(* From loop to loop.                                                      *)
LEMMA NextLoopKeeps ==
  ASSUME RInv, IInv', StopsSet \/ DistancesSet \/ BusesSet
  PROVE  RInv'
<1>1. /\ \/ pc = "set_stops" /\ pc' = "set_distances" /\ i > Len(proto.stops)
         \/ pc = "set_distances" /\ pc' = "set_buses" /\ i > Len(proto.distances)
         \/ pc = "set_buses" /\ pc' = "respond" /\ i > Len(proto.buses)
      /\ i' = 1
      /\ UNCHANGED <<disk_vars, result, doc_vars, is_open, proto, outcome>>
      /\ catalogue' = catalogue /\ id_stops' = id_stops
  BY DEF StopsSet, DistancesSet, BusesSet, NextLoop, load_vars
<1>2. pc \in LoadingPcs /\ pc' \in LoadingPcs /\ Loaded /\ IInv
  BY <1>1 DEF LoadingPcs, RInv
<1>3. i \in Nat \ {0} /\ proto \in Message
  BY <1>2, Loading
<1>4. /\ Len(proto.stops) \in Nat /\ Len(proto.distances) \in Nat /\ Len(proto.buses) \in Nat
  BY <1>3, MessageFields
<1>5. /\ pc = "set_stops" => i <= Len(proto.stops) + 1
      /\ pc = "set_distances" => i <= Len(proto.distances) + 1
      /\ pc = "set_buses" => i <= Len(proto.buses) + 1
      /\ LoadedTo(proto, catalogue, StopsDone, RoadsDone, BusesDone)
  BY <1>2, Progress
<1>6. StopsDone' = StopsDone /\ RoadsDone' = RoadsDone /\ BusesDone' = BusesDone
  <2>1. CASE pc = "set_stops"
    <3>1. i - 1 = Len(proto.stops)
      BY <1>1, <1>3, <1>4, <1>5, <2>1
    <3> QED
      BY <1>1, <2>1, <3>1 DEF StopsDone, RoadsDone, BusesDone
  <2>2. CASE pc = "set_distances"
    <3>1. i - 1 = Len(proto.distances)
      BY <1>1, <1>3, <1>4, <1>5, <2>2
    <3> QED
      BY <1>1, <2>2, <3>1 DEF StopsDone, RoadsDone, BusesDone
  <2>3. CASE pc = "set_buses"
    <3>1. i - 1 = Len(proto.buses)
      BY <1>1, <1>3, <1>4, <1>5, <2>3
    <3> QED
      BY <1>1, <2>3, <3>1 DEF StopsDone, RoadsDone, BusesDone
  <2> QED
    BY <1>1, <2>1, <2>2, <2>3
<1>7. LoadedTo(proto, catalogue, StopsDone, RoadsDone, BusesDone)'
  BY <1>1, <1>5, <1>6 DEF LoadedTo, RoadsResolve, BusesResolve
<1>8. /\ i' <= 1 /\ i' <= Len(proto.stops) + 1 /\ i' <= Len(proto.distances) + 1
      /\ i' <= Len(proto.buses) + 1
  BY <1>1, <1>4
<1> QED
  BY <1>1, <1>2, <1>7, <1>8, LoadKeeps

(* After the stops, an id leads to a name exactly if a stop has it; from a *)
(* complete database it leads to the name of that stop.                    *)
LEMMA LoadedNames ==
  ASSUME IInv, pc \in LoadingPcs, pc # "set_stops"
  PROVE  /\ DOMAIN id_stops = StopIds(proto)
         /\ origin[process_doc.file] # NoDoc =>
              \A n \in DOMAIN proto.stops : id_stops[proto.stops[n].id] = proto.stops[n].name
BY Loading DEF LoadedWhole, StopsLoaded, WholeStops, StopIds

(* A complete database is refused only if its document mentions a stop it  *)
(* does not declare.                                                       *)
LEMMA RefusedKeeps ==
  ASSUME RInv, IInv', pc \in LoadingPcs, pc # "set_stops",
         pc' = "idle", outcome' = "load_threw",
         UNCHANGED <<disk_vars, doc_vars, is_open>>,
         NEW id \in MentionedIds(proto) \cup {proto.distances[n].from : n \in DOMAIN proto.distances},
         id \notin DOMAIN id_stops
  PROVE  RInv'
<1> DEFINE doc == origin[process_doc.file]
<1>1. FilesTell'
  BY DEF RInv, FilesTell, disk_vars
<1>2. NoStaleDatabase'
  <2>1. pc # "idle"
    BY DEF LoadingPcs
  <2> QED
    BY <2>1, OwnFileIsFresh DEF NoStaleDatabase, disk_vars, doc_vars
<1>3. ASSUME doc # NoDoc PROVE ~ AllDeclared(doc.base)
  <2>1. process_doc.file \in Files /\ proto \in Message
    BY Loading DEF RInv
  <2>2. /\ disk[process_doc.file] # Missing
        /\ \E ids : Says(disk[process_doc.file], Effective(doc), ids)
    BY <1>3, <2>1 DEF RInv, FilesTell
  <2>3. PICK ids : Says(proto, Effective(doc), ids)
    <3>1. proto = Contents(process_doc.file)
      BY Progress DEF RInv
    <3> QED
      BY <2>2, <3>1 DEF Contents
  <2>4. Effective(doc) \in Seq(Request)
    <3>1. doc \in MakeDocs \cup {NoDoc}
      BY <2>1 DEF RInv, IInv, TypeOK
    <3> HIDE DEF doc
    <3>2. doc \in MakeDocs
      BY <1>3, <3>1
    <3>3. doc.base \in Seq(Request)
      BY <3>2, SerializationAssumption
    <3> QED
      BY <3>3 DEF Effective
  <2> HIDE DEF doc
  <2>5. DOMAIN id_stops = StopIds(proto)
    BY LoadedNames DEF RInv
  <2>6. {proto.distances[n].from : n \in DOMAIN proto.distances} \subseteq StopIds(proto)
    <3>1. \A n \in DOMAIN proto.distances :
            proto.distances[n].from \in {ids[s] : s \in DeclaredStops(Effective(doc))}
      BY <2>3 DEF Says, SaysRoads
    <3>2. StopIds(proto) = {ids[s] : s \in DeclaredStops(Effective(doc))}
      BY <2>1, <2>3, <2>4, DeclaredIds
    <3> QED
      BY <3>1, <3>2
  <2>7. ~ (MentionedStops(Effective(doc)) \subseteq DeclaredStops(Effective(doc)))
    <3>1. id \in MentionedIds(proto) /\ id \notin StopIds(proto)
      BY <2>5, <2>6
    <3> QED
      BY <2>1, <2>3, <2>4, <3>1, UnresolvedId
  <2>8. CASE HasNull(doc.base)
    <3>1. MentionedStops(<<>>) = {}
      BY DEF MentionedStops
    <3> QED
      BY <2>7, <2>8, <3>1 DEF Effective
  <2>9. CASE ~ HasNull(doc.base)
    BY <2>7, <2>9 DEF Effective, AllDeclared
  <2> QED
    BY <2>8, <2>9
<1>4. Refused'
  BY <1>3 DEF Refused, disk_vars, doc_vars
<1> QED
  BY <1>1, <1>2, <1>4, EndKeeps

(* Another road is set, or its ends have no stop.                          *)
LEMMA SetNextDistanceKeeps ==
  ASSUME RInv, IInv', SetNextDistance
  PROVE  RInv'
<1> DEFINE d == proto.distances[i]
<1>1. /\ pc = "set_distances" /\ i <= Len(proto.distances)
      /\ proto' = proto /\ id_stops' = id_stops
      /\ UNCHANGED <<disk_vars, result, doc_vars, is_open>>
  BY DEF SetNextDistance
<1>2. pc \in LoadingPcs /\ Loaded /\ IInv /\ pc # "set_stops"
  BY <1>1 DEF LoadingPcs, RInv
<1>3. /\ i \in Nat \ {0} /\ proto \in Message /\ CatalogueType(catalogue)
      /\ \A id \in DOMAIN id_stops : id_stops[id] \in StopNames(catalogue)
  BY <1>2, Loading
<1>4. i \in DOMAIN proto.distances /\ d.distance \in Int
  <2> DEFINE S == [from : Int, to : Int, distance : Int]
  <2>1. proto.distances \in Seq(S)
    BY <1>3, MessageFields
  <2> HIDE DEF S
  <2>2. i \in DOMAIN proto.distances /\ proto.distances[i] \in S
    BY <1>1, <1>3, <2>1
  <2> QED
    BY <2>2 DEF S
<1>5. CASE {d.from, d.to} \subseteq DOMAIN id_stops
  <2>1. /\ catalogue' = SetStopDistance(catalogue, id_stops[d.from], id_stops[d.to],
                                        d.distance)
        /\ i' = i + 1 /\ pc' = pc /\ outcome' = outcome
    BY <1>5 DEF SetNextDistance
  <2>2. LoadedTo(proto, catalogue, Len(proto.stops), i - 1, 0)
    BY <1>1, <1>2, Progress DEF StopsDone, RoadsDone, BusesDone
  <2>3. (i - 1) + 1 = i /\ i - 1 \in Nat /\ (i + 1) - 1 = i
    BY <1>3
  <2>4. Assigned(RoadPairs(proto, id_stops, i))
          = Assign(Assigned(RoadPairs(proto, id_stops, i - 1)),
                   <<id_stops[d.from], id_stops[d.to]>>, d.distance)
    <3>1. Assigned(RoadPairs(proto, id_stops, (i - 1) + 1))
            = Assign(Assigned(RoadPairs(proto, id_stops, i - 1)),
                     <<id_stops[proto.distances[(i - 1) + 1].from],
                       id_stops[proto.distances[(i - 1) + 1].to]>>,
                     proto.distances[(i - 1) + 1].distance)
      BY <2>3, RoadPairsNext
    <3> QED
      BY <2>3, <3>1
  <2> HIDE DEF d
  <2>5. /\ id_stops[d.from] \in StopNames(catalogue)
        /\ id_stops[d.to] \in StopNames(catalogue)
    BY <1>3, <1>5
  <2>6. /\ catalogue'.stops = catalogue.stops /\ catalogue'.buses = catalogue.buses
        /\ catalogue'.distances = Assign(catalogue.distances,
                                         <<id_stops[d.from], id_stops[d.to]>>, d.distance)
    BY <1>3, <1>4, <2>1, <2>5, KnownStopsDistance
  <2>7. RoadsResolve(proto, i)
    <3>1. \A n \in 1 .. i : n = i \/ n \in 1 .. i - 1
      BY <1>3
    <3> QED
      BY <1>5, <2>2, <3>1 DEF LoadedTo, RoadsResolve, d
  <2>8. LoadedTo(proto, catalogue', Len(proto.stops), i, 0)
    BY <2>2, <2>4, <2>6, <2>7 DEF LoadedTo, CoordinatesIn, StopNames
  <2>9. LoadedTo(proto, catalogue, Len(proto.stops), i - 1, 0)'
    <3>1. i' - 1 = i
      BY <2>1, <2>3
    <3> QED
      BY <1>1, <2>8, <3>1 DEF LoadedTo, RoadsResolve, BusesResolve
  <2>10. i' <= Len(proto.distances) + 1
    BY <1>1, <1>3, <2>1, MessageFields
  <2> QED
    BY <1>1, <1>2, <2>1, <2>9, <2>10, LoadKeeps DEF StopsDone, RoadsDone, BusesDone
<1>6. CASE ~ ({d.from, d.to} \subseteq DOMAIN id_stops)
  <2>1. pc' = "idle" /\ outcome' = "load_threw"
    BY <1>6 DEF SetNextDistance, Throw
  <2>2. PICK id \in {d.from, d.to} : id \notin DOMAIN id_stops
    BY <1>6
  <2>3. id \in MentionedIds(proto) \cup {proto.distances[n].from : n \in DOMAIN proto.distances}
    BY <1>4, <2>2 DEF MentionedIds
  <2> QED
    BY <1>1, <1>2, <2>1, <2>2, <2>3, RefusedKeeps
<1> QED
  BY <1>5, <1>6

(* Another bus is set, or one of its ids has no stop.                      *)
LEMMA SetNextBusKeeps ==
  ASSUME RInv, IInv', SetNextBus
  PROVE  RInv'
<1> DEFINE bus == proto.buses[i]
           route == [k \in DOMAIN bus.stop_ids |-> id_stops[bus.stop_ids[k]]]
<1>1. /\ pc = "set_buses" /\ i <= Len(proto.buses)
      /\ proto' = proto /\ id_stops' = id_stops
      /\ UNCHANGED <<disk_vars, result, doc_vars, is_open>>
  BY DEF SetNextBus
<1>2. pc \in LoadingPcs /\ Loaded /\ IInv /\ pc # "set_stops"
  BY <1>1 DEF LoadingPcs, RInv
<1>3. /\ i \in Nat \ {0} /\ proto \in Message /\ catalogue \in Catalogues
      /\ CatalogueType(catalogue)
      /\ \A id \in DOMAIN id_stops : id_stops[id] \in StopNames(catalogue)
      /\ \A id \in DOMAIN id_stops : id_stops[id] \in Names
  BY <1>2, Loading, CataloguesFacts DEF IsPartialFunction
<1>4. i \in DOMAIN proto.buses /\ i \in 1 .. Len(proto.buses)
      /\ DOMAIN bus.stop_ids = 1 .. Len(bus.stop_ids)
  <2> DEFINE S == [name : Names, stop_ids : Seq(Int), is_roundtrip : BOOLEAN]
  <2>1. proto.buses \in Seq(S)
    BY <1>3, MessageFields
  <2> HIDE DEF S
  <2>2. i \in DOMAIN proto.buses /\ proto.buses[i] \in S /\ i \in 1 .. Len(proto.buses)
    BY <1>1, <1>3, <2>1
  <2> QED
    BY <2>2 DEF S
<1>5. CASE \A k \in DOMAIN bus.stop_ids : bus.stop_ids[k] \in DOMAIN id_stops
  <2>1. /\ catalogue' = SetBus(catalogue, bus.name, Reverse(route), ~ bus.is_roundtrip)
        /\ i' = i + 1 /\ pc' = pc /\ outcome' = outcome
    BY <1>5 DEF SetNextBus, RouteFromIds
  <2>2. LoadedTo(proto, catalogue, Len(proto.stops), Len(proto.distances), i - 1)
    BY <1>1, <1>2, Progress DEF StopsDone, RoadsDone, BusesDone
  <2>3. BusesResolve(proto, i)
    <3>1. \A n \in 1 .. i : n = i \/ n \in 1 .. i - 1
      BY <1>3
    <3> QED
      BY <1>5, <2>2, <3>1 DEF LoadedTo, BusesResolve
  <2>4. \A b \in 1 .. i : \A k \in DOMAIN proto.buses[b].stop_ids :
          id_stops[proto.buses[b].stop_ids[k]] \in Names
    BY <1>3, <2>3 DEF BusesResolve
  <2>5. \A k \in DOMAIN route : route[k] \in StopNames(catalogue)
    BY <1>3, <1>5
  <2>6. bus = proto.buses[i]
        /\ DOMAIN route = DOMAIN bus.stop_ids
        /\ \A k \in DOMAIN route : route[k] = id_stops[bus.stop_ids[k]]
    OBVIOUS
  <2>7. route \in Seq(Names)
    <3>1. bus.stop_ids \in Seq(Int)
      <4> DEFINE S == [name : Names, stop_ids : Seq(Int), is_roundtrip : BOOLEAN]
      <4>1. proto.buses \in Seq(S)
        BY <1>3, MessageFields
      <4> HIDE DEF S
      <4>2. proto.buses[i] \in S
        BY <1>4, <4>1
      <4> QED
        BY <4>2 DEF S
    <3>2. \A k \in DOMAIN bus.stop_ids : id_stops[bus.stop_ids[k]] \in Names
      BY <1>3, <1>5
    <3> QED
      BY <3>1, <3>2
  <2> HIDE DEF bus, route
  <2>8. /\ catalogue'.buses = BuiltFrom(BusRequests(proto, id_stops, i)).buses
        /\ catalogue'.distances = catalogue.distances
        /\ \A s \in StopNames(catalogue) :
             s \in StopNames(catalogue')
             /\ catalogue'.stops[s].coordinates = catalogue.stops[s].coordinates
        /\ StopNames(catalogue') = StopNames(catalogue) \cup StopsIndexed(Reverse(route))
    <3>1. catalogue.buses = BuiltFrom(BusRequests(proto, id_stops, i - 1)).buses
      BY <2>2 DEF LoadedTo
    <3>2. proto \in Message /\ i \in 1 .. Len(proto.buses)
      BY <1>3, <1>4
    <3>3. \A b \in 1 .. i : \A k \in DOMAIN proto.buses[b].stop_ids :
            id_stops[proto.buses[b].stop_ids[k]] \in Names
      BY <2>4
    <3>4. catalogue \in Catalogues
      BY <1>3
    <3>5. bus = proto.buses[i]
      BY <2>6
    <3>6. route \in Seq(Names) /\ DOMAIN route = DOMAIN bus.stop_ids
      BY <2>6, <2>7
    <3>7. \A k \in DOMAIN route : route[k] = id_stops[bus.stop_ids[k]]
      BY <2>6
    <3>8. catalogue' = SetBus(catalogue, bus.name, Reverse(route), ~ bus.is_roundtrip)
      BY <2>1
    <3>9. catalogue'.buses = BuiltFrom(BusRequests(proto, id_stops, i)).buses
      BY <3>1, <3>2, <3>3, <3>4, <3>5, <3>6, <3>7, <3>8, NextBusSet
    <3>10. BusAdded(catalogue, catalogue', bus.name, Reverse(route), ~ bus.is_roundtrip)
      <4> DEFINE S == [name : Names, stop_ids : Seq(Int), is_roundtrip : BOOLEAN]
      <4>1. proto.buses \in Seq(S)
        BY <3>2, MessageFields
      <4> HIDE DEF S
      <4>2. bus \in S
        BY <1>4, <3>5, <4>1
      <4>3. bus.name \in Names /\ (~ bus.is_roundtrip) \in BOOLEAN
        BY <4>2 DEF S
      <4>4. Reverse(route) \in Seq(Names)
        BY <3>6, ReverseFacts
      <4> QED
        BY <1>3, <3>8, <4>3, <4>4, SetBusFields
    <3>11. \A s \in StopNames(catalogue) : StopOf(catalogue, s) = catalogue.stops[s]
      BY DEF StopOf
    <3> QED
      BY <3>9, <3>10, <3>11 DEF BusAdded
  <2>9. StopNames(catalogue') = StopNames(catalogue)
    <3>1. StopsIndexed(Reverse(route)) = {route[k] : k \in DOMAIN route}
      BY <2>7, ReverseFacts
    <3> QED
      BY <2>5, <2>8, <3>1
  <2>10. CoordinatesIn(catalogue', StopNames(catalogue'))
           = CoordinatesIn(catalogue, StopNames(catalogue))
    BY <2>8, <2>9 DEF CoordinatesIn
  <2>11. LoadedTo(proto, catalogue', Len(proto.stops), Len(proto.distances), i)
    BY <2>2, <2>3, <2>8, <2>10 DEF LoadedTo
  <2>12. LoadedTo(proto, catalogue, Len(proto.stops), Len(proto.distances), i - 1)'
    <3>1. i' - 1 = i
      BY <1>3, <2>1
    <3> QED
      BY <1>1, <2>11, <3>1 DEF LoadedTo, RoadsResolve, BusesResolve
  <2>13. i' <= Len(proto.buses) + 1
    BY <1>1, <1>3, <2>1, MessageFields
  <2> QED
    BY <1>1, <1>2, <2>1, <2>12, <2>13, LoadKeeps DEF StopsDone, RoadsDone, BusesDone
<1>6. CASE ~ \A k \in DOMAIN bus.stop_ids : bus.stop_ids[k] \in DOMAIN id_stops
  <2>1. pc' = "idle" /\ outcome' = "load_threw"
    BY <1>6 DEF SetNextBus, Throw
  <2>2. PICK k \in DOMAIN bus.stop_ids : bus.stop_ids[k] \notin DOMAIN id_stops
    BY <1>6
  <2>3. bus.stop_ids[k] \in MentionedIds(proto)
    <3> DEFINE B(b) == {proto.buses[b].stop_ids[p] : p \in DOMAIN proto.buses[b].stop_ids}
    <3>1. bus.stop_ids[k] \in B(i)
      OBVIOUS
    <3>2. UNION {B(b) : b \in DOMAIN proto.buses} \subseteq MentionedIds(proto)
      BY DEF MentionedIds
    <3> HIDE DEF B
    <3> QED
      BY <1>4, <3>1, <3>2
  <2> QED
    BY <1>1, <1>2, <2>1, <2>2, <2>3, RefusedKeeps
<1> QED
  BY <1>5, <1>6

-----------------------------------------------------------------------------
(* Answering.                                                              *)

(* A database that was written completely is loaded completely when the    *)
(* requests are answered: as what the document builds.                     *)
LEMMA AtRespond ==
  ASSUME RInv, pc = "respond", origin[process_doc.file] # NoDoc
  PROVE  LET doc == origin[process_doc.file]
         IN  /\ catalogue = DBBuilder(doc.base) /\ AllDeclared(doc.base)
             /\ ~ DBBuilderThrows(doc.base)
             /\ SettingsOf(proto) = StoredSettings(doc)
<1> DEFINE doc == origin[process_doc.file]
           base == Effective(doc)
<1>1. pc \in LoadingPcs /\ pc # "set_stops" /\ IInv /\ Loaded
  BY DEF LoadingPcs, RInv
<1>2. /\ process_doc.file \in Files /\ proto \in Message
      /\ catalogue \in Catalogues /\ IndexConsistent(catalogue)
  BY <1>1, Loading, CataloguesFacts
<1>3. /\ disk[process_doc.file] # Missing
      /\ SettingsOf(disk[process_doc.file]) = StoredSettings(doc)
      /\ \E ids : Says(disk[process_doc.file], base, ids)
  BY <1>2 DEF RInv, FilesTell
<1>4. proto = disk[process_doc.file]
  BY <1>1, <1>3, Progress DEF Contents
<1>5. PICK ids : Says(proto, base, ids)
  BY <1>3, <1>4
<1>6. doc.base \in Seq(Request)
  <2>1. doc \in MakeDocs
    BY <1>2 DEF RInv, IInv, TypeOK
  <2> HIDE DEF doc
  <2> QED
    BY <2>1, SerializationAssumption
<1>7. base \in Seq(Request)
  <2> HIDE DEF doc
  <2> QED
    BY <1>6 DEF Effective
<1>8. LoadedTo(proto, catalogue, Len(proto.stops), Len(proto.distances), Len(proto.buses))
  BY <1>1, Progress DEF StopsDone, RoadsDone, BusesDone
<1>9. /\ DOMAIN id_stops = StopIds(proto)
      /\ \A n \in DOMAIN proto.stops : id_stops[proto.stops[n].id] = proto.stops[n].name
  BY <1>1, LoadedNames
<1> HIDE DEF base
<1>10. MentionedStops(base) \subseteq DeclaredStops(base) /\ catalogue = BuiltFrom(base)
  <2>1. /\ DOMAIN proto.distances = 1 .. Len(proto.distances)
        /\ DOMAIN proto.buses = 1 .. Len(proto.buses)
    BY <1>2, MessageFields
  <2>2. CoordinatesIn(catalogue, StopNames(catalogue))
          = Assigned(StopPairs(proto, Len(proto.stops)))
    BY <1>8 DEF LoadedTo
  <2>3. \A n \in DOMAIN proto.distances :
          {proto.distances[n].from, proto.distances[n].to} \subseteq DOMAIN id_stops
    BY <1>8, <2>1 DEF LoadedTo, RoadsResolve
  <2>4. catalogue.distances = Assigned(RoadPairs(proto, id_stops, Len(proto.distances)))
    BY <1>8 DEF LoadedTo
  <2>5. \A n \in DOMAIN proto.buses : \A k \in DOMAIN proto.buses[n].stop_ids :
          proto.buses[n].stop_ids[k] \in DOMAIN id_stops
    BY <1>8, <2>1 DEF LoadedTo, BusesResolve
  <2>6. catalogue.buses = BuiltFrom(BusRequests(proto, id_stops, Len(proto.buses))).buses
    BY <1>8 DEF LoadedTo
  <2>7. MentionedStops(base) \subseteq DeclaredStops(base)
    BY <1>2, <1>5, <1>7, <1>9, <2>2, <2>3, <2>4, <2>5, <2>6, LoadedIsBuilt
  <2>8. catalogue = BuiltFrom(base)
    BY <1>2, <1>5, <1>7, <1>9, <2>2, <2>3, <2>4, <2>5, <2>6, LoadedIsBuilt
  <2> QED
    BY <2>7, <2>8
<1> HIDE DEF doc
<1>11. catalogue = DBBuilder(doc.base) /\ AllDeclared(doc.base)
  <2>1. CASE HasNull(doc.base)
    <3>1. base = <<>> /\ DBBuilder(doc.base) = EmptyCatalogue
      BY <2>1 DEF base, Effective, DBBuilder
    <3>2. BuiltFrom(<<>>) = EmptyCatalogue
      <4>1. <<>> \in Seq(Request) /\ [type |-> "Null"] \in Request
        BY DEF Request
      <4> QED
        BY <4>1, BuiltFromUnfold
    <3> QED
      BY <1>10, <2>1, <3>1, <3>2 DEF AllDeclared
  <2>2. CASE ~ HasNull(doc.base)
    BY <1>10, <2>2 DEF base, Effective, DBBuilder, BuiltFrom, AllDeclared
  <2> QED
    BY <2>1, <2>2
<1>12. ~ DBBuilderThrows(doc.base)
  BY <1>5 DEF base, Effective, DBBuilderThrows, Says, Readable
<1> QED
  BY <1>3, <1>4, <1>11, <1>12 DEF doc

(* The requests are answered, or answering throws.                         *)
LEMMA RespondKeeps ==
  ASSUME RInv, IInv', Respond
  PROVE  RInv'
<1>1. /\ pc = "respond"
      /\ UNCHANGED <<disk_vars, result, doc_vars, is_open, proto, load_vars>>
      /\ (pc' = "output" /\ outcome' = outcome) \/ (pc' = "idle" /\ outcome' = "respond_threw")
  BY DEF Respond, Throw
<1>2. FilesTell'
  BY <1>1 DEF RInv, FilesTell, disk_vars
<1>3. CASE pc' = "output" /\ outcome' = outcome
  <2> USE DEF BuildingPcs, LoadingPcs, doc_vars, load_vars, disk_vars
  <2>1. outcome = "running" /\ process_doc.file \in Files
    BY <1>1 DEF RInv, Running, IInv, TypeOK
  <2>2. Running' /\ Refused' /\ FreshResult'
    BY <1>3, <2>1 DEF Running, Refused, FreshResult
  <2>3. Untouched' /\ Telling' /\ Loaded'
    BY <1>3 DEF Untouched, Telling, Loaded
  <2>4. OwnFile'
    BY <1>1, <1>3 DEF RInv, OwnFile
  <2>5. Answering'
    BY <1>1, <1>3, <2>1, AtRespond DEF Answering
  <2> QED
    BY <1>2, <2>2, <2>3, <2>4, <2>5 DEF RInv
<1>4. CASE pc' = "idle" /\ outcome' = "respond_threw"
  <2>1. Refused'
    BY <1>4 DEF Refused
  <2>2. NoStaleDatabase'
    BY <1>1, OwnFileIsFresh DEF NoStaleDatabase, disk_vars, doc_vars
  <2> QED
    BY <1>1, <1>2, <1>4, <2>1, <2>2, EndKeeps
<1> QED
  BY <1>1, <1>3, <1>4

(* The answers are written: a run that read the file it wrote answered     *)
(* from its own document.                                                  *)
LEMMA WriteResultKeeps ==
  ASSUME RInv, IInv', WriteResult
  PROVE  RInv'
<1> USE DEF BuildingPcs, LoadingPcs, doc_vars, disk_vars
<1>1. /\ pc = "output" /\ pc' = "idle" /\ outcome' = "done"
      /\ result' = IF process_doc.file = NoFile THEN NoDoc
                   ELSE [catalogue |-> catalogue, render_settings |-> proto.render_set,
                         routing_settings |-> proto.routing_set]
      /\ UNCHANGED <<disk_vars, doc_vars, is_open>>
  BY DEF WriteResult
<1>2. FilesTell'
  BY <1>1 DEF RInv, FilesTell
<1>3. OwnFile'
  BY <1>1, OwnFileIsFresh DEF OwnFile, RInv, NoStaleDatabase
<1>4. Running' /\ Untouched' /\ Telling' /\ Loaded' /\ Answering' /\ Refused'
  BY <1>1 DEF Running, Untouched, Telling, Loaded, Answering, Refused
<1>5. FreshResult'
  <2> SUFFICES ASSUME is_open, process_doc.file = make_doc.file
               PROVE  result'.catalogue = DBBuilder(make_doc.base)
    BY <1>1 DEF FreshResult
  <2>1. origin[make_doc.file] = make_doc
    BY <1>1 DEF RInv, OwnFile
  <2>2. make_doc.file \in Files
    BY DEF RInv, IInv, TypeOK
  <2>3. make_doc # NoDoc /\ process_doc.file # NoFile
    BY <2>2, SerializationAssumption DEF NoDoc
  <2>4. catalogue = DBBuilder(make_doc.base)
    BY <1>1, <2>1, <2>2, <2>3 DEF RInv, Answering
  <2> QED
    BY <1>1, <2>3, <2>4
<1> QED
  BY <1>2, <1>3, <1>4, <1>5 DEF RInv

-----------------------------------------------------------------------------
(* The round trip.                                                         *)

(* A run begins with fresh objects and has opened nothing.                 *)
LEMMA StartKeeps ==
  ASSUME RInv, IInv', NEW make \in MakeDocs, NEW process \in ProcessDocs,
         Start(make, process)
  PROVE  RInv'
<1> USE DEF BuildingPcs, LoadingPcs, disk_vars
<1>1. /\ pc' = "make" /\ outcome' = "running" /\ is_open' = FALSE
      /\ i' = 1 /\ proto' = EmptyMessage /\ catalogue' = EmptyCatalogue
      /\ UNCHANGED <<disk_vars, result>>
  BY DEF Start
<1>2. FilesTell'
  BY <1>1 DEF RInv, FilesTell
<1>3. /\ Running' /\ Untouched' /\ Telling' /\ OwnFile' /\ Loaded' /\ Answering'
      /\ Refused' /\ FreshResult'
  BY <1>1 DEF Running, Untouched, Telling, OwnFile, Loaded, Answering, Refused, FreshResult
<1> QED
  BY <1>2, <1>3 DEF RInv

(* Between runs nothing happens that these are about.                      *)
LEMMA IdleKeeps ==
  ASSUME RInv, IInv', ChangeAccess
  PROVE  RInv'
<1> USE DEF BuildingPcs, LoadingPcs, disk_vars, doc_vars
<1>1. /\ pc = "idle" /\ pc' = "idle"
      /\ UNCHANGED <<disk_vars, result, doc_vars, is_open, outcome>>
  BY DEF ChangeAccess
<1>2. FilesTell'
  BY <1>1 DEF RInv, FilesTell
<1>3. Running' /\ Untouched' /\ Telling' /\ Loaded' /\ Answering'
  BY <1>1 DEF Running, Untouched, Telling, Loaded, Answering
<1>4. OwnFile'
  BY <1>1 DEF RInv, OwnFile, NoStaleDatabase
<1>5. Refused' /\ FreshResult'
  BY <1>1 DEF RInv, Refused, FreshResult
<1> QED
  BY <1>2, <1>3, <1>4, <1>5 DEF RInv

(* Nothing happens.                                                        *)
LEMMA StutterKeeps ==
  ASSUME RInv, IInv', UNCHANGED vars
  PROVE  RInv'
<1> USE DEF RInv, vars, disk_vars, doc_vars, id_vars, load_vars
<1>1. Running' /\ Untouched'
  BY DEF Running, Untouched
<1>2. Told' = Told
  BY DEF Told, request
<1>3. Telling'
  BY <1>2 DEF Telling, request
<1>4. FilesTell'
  BY DEF FilesTell
<1>5. OwnFile'
  BY DEF OwnFile, NoStaleDatabase
<1>6. Loaded'
  BY DEF Loaded, Contents, LoadedTo, RoadsResolve, BusesResolve
<1>7. Answering'
  BY DEF Answering
<1>8. Refused' /\ FreshResult'
  BY DEF Refused, FreshResult
<1> QED
  BY <1>1, <1>3, <1>4, <1>5, <1>6, <1>7, <1>8

(* At the start nothing was written, read or answered.                     *)
LEMMA InitRInv == Init => RInv
<1> SUFFICES ASSUME Init PROVE RInv
  OBVIOUS
<1> USE DEF Init, BuildingPcs, LoadingPcs
<1>1. IInv
  BY InitIInv
<1>2. Running /\ Untouched /\ Telling /\ Loaded
  BY DEF Running, Untouched, Telling, Loaded
<1>3. FilesTell /\ OwnFile
  BY DEF FilesTell, OwnFile
<1>4. Answering /\ Refused /\ FreshResult
  BY DEF Answering, Refused, FreshResult
<1> QED
  BY <1>1, <1>2, <1>3, <1>4 DEF RInv

(* Every step keeps RInv.                                                  *)
LEMMA NextRInv == RInv /\ [Next]_vars => RInv'
<1> SUFFICES ASSUME RInv, [Next]_vars PROVE RInv'
  OBVIOUS
<1>1. IInv'
  BY NextIInv DEF RInv
<1>2. CASE \E make \in MakeDocs, process \in ProcessDocs : Start(make, process)
  BY <1>1, <1>2, StartKeeps
<1>3. CASE Make
  BY <1>1, <1>3, ThrowKeeps, SkippedKeeps, OpenFileKeeps, BusRequestKeeps, BusStopKeeps,
     BusEndKeeps, StopRequestKeeps, StopDistanceKeeps, StopEndKeeps, OtherRequestKeeps,
     RequestsDoneKeeps, SettingsKeeps, WriteFileKeeps DEF Make
<1>4. CASE Process
  BY <1>1, <1>4, ThrowKeeps, SkippedKeeps, ParseFileKeeps, SetNextStopKeeps, NextLoopKeeps,
     SetNextDistanceKeeps, SetNextBusKeeps, RespondKeeps, WriteResultKeeps DEF Process
<1>5. CASE Kill
  BY <1>1, <1>5, KillKeeps
<1>6. CASE ChangeAccess
  BY <1>1, <1>6, IdleKeeps
<1>7. CASE UNCHANGED vars
  BY <1>1, <1>7, StutterKeeps
<1> QED
  BY <1>2, <1>3, <1>4, <1>5, <1>6, <1>7 DEF Next

(* The invariant of the round trip holds in every reachable state.         *)
LEMMA RInvHolds == Spec => []RInv
BY InitRInv, NextRInv, PTL DEF Spec

(* The round trip: whatever documents are written and read, in however     *)
(* many runs, however they end, a database that was written completely is  *)
(* loaded as the very catalogue DBBuilder makes of its document, with the  *)
(* settings the document gave.                                             *)
THEOREM RoundTripHolds == Spec => []RoundTrip
<1>1. RInv => RoundTrip
  BY AtRespond DEF RoundTrip, SettingsOf, StoredSettings
<1> QED
  BY <1>1, RInvHolds, PTL

(* Loading a complete database succeeds only if its document declares each *)
(* stop it mentions, and throws only if it does not.                       *)
THEOREM LoadOutcomeHolds == Spec => []LoadOutcome
<1>1. RInv => LoadOutcome
  <2> SUFFICES ASSUME RInv PROVE LoadOutcome
    OBVIOUS
  <2>1. Refused
    BY DEF RInv
  <2> QED
    BY <2>1, AtRespond DEF LoadOutcome, Refused
<1> QED
  BY <1>1, RInvHolds, PTL

(* A run that could open its database and reads it back answers from its   *)
(* own document.                                                           *)
THEOREM FreshResultHolds == Spec => []FreshResult
<1>1. RInv => FreshResult
  BY DEF RInv
<1> QED
  BY <1>1, RInvHolds, PTL

(* Once a run has opened its database nothing of an earlier run is in it.  *)
THEOREM NoStaleDatabaseHolds == Spec => []NoStaleDatabase
<1>1. RInv => NoStaleDatabase
  BY OwnFileIsFresh
<1> QED
  BY <1>1, RInvHolds, PTL

=============================================================================
